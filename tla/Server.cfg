SPECIFICATION Spec
CONSTANTS
    Peers = {1, 2}
    Probes = {k1, k2}
    None = None
    Budgets <- MCBudgets
    LateReady = FALSE
CHECK_DEADLOCK FALSE
INVARIANTS
    TypeOK
    ClosedIsOnItsWay
    ReportsInOrder
    NoLostConnection
    BoundThenClosed
    NeverIdle
PROPERTIES
    KeepsLifecycle
    ProbeVerdict
