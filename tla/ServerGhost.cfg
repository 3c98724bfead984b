SPECIFICATION Spec
CONSTANTS
    Peers = {1}
    Probes = {k1, k2}
    None = None
    Budgets <- GhostBudgets
    LateReady = TRUE
CHECK_DEADLOCK FALSE
INVARIANTS
    ClosedIsOnItsWay
