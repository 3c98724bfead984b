SPECIFICATION Spec
CONSTANTS
    Conns = {c1, c2}
    Requests = {}
    None = None
    MaxCalls = 3
    MaxReads = 1
    InvalidateOnError = FALSE
INVARIANTS
    ToldOfOneAtATime
    ClosedOnlyWhileConnected
    OneConnection
