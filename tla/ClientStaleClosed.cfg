SPECIFICATION Spec
CONSTANTS
    Conns = {c1, c2}
    Requests = {r1}
    None = None
    MaxCalls = 2
    MaxReads = 0
    InvalidateOnError = TRUE
INVARIANT ClosedOnlyWhileConnected
