SPECIFICATION Spec
CONSTANTS
    Peers = {p1, p2}
    NoPeer = NoPeer
    MaxRequests = 2
    SinglePeer = TRUE
    InvalidateOnError = TRUE
INVARIANT PendingOnOpenPeer
PROPERTY KeepsContract
