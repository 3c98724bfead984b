SPECIFICATION Spec
CONSTANTS
    Peers = {p1, p2}
    NoPeer = NoPeer
    MaxRequests = 2
    SinglePeer = FALSE
    InvalidateOnError = TRUE
INVARIANTS
    TypeOK
    ExactlyOnce
    AnsweredByItsPeer
    NoDanglingWait
PROPERTIES
    TimeoutClosesOnlyItsOwn
    EveryRequestEnds
