SPECIFICATION Spec
CONSTANTS
    LengthLimit = 64
    SizeLimit = 128
    MaxMessageSize = 16
    Messages <- MCMessages
    MaxSendQueueSize = 2
    MaxFrames = 4
    MaxSends = 1
    MaxQueued = 3
INVARIANTS
    TypeOK
    EventsInOrder
    OneOperationEach
    FramesFit
    DeadlinesGuard
    OperationTimersEnd
PROPERTIES
    AnsweredBeforeClose
    SilentPeerEnds
    ReleasedInTheEnd
