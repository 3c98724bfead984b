SPECIFICATION Spec
CONSTANTS
    LengthLimit = 64
    SizeLimit = 128
    MaxMessageSize = 16
    Messages <- MCMessages
    MaxSendQueueSize = 2
    MaxFrames = 2
    MaxSends = 0
    MaxQueued = 4
INVARIANT ProbeStaysHidden
