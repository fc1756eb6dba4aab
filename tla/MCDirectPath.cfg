SPECIFICATION Spec
CONSTANTS
    MaxApp = 3
    HeldFrames = 2
    QueuedFrames = 1
    BufferHigh = 1
    BufferLow = 0
INVARIANTS
    InOrder
    AttemptIsFree
    PathsAgree
PROPERTIES
    PeerSettles
    EndsTogether
CHECK_DEADLOCK FALSE
