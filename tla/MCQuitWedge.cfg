SPECIFICATION Spec
CONSTANTS
    Window = {main, w1}
    Main = main
    InitialWindows = {main, w1}
    MaxTriggers = 2
    MaxTransfers = 0
    MaxWedged = 1
    Reopens = 0
CHECK_DEADLOCK FALSE
INVARIANTS
    TypeOK
    OneFlowHolds
    OnlyTheDeadAreForced
PROPERTIES
    VotingEnds
    WalkEnds
    CloseSettles
