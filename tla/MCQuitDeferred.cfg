SPECIFICATION Spec
CONSTANTS
    Window = {main, w1, w2}
    Main = main
    InitialWindows = {main}
    MaxTriggers = 1
    MaxTransfers = 2
    MaxWedged = 0
    Reopens = 1
CHECK_DEADLOCK FALSE
INVARIANTS
    TransfersExcludeTeardown
    ExitWaitsForHandBacks
PROPERTIES
    DeferredQuitRuns
