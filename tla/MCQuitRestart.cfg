SPECIFICATION Spec
CONSTANTS
    Window = {main, w1}
    Main = main
    InitialWindows = {main}
    MaxTriggers = 2
    MaxTransfers = 1
    MaxWedged = 0
    Reopens = 0
CHECK_DEADLOCK FALSE
INVARIANTS
    RestartPromiseKept
