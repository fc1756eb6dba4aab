SPECIFICATION Spec
CONSTANTS
    Window = {main, w1, w2, w3}
    Main = main
    InitialWindows = {main, w1, w2}
    MaxTriggers = 2
    MaxTransfers = 0
    MaxWedged = 0
    Reopens = 1
CHECK_DEADLOCK FALSE
SYMMETRY OtherWindows
INVARIANTS
    CancelCostsNothing
    OneAtATimeMainLast
    LastMeansLast
