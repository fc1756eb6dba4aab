SPECIFICATION Spec
CONSTANTS
    Window = {main, w1}
    Main = main
    InitialWindows = {main, w1}
    MaxTriggers = 2
    MaxTransfers = 0
    MaxWedged = 0
    Reopens = 0
CHECK_DEADLOCK FALSE
INVARIANT
    NoTeardownUnderADialog
