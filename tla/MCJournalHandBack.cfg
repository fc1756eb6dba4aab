SPECIFICATION Spec
CONSTANTS
    main = main
    w1 = w1
    k1 = k1
    k2 = k2
    Window = {main, w1}
    Workspace = {k1, k2}
    Main = main
    Starts <- Together
    MovesOn = FALSE
    MaxMoves = 1
    MaxUpsets = 1
SYMMETRY Either
CHECK_DEADLOCK FALSE
INVARIANTS
    NeverLost
