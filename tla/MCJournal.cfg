SPECIFICATION Spec
CONSTANTS
    main = main
    w1 = w1
    k1 = k1
    k2 = k2
    Window = {main, w1}
    Workspace = {k1, k2}
    Main = main
    Starts <- EitherWay
    MovesOn = FALSE
    MaxMoves = 2
    MaxUpsets = 1
SYMMETRY Either
CHECK_DEADLOCK FALSE
INVARIANTS
    TypeOK
    LostOnlyUnsaved
    RestoredAsLeft
