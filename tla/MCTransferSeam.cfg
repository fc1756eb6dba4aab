SPECIFICATION Spec
CONSTANTS
    Window = {a, b, c}
    NoWindow = none
    Home = a
    Unopened = {c}
    MaxBytes = 2
    MaxMoves = 2
    MaxDestroyed = 1
CHECK_DEADLOCK FALSE
INVARIANTS
    TypeOK
    SeamIsExact
    SettledInOnePlace
    NeverNowhere
