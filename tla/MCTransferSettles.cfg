SPECIFICATION Spec
CONSTANTS
    Window = {a, b}
    NoWindow = none
    Home = a
    Unopened = {b}
    MaxBytes = 2
    MaxMoves = 2
    MaxDestroyed = 1
CHECK_DEADLOCK FALSE
PROPERTIES
    MoveSettles
    SuppressionEnds
