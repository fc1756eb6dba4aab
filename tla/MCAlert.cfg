SPECIFICATION Spec
CONSTANTS
    v1 = v1
    v2 = v2
    q = q
    x = x
    Viewer = {v1, v2}
    Key = {"make"}
    Waiter = {q, x}
    Until <- EachKind
    Demotes = FALSE
INVARIANTS
    TypeOK
    HeldIsUndecided
    LatchesAgree
    IdleMeansIdle
PROPERTIES
    ParkedShieldsHuman
    RingsOnlyTheAbsent
    ClearedStaysCleared
    HeldIsDecided
