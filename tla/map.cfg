SPECIFICATION Spec
CONSTANTS
    Keys <- SomeKeys
    Data = {d1, d2}
    NULL = NULL
    UINT32 = 4
INVARIANTS
    DataAccounted
    WalkMissesNothing
PROPERTY WalkEnds
