SPECIFICATION Spec
CONSTANTS
    NULL = NULL
    KeyCount = 9
    Keys <- KeyRange
INVARIANTS
    TypeOK
    Linked
    Ordered
    RedBlack
    HoldsKeys
    LookupsFind
PROPERTY CallReturns
