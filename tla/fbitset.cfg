SPECIFICATION Spec
CONSTANTS
    UINT = 32
    WORD = 64
    Widths <- SomeWidths
    Counts <- SomeCounts
INVARIANTS
    TypeOK
    FirstClrExact
    PrevClrExact
    WalkVisitsSetBits
PROPERTY SearchReturns
