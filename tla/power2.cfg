SPECIFICATION Spec
CONSTANTS
    UINT32 = 32
    CreateArgs <- Geometries
    Sizes <- AllSizes
    Indexes <- AllIndexes
    Counts <- AllCounts
INVARIANTS
    TypeOK
    NoAssertFails
    ListsConsistent
    AllocExact
    AllocMultipleExact
    ReleasedIsWhole
    UsageAddsUp
    ReserveExact
PROPERTY ImplementsBlockAllocator
