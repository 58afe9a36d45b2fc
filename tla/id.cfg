SPECIFICATION Spec
CONSTANTS
    WORD = 32
    InitialSizes <- SomeSizes
    Counts <- UpToFour
INVARIANTS
    TypeOK
    FoundIsFree
    FailureLeavesNoLongerRun
    SingleIdExact
    WalkFindsAllocated
