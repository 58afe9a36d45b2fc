SPECIFICATION Spec
CONSTANTS
    WORD = 32
    InitialSizes <- SomeSizes
    Counts <- UpToFour
INVARIANT FoundInRange
