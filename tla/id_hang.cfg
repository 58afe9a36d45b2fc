SPECIFICATION FairSpec
CONSTANTS
    WORD = 32
    InitialSizes <- SomeSizes
    Counts <- UpToFour
PROPERTY CallReturns
