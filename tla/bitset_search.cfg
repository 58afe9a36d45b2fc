SPECIFICATION Spec
CONSTANTS
    W = 3
    Names = {x, y}
    Widths <- LessThanAWord
    Values <- SomeValues
INVARIANT FullBitsetSearched
