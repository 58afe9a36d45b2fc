SPECIFICATION Spec
CONSTANTS
    W = 2
    Names = {x, y}
    Widths <- SomeWidths
    Values <- SomeValues
PROPERTY CopyRangeCopies
