SPECIFICATION Spec
CONSTANTS
    W = 2
    Names = {x, y}
    Widths <- SomeWidths
    Values <- SomeValues
INVARIANTS
    HoldsBits
    SearchesExact
    CountsExact
PROPERTY PastEndKept
SYMMETRY Symmetry
\* A failed assertion ends the program.
CHECK_DEADLOCK FALSE
