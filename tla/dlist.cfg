SPECIFICATION Spec
CONSTANTS
    Elements = {e1, e2, e3, e4, e5}
    Lists = {l1, l2}
    NULL = NULL
INVARIANTS
    Forward
    Backward
    LinkedWhileListed
