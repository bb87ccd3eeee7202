CONSTANTS
    Word = 64
    Page = 16
    Alignment = 4
    HeapStart = 8
    FirstPages = 1
    MaxPages = 4
    Sizes = {0, 5, 13, 30, 60, 63}
SPECIFICATION Spec
INVARIANTS BlocksApart StatsFit
PROPERTY AllocEnds
CHECK_DEADLOCK FALSE
