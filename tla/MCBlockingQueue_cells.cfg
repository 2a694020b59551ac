SPECIFICATION Spec
CONSTANTS
    Putters = {p1}
    Getters = {g1}
    MaxElems = 2
    Cells = 2
    PutsEach = 3
    NoItem = NoItem
INVARIANT InAllocatedCells
CHECK_DEADLOCK FALSE
