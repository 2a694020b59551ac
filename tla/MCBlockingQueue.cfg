SPECIFICATION FairSpec
CONSTANTS
    Putters = {p1, p2}
    Getters = {g1, g2, g3}
    MaxElems = 2
    Cells = 3
    PutsEach = 2
    NoItem = NoItem
INVARIANTS NoLostWakeup CloseWakesEverybody
PROPERTIES FifoSpec PuttersFinish CloseEndsEverybody
CHECK_DEADLOCK FALSE
