SPECIFICATION Spec
CONSTANTS
    p1 = p1
    p2 = p2
    s1 = s1
    Pubs <- MCPubs
    Subs <- MCSubs
    MaxStarts <- MCMaxStarts
    MaxLosses = 1
INVARIANTS PairsMeet EntriesAreBounded
PROPERTIES Rendezvous
CHECK_DEADLOCK FALSE
