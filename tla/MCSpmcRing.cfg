SPECIFICATION FairSpec
CONSTANTS
    Consumers = {c1, c2}
    Capacity = 3
    Count = 4
INVARIANTS Exclusion CountsAreClose NoOlderThanPublished
PROPERTIES StableWhileHeld PoolSpec EverybodyFinishes
CHECK_DEADLOCK FALSE
