SPECIFICATION FairSpec
CONSTANTS
    Segment = {1, 2}
    BlockNum = 2
    COUNT = 4
INVARIANTS CallbackOwnsBlock LocksAreExact
PROPERTIES EveryNumberOnce BenchmarkEnds
