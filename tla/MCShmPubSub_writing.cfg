SPECIFICATION Spec
CONSTANTS
    Segment = {1}
    BlockNum = 2
    Subscribers = {s1}
    MaxMessages = 2
    MaxInbox = 1
    MaxStops = 0
    MaxCrashes = 0
    Lossy = FALSE
INVARIANT Exclusion
CHECK_DEADLOCK FALSE
