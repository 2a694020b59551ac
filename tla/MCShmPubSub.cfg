SPECIFICATION Spec
CONSTANTS
    Segment = {1, 2}
    BlockNum = 2
    Subscribers = {s1, s2}
    MaxMessages = 2
    MaxInbox = 1
    MaxStops = 1
    MaxCrashes = 1
    Lossy = TRUE
SYMMETRY SubscriberSymmetry
INVARIANTS TypeOK NoOlderThanPublished AnsweredIsSeen
CHECK_DEADLOCK FALSE
