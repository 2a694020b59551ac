SPECIFICATION FairSpec
CONSTANTS
    Publishers = {p1}
    Subscribers = {s1, s2}
    MaxDelegates = 2
    MaxMessages = 2
INVARIANTS NobodySleepsOnWork PointersAreLive
PROPERTIES StopEndsWorker MessagesArrive MailboxSpec
CHECK_DEADLOCK FALSE
