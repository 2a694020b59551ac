SPECIFICATION FairSpec
CONSTANTS
    ThreadCount = 1
    QueueSize = 1
    Tasks = {t1}
    Destroyers = {d1, d2}
    Creator = Creator
    NoTask = NoTask
PROPERTY GracefulRunsPending
CHECK_DEADLOCK FALSE
