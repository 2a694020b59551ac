SPECIFICATION FairSpec
CONSTANTS
    ThreadCount = 2
    QueueSize = 2
    Tasks = {t1, t2, t3}
    Destroyers = {d1, d2}
    Creator = Creator
    NoTask = NoTask
INVARIANTS SleepersLeaveNoWork RingHoldsQueued FreedAfterWorkers GracefulDrains
PROPERTIES DestroyReturns AcceptedTasksRun TasksInOrder
CHECK_DEADLOCK FALSE
