SPECIFICATION FairSpec
CONSTANTS
    Workers = {v1, v2, v3}
    Clients = {c1, c2}
    MaxTasks = 3
INVARIANTS QueueIsFifo RunsOnce NoLostWakeup DrainedWhenGone IInv
PROPERTIES FutureIsReady DestructorReturns
CHECK_DEADLOCK FALSE
