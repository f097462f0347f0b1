SPECIFICATION FairSpec
CONSTANTS
    Systems = {"linux", "windows"}
    Fds <- TwoFds
    QueueLimit = 2
    MaxEvents = 4
    MaxStarts = 2
    OthersOpen = TRUE
INVARIANTS TypeOK EventsInOrder NoWorkerAfterStop ClosesItsOwn WatchesUntilStopped
PROPERTIES EventsDelivered StopReturns
CHECK_DEADLOCK FALSE
