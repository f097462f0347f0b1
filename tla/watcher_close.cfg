SPECIFICATION Spec
CONSTANTS
    Systems = {"linux"}
    Fds <- TwoFds
    QueueLimit = 2
    MaxEvents = 1
    MaxStarts = 1
    OthersOpen = TRUE
INVARIANTS WorkerReadsItsOwn
CHECK_DEADLOCK FALSE
