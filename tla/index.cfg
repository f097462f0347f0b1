SPECIFICATION Spec
CONSTANTS
    Nl = Nl
    a = a
    Others = {a}
    Files <- SomeFiles
    MaxLine = 3
    Granularities = {1, 2}
    Digest = 1
    Second = 2
    Jitters = {0, 1}
    MaxTime = 2
    MaxWrites = 2
    Replaces = TRUE
    StampsMeet = TRUE
CHECK_DEADLOCK FALSE
INVARIANTS
    AnswerIsPresent
    NoWildRead
    RefusedForCause
