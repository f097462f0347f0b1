SPECIFICATION Spec
CONSTANTS
    Nl = Nl
    a = a
    Others = {a}
    Files <- AlikeFiles
    MaxLine = 3
    Granularities = {1, 2}
    Digest = 1
    Second = 2
    Jitters = {0}
    MaxTime = 3
    MaxWrites = 2
    Replaces = TRUE
    StampsMeet = FALSE
CHECK_DEADLOCK FALSE
INVARIANTS
    ChangeIsNoticed
