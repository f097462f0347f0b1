SPECIFICATION Spec
CONSTANTS
    a = a  b = b  x = x
    Nl = Nl
    Others = {a, b, x, Hole}
    Hole = Hole
    NoFile = NoFile
    Owner = Owner
    Other = Other
    Block = 2
    Full = 2
    LenField = 1
    SizeMax = 9
    ReadSizeMax = 15
    StringMax = 4
    Threads <- TwoThreads
    Initials <- ShortFiles
    TinyInitials <- TinyFiles
    EditCalls <- SomeEdits
    ReadCalls <- SomeReads
    Sessions = {"write", "append", "insert"}
    Twin <- TwinFile
    Texts <- XTexts
    Positions = {0, 1, 2, 9}
    OtherData <- BData
    Replacements <- Replacing
    Faults = TRUE
    WriteFaults = TRUE
    ReadFaults = TRUE
    MaxOps = 3
    MaxOthers = 2
    MaxAtWriter = 1
CHECK_DEADLOCK FALSE
INVARIANTS EditIsExact NothingLeft ReadIsOfOneMoment NothingForgotten InsertRewritesWhatItRead AppendsKept
PROPERTIES EditOfOneVersion InsertsLikeTheFile CommitIsWhole
