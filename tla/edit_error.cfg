SPECIFICATION Spec
CONSTANTS
    a = a  b = b  x = x
    Nl = Nl
    Others = {a, b, x, Hole}
    Hole = Hole
    NoFile = NoFile
    Owner = Owner
    Other = Other
    Block = 2
    Full = 2
    LenField = 1
    SizeMax = 9
    ReadSizeMax = 15
    StringMax = 7
    Threads <- TwoThreads
    Initials <- ShortFiles
    TinyInitials <- TinyFiles
    EditCalls <- SomeEdits
    ReadCalls <- NoCalls
    Sessions = {}
    Twin <- TwinFile
    Texts <- XTexts
    Positions = {0, 1, 2, 9}
    OtherData <- BData
    Replacements <- Replacing
    Faults = TRUE
    WriteFaults = TRUE
    ReadFaults = TRUE
    MaxOps = 3
    MaxOthers = 0
    MaxAtWriter = 0
CHECK_DEADLOCK FALSE
INVARIANTS EditIsExactOrFails
