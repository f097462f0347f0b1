SPECIFICATION FairSpec
CONSTANTS
    Nl = Nl
    Others = {a, b}
    Block = 2
    Wide = 4
    Narrow = 2
    Level = 2
    Star = Star
    AnyChar = AnyChar
    MaxLen = 5
    Calls <- AllCalls
CHECK_DEADLOCK FALSE
INVARIANTS
    AnswerIsExact
    RefusedForCause
    OnlyTheLastIsCut
    StartsAreLines
PROPERTIES
    CallReturns
