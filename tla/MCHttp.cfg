SPECIFICATION Spec
CONSTANTS
    Symbol <- MCSymbol
    kMaxMethodSize = 3
    kMaxURISize = 3
    kMaxVersionSize = 3
    kMaxHeaderSize = 9
    ULongMax = 999
    IntMax = 499
    a = a
    b = b
    Client = {a, b}
    Cut = {a}
    Requests <- MCRequests
    Answer <- MCAnswer
CHECK_DEADLOCK FALSE
INVARIANTS
    TypeOK
    HandledIsSent
    AnswerArrives
PROPERTY
    WaitingServed
