SPECIFICATION Spec
CONSTANTS
    Address = {0, 3, 4, 9}
    setBits = 1
    numLines = 2
    blockBits = 1
    MIN = 10
    MaxTime = 5
    SP = SP
    LT = LT
    GT = GT
    SQ = SQ
    DQ = DQ
    AMP = AMP
    a = a
    Letter = {a}
    NUL = NUL
    BuiltinWord <- BuiltinWords
    MAXARGS = 3
    MAXLINE_TSH = 6
    MaxLine = 6
    LogWidth = 3
    FracBits = 3
    Few <- FewWords
    Length = 4
    Capacity = 3
    RIO_BUFSIZE = 3
    BlockSizes = {1, 4}
    LineSizes = {1, 2, 4}
    Addr = {1, 2, 3, 4, 5, 6, 7, 8, 9}
    NULL = NULL
    Nearest = 1
    MaxSize = 4
    MaxString = 1
    SIZE_MAX = 7
    HeadAfterEmptying = FALSE
INVARIANTS
    OnlyTheQueueIsAllocated
    ReverseTurnsBounded
    ParsedAsWritten
    PuzzlesAreRight
PROPERTIES
    TesterSurvives
    ImplementsDeque
    ImplementsLRUSim
    ImplementsByteStream
CHECK_DEADLOCK FALSE
