SPECIFICATION Spec
CONSTANTS
    Address = {0, 3}
    setBits = 1
    numLines = 1
    blockBits = 1
    MIN = 10
    MaxTime = 1
    SP = SP
    LT = LT
    GT = GT
    SQ = SQ
    DQ = DQ
    AMP = AMP
    a = a
    Letter = {a}
    NUL = NUL
    BuiltinWord <- BuiltinWords
    MAXARGS = 3
    MAXLINE_TSH = 6
    MaxLine = 3
    LogWidth = 2
    FracBits = 1
    Few <- FewWords
    Length = 1
    Capacity = 1
    RIO_BUFSIZE = 1
    BlockSizes = {1}
    LineSizes = {1}
    Addr = {1, 2, 3}
    NULL = NULL
    Nearest = 1
    MaxSize = 1
    MaxString = 1
    SIZE_MAX = 7
    HeadAfterEmptying = FALSE
INVARIANTS
    ParsedAsDocumented
CHECK_DEADLOCK FALSE
