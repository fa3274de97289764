SPECIFICATION Spec
CONSTANTS
    Thread = {1, 2}
    Fd = {3, 4, 5}
    NoFd = NoFd
    FreeCell = FreeCell
    Node = {n1, n2}
    NULL = NULL
    Uri = {u1}
    NoUri = NoUri
    MAX_CACHE_SIZE = 3
    MAX_OBJECT_SIZE = 2
    Length = {1, 2, 3}
    MIN = 100
INVARIANTS
    EndsLeaveNothingOpen
CHECK_DEADLOCK FALSE
