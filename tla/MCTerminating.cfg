SPECIFICATION Spec
CONSTANTS
    Node = {n1, n2, n3, n4}
    NULL = NULL
    Uri = {u1, u2, u3}
    NoUri = NoUri
    Nothing = Nothing
    MAX_CACHE_SIZE = 3
    Size = {1, 2, 3}
    MIN = 4
    MaxTime = 6
    Jid = {1, 2, 3}
    GoodTraces <- MCGoodTraces
    OtherTraces <- MCOtherTraces
    File <- MCFile
    Content <- MCContent
    Value <- MCValue
    NL = NL
    SP = SP
    Op = {"op", "net"}
    AsyncOp = {"net"}
    Fd = {0, 1, 2}
    Buffer = 3
    LineLimit = 5
    ErrLimit = 5
INVARIANTS
    CacheIsSound
    StraysCameLate
    TracesPlay
    SyncIsRendezvous
    ErrorsAreLimited
    AllIsAccounted
PROPERTIES
    ImplementsLRU
    EvictionEnds
    DriverRunEnds
    ImplementsScript
    ConsoleRunFinishes
CHECK_DEADLOCK FALSE
