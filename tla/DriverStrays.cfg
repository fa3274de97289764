SPECIFICATION RunTraceSpec
CONSTANTS
    Jid = {1, 2, 3}
    GoodTraces <- MCGoodTraces
    OtherTraces <- MCOtherTraces
INVARIANT
    NoStrays
CHECK_DEADLOCK FALSE
