SPECIFICATION TestSpec
CONSTANTS
    Addr = {1, 2, 3, 4, 5}
    NULL = NULL
    Nearest = 2
    MaxSize = 2
    MaxString = 1
    SIZE_MAX = 7
    HeadAfterEmptying = TRUE
PROPERTIES
    ImplementsDeque
CHECK_DEADLOCK FALSE
