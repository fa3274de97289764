SPECIFICATION FairSpec
CONSTANTS
    Pid = {p1, p2}
    NoPid = NoPid
    Typed = {"SIGINT"}
    MAXJOBS = 2
PROPERTIES
    ZombiesAreReaped
    ForegroundWaitEnds
