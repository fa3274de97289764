SPECIFICATION Spec
CONSTANTS
    Pid = {p1, p2}
    NoPid = NoPid
    Typed = {"SIGINT", "SIGTSTP"}
    MAXJOBS = 2
INVARIANT
    JobFitsInFreeSlot
