SPECIFICATION Spec
CONSTANTS
    Pid = {p1, p2}
    NoPid = NoPid
    Typed = {"SIGINT", "SIGTSTP"}
    MAXJOBS = 2
SYMMETRY Symmetry
INVARIANTS
    TypeOK
    NextJidIsOnePastLargest
    OneForegroundJob
    JobsAreChildren
    NoLostSigchld
    SleepsOnForegroundJob
    StoppedIsShownStopped
    AbortsOnlyOnBadInput
PROPERTIES
    JobStateTransitions
    ForgottenOnlyWhenReaped
    KeyboardSignalsOnlyToForeground
    ImplementsJobControl
