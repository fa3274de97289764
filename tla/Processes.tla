----------------------------- MODULE Processes -----------------------------
(***************************************************************************)
(* The child processes of the tiny shell, from fork to reap: the child's   *)
(* branch of eval (shelllab/tsh.c) up to execve, and of the program it     *)
(* then becomes only what the shell can notice (it exits, is killed,       *)
(* stops, continues).  fork, kill, waitpid and signal delivery are the     *)
(* kernel's and are modelled from the way tsh.c uses them.                 *)
(*                                                                         *)
(* A child that has not called execve still runs the shell's handlers on   *)
(* its own copy of the job list, where there is no foreground job: SIGINT  *)
(* and SIGTSTP do nothing to it.  Before its setpgid(0, 0) there is no     *)
(* process group to reach it by.                                           *)
(***************************************************************************)
EXTENDS Integers, JobList

VARIABLES
    proc,       \* the child processes, by process ID
    sigpending  \* signals pending for the shell; one of each kind at most

procVars == <<proc, sigpending>>

KeyboardSignal == {"SIGINT", "SIGTSTP"}
Signal == KeyboardSignal \cup {"SIGCHLD"}

(* "none": no such child;  "forked": before setpgid;  "grouped": before    *)
(* execve;  "running": the program;  "zombie": ended, not yet waited for.  *)
Stage == {"none", "forked", "grouped", "running", "zombie"}

(* stopped: by a stop signal;  report: the stop has not been waited for;   *)
(* sigs: signals sent to the program that it has not yet taken.            *)
Process == [stage : Stage, stopped : BOOLEAN, report : BOOLEAN,
            sigs : SUBSET KeyboardSignal]

ProcessesTypeOK ==
    /\ proc \in [Pid -> Process]
    /\ sigpending \in SUBSET Signal

NoProcess == [stage |-> "none", stopped |-> FALSE, report |-> FALSE, sigs |-> {}]
Zombie == [NoProcess EXCEPT !.stage = "zombie"]

ProcessesInit ==
    /\ proc = [p \in Pid |-> NoProcess]
    /\ sigpending = {}

Unreaped(p) == proc[p].stage # "none"
Alive(p) == proc[p].stage \in {"forked", "grouped", "running"}
Scheduled(p) == Alive(p) /\ ~proc[p].stopped

(* A child that waitpid(-1, ..., WNOHANG | WUNTRACED) would return.        *)
Waitable(p) == proc[p].stage = "zombie" \/ proc[p].report

-----------------------------------------------------------------------------
(* What the shell's system calls do to the children.                       *)

fork(p) ==
    /\ proc[p].stage = "none"
    /\ proc' = [proc EXCEPT ![p] = [NoProcess EXCEPT !.stage = "forked"]]

Continued(P) ==
    [P EXCEPT !.stopped = FALSE, !.report = FALSE, !.sigs = @ \ {"SIGTSTP"}]

(* kill(-p, SIGCONT): the kernel tells the parent when a child continues.  *)
kill_SIGCONT(p) ==
    LET reached == p \in Pid /\ proc[p].stage \in {"grouped", "running"}
    IN  /\ proc' = IF reached THEN [proc EXCEPT ![p] = Continued(@)] ELSE proc
        /\ sigpending' = IF reached /\ proc[p].stopped
                         THEN sigpending \cup {"SIGCHLD"} ELSE sigpending

(* kill(-p, s) for a keyboard signal s.                                    *)
kill_keyboard(p, s) ==
    proc' = IF proc[p].stage = "running"
            THEN [proc EXCEPT ![p].sigs = @ \cup {s}]
            ELSE proc

-----------------------------------------------------------------------------
(* Steps of the children and of the rest of the system.  Each change of    *)
(* state that the parent may wait for, and each continuation, posts        *)
(* SIGCHLD to the shell.                                                   *)

PostSigchld == sigpending' = sigpending \cup {"SIGCHLD"}

ChildSetpgid(p) ==
    /\ proc[p].stage = "forked" /\ Scheduled(p)
    /\ proc' = [proc EXCEPT ![p].stage = "grouped"]
    /\ UNCHANGED sigpending

ChildExec(p) ==
    /\ proc[p].stage = "grouped" /\ Scheduled(p)
    /\ proc' = [proc EXCEPT ![p].stage = "running"]
    /\ UNCHANGED sigpending

(* A redirection or execve fails, and the child calls exit(0).             *)
ChildExecFails(p) ==
    /\ proc[p].stage = "grouped" /\ Scheduled(p)
    /\ proc' = [proc EXCEPT ![p] = Zombie]
    /\ PostSigchld

(* The program ends on its own, or on a keyboard signal it has been sent.  *)
ProgramEnds(p) ==
    /\ proc[p].stage = "running" /\ Scheduled(p)
    /\ proc' = [proc EXCEPT ![p] = Zombie]
    /\ PostSigchld

(* The program has a handler for s, or ignores it.                         *)
ProgramHandles(p, s) ==
    /\ Scheduled(p) /\ s \in proc[p].sigs
    /\ proc' = [proc EXCEPT ![p].sigs = @ \ {s}]
    /\ UNCHANGED sigpending

(* A stop: the SIGTSTP it was sent, its own doing, or another process's    *)
(* SIGSTOP.                                                                *)
ChildStops(p) ==
    /\ Scheduled(p)
    /\ proc' = [proc EXCEPT ![p].stopped = TRUE, ![p].report = TRUE,
                            ![p].sigs = @ \ {"SIGTSTP"}]
    /\ PostSigchld

(* A process other than the shell sends SIGCONT or SIGKILL.                *)
OtherContinues(p) ==
    /\ Alive(p) /\ proc[p].stopped
    /\ proc' = [proc EXCEPT ![p] = Continued(@)]
    /\ PostSigchld

OtherKills(p) ==
    /\ Alive(p)
    /\ proc' = [proc EXCEPT ![p] = Zombie]
    /\ PostSigchld

=============================================================================
