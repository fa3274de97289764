-------------------------- MODULE ShellRefinement --------------------------
(* The shell implements JobControl: an entry of the abstract list is the   *)
(* state of the job with that PID, wherever the job is in the array.       *)
EXTENDS Shell

jobView ==
    [p \in Pid |-> IF \E j \in Jid : Listed(j) /\ job_list[j].pid = p
                   THEN job_list[job_from_pid(p)].state ELSE "none"]

processFate ==
    [p \in Pid |-> IF proc[p].stage = "none" THEN "none"
                   ELSE IF proc[p].stage = "zombie" THEN "ended"
                   ELSE IF proc[p].stopped THEN "stopped"
                   ELSE "running"]

JC == INSTANCE JobControl WITH job <- jobView, process <- processFate

(* Every behaviour of the shell (eval, the built-ins, the handlers) is one *)
(* that JobControl allows its user to see.                                 *)
ImplementsJobControl == JC!JCSpec

=============================================================================
