----------------------------- MODULE JobControl -----------------------------
(***************************************************************************)
(* What the tiny shell promises its user, without slots, job IDs, signals, *)
(* handlers or system calls: every process the shell has started has one   *)
(* entry at most; a command takes effect only while no job is in the       *)
(* foreground; an entry follows what became of its process; and an entry   *)
(* and its process are forgotten together.                                 *)
(***************************************************************************)
CONSTANT Pid

VARIABLES
    job,        \* what the user is shown of each process
    process     \* what became of each process

jcVars == <<job, process>>

JobView == {"none", "FG", "BG", "ST"}
Fate == {"none", "running", "stopped", "ended"}

JCTypeOK ==
    /\ job \in [Pid -> JobView]
    /\ process \in [Pid -> Fate]

JCInit ==
    /\ job = [p \in Pid |-> "none"]
    /\ process = [p \in Pid |-> "none"]

NoForeground == \A p \in Pid : job[p] # "FG"

(* A command starts a process, ...                                         *)
Launch(p) ==
    /\ NoForeground
    /\ process[p] = "none"
    /\ process' = [process EXCEPT ![p] = "running"]
    /\ UNCHANGED job

(* ... which enters the list, whatever has become of it by then.           *)
Record(p, view) ==
    /\ NoForeground
    /\ job[p] = "none" /\ process[p] # "none"
    /\ job' = [job EXCEPT ![p] = view]
    /\ UNCHANGED process

(* bg and fg continue a stopped process, if it can be reached.             *)
Resume(p, view) ==
    /\ NoForeground
    /\ job[p] # "none" /\ process[p] # "none"
    /\ job' = [job EXCEPT ![p] = view]
    /\ \/ UNCHANGED process
       \/ /\ process[p] = "stopped"
          /\ process' = [process EXCEPT ![p] = "running"]

NoticeStop(p) ==
    /\ job[p] # "none" /\ process[p] = "stopped"
    /\ job' = [job EXCEPT ![p] = "ST"]
    /\ UNCHANGED process

NoticeEnd(p) ==
    /\ process[p] = "ended"
    /\ job' = [job EXCEPT ![p] = "none"]
    /\ process' = [process EXCEPT ![p] = "none"]

(* The processes' own doing.                                               *)
Happens(p) ==
    /\ \/ process[p] = "running" /\ process' = [process EXCEPT ![p] = "stopped"]
       \/ process[p] = "stopped" /\ process' = [process EXCEPT ![p] = "running"]
       \/ /\ process[p] \in {"running", "stopped"}
          /\ process' = [process EXCEPT ![p] = "ended"]
    /\ UNCHANGED job

ShellGone ==
    /\ job' = [p \in Pid |-> "none"]
    /\ process' = [p \in Pid |-> "none"]

JCNext ==
    \/ \E p \in Pid :
          \/ Launch(p)
          \/ \E view \in {"FG", "BG"} : Record(p, view) \/ Resume(p, view)
          \/ NoticeStop(p)
          \/ NoticeEnd(p)
          \/ Happens(p)
    \/ ShellGone

JCSpec == JCInit /\ [][JCNext]_jcVars

=============================================================================
