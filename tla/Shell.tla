------------------------------- MODULE Shell -------------------------------
(***************************************************************************)
(* The tiny shell, shelllab/tsh.c: the read/eval loop, the built-in        *)
(* commands, the signal handlers and the clean-up at exit, over the job    *)
(* list of JobList and the children of Processes.                          *)
(*                                                                         *)
(* A stretch of code that runs with SIGCHLD, SIGINT and SIGTSTP blocked is *)
(* cut only where it makes a system call whose result the children may     *)
(* change (fork, waitpid) or where it waits; its accesses to the job list  *)
(* are the shell's alone.  A handler runs where the signals are not        *)
(* blocked: at the prompt, inside sigsuspend, and while the shell exits.   *)
(* A handler blocks all three signals, so handlers do not overlap.         *)
(***************************************************************************)
EXTENDS Processes

CONSTANT
    Typed       \* the signals the user types: Ctrl-C is SIGINT, Ctrl-Z SIGTSTP

ASSUME TypedAssumption == Typed \subseteq KeyboardSignal

VARIABLES
    pc,         \* where the main flow of control is
    handler,    \* "sigchld" while sigchld_handler is in its waitpid loop
    forked,     \* the child eval has forked and not yet added to the list
    installed,  \* the signals whose handlers are installed
    refused,    \* ghost: unreaped children that add_job did not record
    fatal       \* the check that aborted the shell, or "none"

shellVars == <<pc, handler, forked, installed, refused, fatal>>
vars == <<listVars, procVars, shellVars>>

(* "prompt": in fgets, or evaluating a command before it blocks signals;   *)
(* "forked": in eval, after fork;  "loop": about to test fg_job() > 0;     *)
(* "suspended": in sigsuspend;  "woken": there, and a handler has run;     *)
(* "exit": in exit(), which runs cleanup;  "exited", "aborted": gone.      *)
PC == {"prompt", "forked", "loop", "suspended", "woken", "exit",
       "exited", "aborted"}

Fatal == {"none", "add_job: invalid pid", "add_job: foreground job exists",
          "add_job: slot in use", "builtin: no such job",
          "builtin: foreground job exists", "sigchld: no such job"}

NothingForked == [pid |-> NoPid, state |-> "UNDEF"]

ShellTypeOK ==
    /\ pc \in PC
    /\ handler \in {"none", "sigchld"}
    /\ forked \in Job
    /\ installed \in SUBSET Signal
    /\ refused \in SUBSET Pid
    /\ fatal \in Fatal

(* Every variable holds a value of its type: slots, processes, signals and *)
(* the shell's own state (tsh.c, tsh_helper.c).                            *)
TypeOK == JobListTypeOK /\ ProcessesTypeOK /\ ShellTypeOK

Init ==
    /\ init_job_list
    /\ ProcessesInit
    /\ pc = "prompt"
    /\ handler = "none"
    /\ forked = NothingForked
    /\ installed = Signal
    /\ refused = {}
    /\ fatal = "none"

Gone == pc \in {"exited", "aborted"}

(* The shell's process ends: its memory and its pending signals go with    *)
(* it, and its children become another process's.                          *)
Ends(how, why) ==
    /\ pc' = how
    /\ fatal' = why
    /\ destroy_job_list
    /\ proc' = [p \in Pid |-> NoProcess]
    /\ sigpending' = {}
    /\ handler' = "none"
    /\ forked' = NothingForked
    /\ installed' = {}
    /\ UNCHANGED refused

abort(why) == Ends("aborted", why)

Goto(next) ==
    /\ pc' = next
    /\ UNCHANGED <<handler, forked, installed, refused, fatal>>

-----------------------------------------------------------------------------
(* eval of a command that is not built in.  The signals stay blocked from  *)
(* before the fork until the job is added (background) or until the first  *)
(* sigsuspend (foreground).                                                *)

ReadCommand == pc = "prompt" /\ handler = "none"

EvalFork(p, state) ==
    /\ ReadCommand
    /\ fork(p)
    /\ pc' = "forked"
    /\ forked' = [pid |-> p, state |-> state]
    /\ UNCHANGED <<listVars, sigpending, handler, installed, refused, fatal>>

(* fork returns -1, which eval passes on to add_job.                       *)
EvalForkFails ==
    /\ ReadCommand
    /\ abort("add_job: invalid pid")

EvalAddJob ==
    /\ pc = "forked"
    /\ IF forked.state = "FG" /\ fg_job # 0
       THEN abort("add_job: foreground job exists")
       ELSE IF ~add_job_slot_free
       THEN abort("add_job: slot in use")
       ELSE /\ add_job(forked.pid, forked.state)
            /\ refused' = IF add_job_full THEN refused \cup {forked.pid}
                                          ELSE refused
            /\ pc' = IF forked.state = "FG" THEN "loop" ELSE "prompt"
            /\ forked' = NothingForked
            /\ UNCHANGED <<procVars, handler, installed, fatal>>

(* while (fg_job() > 0) sigsuspend(&prev);  of eval and builtin_back_fore, *)
(* and the return to the prompt with the signals unblocked.                *)
TestForeground_AfterSleep ==    \* a bug: do sigsuspend while fg_job() > 0
    /\ pc = "loop"
    /\ Goto("suspended")
    /\ UNCHANGED <<listVars, procVars>>

TestForeground ==
    /\ pc = "loop"
    /\ Goto(IF fg_job > 0 THEN "suspended" ELSE "prompt")
    /\ UNCHANGED <<listVars, procVars>>

SigsuspendReturns_NoLoop ==     \* a bug: if for while
    /\ pc = "woken" /\ handler = "none"
    /\ Goto("prompt")
    /\ UNCHANGED <<listVars, procVars>>

SigsuspendReturns ==
    /\ pc = "woken" /\ handler = "none"
    /\ Goto("loop")
    /\ UNCHANGED <<listVars, procVars>>

-----------------------------------------------------------------------------
(* builtin_back_fore.  The argument is %jid or a PID.  A missing argument, *)
(* one that does not scan, and a %jid that does not exist only print.  An  *)
(* argument with nothing to scan ("%" alone, or an empty quoted string)    *)
(* leaves jid or pid uninitialized: that is any jid or any pid here.       *)

BgJob_NoSignal(jid) ==          \* a bug: the job is marked, not continued
    /\ job_set_state(jid, "BG")
    /\ UNCHANGED <<procVars, shellVars>>

BgJob(jid) ==
    /\ kill_SIGCONT(job_list[jid].pid)
    /\ job_set_state(jid, "BG")
    /\ UNCHANGED shellVars

BuiltinBgJid(jid) ==
    /\ ReadCommand
    /\ job_exists(jid)
    /\ BgJob(jid)

BuiltinBgPid(p) ==
    /\ ReadCommand
    /\ IF job_from_pid(p) # 0
       THEN BgJob(job_from_pid(p))
       ELSE abort("builtin: no such job")

FgJob(jid, p) ==
    IF ~require_job_exists(jid)
    THEN abort("builtin: no such job")
    ELSE IF ~require_valid_state("FG")
    THEN abort("builtin: foreground job exists")
    ELSE kill_SIGCONT(p) /\ job_set_state(jid, "FG") /\ Goto("loop")

BuiltinFgJid(jid) ==
    /\ ReadCommand
    /\ job_exists(jid)
    /\ FgJob(jid, job_list[jid].pid)

BuiltinFgPid(p) ==
    /\ ReadCommand
    /\ FgJob(job_from_pid(p), p)

-----------------------------------------------------------------------------
(* quit, or the end of the input: exit runs cleanup, which resets the      *)
(* three handlers one after the other and then destroys the job list.      *)

Quit ==
    /\ ReadCommand
    /\ Goto("exit")
    /\ UNCHANGED <<listVars, procVars>>

CleanupResetHandler ==
    /\ pc = "exit" /\ handler = "none"
    /\ installed # {}
    /\ installed' = installed \ {IF "SIGINT" \in installed THEN "SIGINT"
                                 ELSE IF "SIGTSTP" \in installed THEN "SIGTSTP"
                                 ELSE "SIGCHLD"}
    /\ UNCHANGED <<listVars, procVars, pc, handler, forked, refused, fatal>>

CleanupDestroy ==
    /\ pc = "exit" /\ handler = "none"
    /\ installed = {}
    /\ Ends("exited", "none")

(* Ctrl-C once SIGINT has its default action again.                        *)
KilledInCleanup ==
    /\ pc = "exit" /\ handler = "none"
    /\ "SIGINT" \in sigpending \ installed
    /\ Ends("exited", "none")

(* sigquit_handler: _exit(1) at once.  SIGQUIT is never blocked.           *)
SigquitHandler ==
    /\ ~Gone
    /\ Ends("exited", "none")

-----------------------------------------------------------------------------
(* The handlers of SIGCHLD, SIGINT and SIGTSTP.                            *)

TypeAtKeyboard(s) ==
    /\ ~Gone
    /\ sigpending' = sigpending \cup {s}
    /\ UNCHANGED <<listVars, proc, shellVars>>

Unblocked_AfterFork ==          \* a bug: eval blocks no signals
    pc \in {"prompt", "forked", "suspended", "woken", "exit"} /\ handler = "none"

Unblocked == pc \in {"prompt", "suspended", "woken", "exit"} /\ handler = "none"

Deliver_BeforeSleep(s) ==       \* a bug: unblock, then pause, for sigsuspend
    /\ Unblocked
    /\ s \in sigpending \cap installed
    /\ sigpending' = sigpending \ {s}
    /\ UNCHANGED <<listVars, pc, forked, installed, refused, fatal>>

Deliver(s) ==
    /\ Unblocked
    /\ s \in sigpending \cap installed
    /\ sigpending' = sigpending \ {s}
    /\ pc' = IF pc = "suspended" THEN "woken" ELSE pc
    /\ UNCHANGED <<listVars, forked, installed, refused, fatal>>

(* sigint_handler and sigtstp_handler: pass s on to the group of the       *)
(* foreground job, if there is one.                                        *)
KeyboardHandler(s) ==
    /\ Deliver(s)
    /\ IF fg_job > 0 THEN kill_keyboard(job_list[fg_job].pid, s) ELSE UNCHANGED proc
    /\ UNCHANGED handler

SigchldHandler ==
    /\ Deliver("SIGCHLD")
    /\ handler' = "sigchld"
    /\ UNCHANGED proc

ReapEnded_KeepsJob(p) ==        \* a bug: the job is not deleted
    /\ handler = "sigchld"
    /\ proc[p].stage = "zombie"
    /\ proc' = [proc EXCEPT ![p] = NoProcess]
    /\ refused' = refused \ {p}
    /\ UNCHANGED <<listVars, sigpending, pc, handler, forked, installed, fatal>>

(* One turn of the waitpid loop for a child that has ended ...             *)
ReapEnded(p) ==
    /\ handler = "sigchld"
    /\ proc[p].stage = "zombie"
    /\ proc' = [proc EXCEPT ![p] = NoProcess]
    /\ delete_job(job_from_pid(p))
    /\ refused' = refused \ {p}
    /\ UNCHANGED <<sigpending, pc, handler, forked, installed, fatal>>

ReapStopped_DeletesJob(p) ==    \* a bug: a stop is taken for an end
    /\ handler = "sigchld"
    /\ proc[p].report
    /\ proc' = [proc EXCEPT ![p].report = FALSE]
    /\ delete_job(job_from_pid(p))
    /\ UNCHANGED <<sigpending, shellVars>>

(* ... and for one that has stopped.                                       *)
ReapStopped(p) ==
    /\ handler = "sigchld"
    /\ proc[p].report
    /\ IF require_job_exists(job_from_pid(p))
       THEN /\ proc' = [proc EXCEPT ![p].report = FALSE]
            /\ job_set_state(job_from_pid(p), "ST")
            /\ UNCHANGED <<sigpending, shellVars>>
       ELSE abort("sigchld: no such job")

SigchldReturns_AfterOne ==      \* a bug: if for while
    /\ handler = "sigchld"
    /\ handler' = "none"
    /\ UNCHANGED <<listVars, procVars, pc, forked, installed, refused, fatal>>

(* waitpid has nothing to return.                                          *)
SigchldReturns ==
    /\ handler = "sigchld"
    /\ \A p \in Pid : ~Waitable(p)
    /\ handler' = "none"
    /\ UNCHANGED <<listVars, procVars, pc, forked, installed, refused, fatal>>

-----------------------------------------------------------------------------

ChildStep(p) ==
    /\ ~Gone
    /\ \/ ChildSetpgid(p)
       \/ ChildExec(p)
       \/ ChildExecFails(p)
       \/ ProgramEnds(p)
       \/ \E s \in KeyboardSignal : ProgramHandles(p, s)
       \/ ChildStops(p)
       \/ OtherContinues(p)
       \/ OtherKills(p)
    /\ UNCHANGED <<listVars, shellVars>>

Command ==
    \/ \E p \in Pid, state \in {"FG", "BG"} : EvalFork(p, state)
    \/ EvalForkFails
    \/ \E jid \in Jid : BuiltinBgJid(jid) \/ BuiltinFgJid(jid)
    \/ \E p \in Pid \cup {NoPid} : BuiltinBgPid(p) \/ BuiltinFgPid(p)
    \/ Quit

Eval ==
    \/ EvalAddJob
    \/ TestForeground
    \/ SigsuspendReturns

Cleanup ==
    \/ CleanupResetHandler
    \/ CleanupDestroy
    \/ KilledInCleanup

Handlers ==
    \/ \E s \in KeyboardSignal : KeyboardHandler(s)
    \/ SigchldHandler
    \/ \E p \in Pid : ReapEnded(p) \/ ReapStopped(p)
    \/ SigchldReturns

Terminated == Gone /\ UNCHANGED vars

Next ==
    \/ Command
    \/ Eval
    \/ Cleanup
    \/ Handlers
    \/ SigquitHandler
    \/ \E s \in Typed : TypeAtKeyboard(s)
    \/ \E p \in Pid : ChildStep(p)
    \/ Terminated

Spec == Init /\ [][Next]_vars

-----------------------------------------------------------------------------
(* Safety.                                                                 *)

ListedPids == {job_list[j].pid : j \in {k \in Jid : Listed(k)}}

(* "At most 1 job can be in the FG state" (tsh_helper.h), and none is when *)
(* the shell reads a command or has only just forked one: a command is     *)
(* taken only after the foreground job has ended or stopped (eval).        *)
OneForegroundJob ==
    /\ \A i, j \in Jid :
          job_list[i].state = "FG" /\ job_list[j].state = "FG" => i = j
    /\ pc \in {"prompt", "forked", "exit"} =>
          \A j \in Jid : job_list[j].state # "FG"

(* The job list and the kernel agree: a job's PID is that of an unreaped   *)
(* child of the shell, of one job only, so that kill(-pid) never reaches a *)
(* process that has since taken over the PID; and every unreaped child is  *)
(* listed, about to be, or was refused by add_job (eval, sigchld_handler). *)
JobsAreChildren ==
    /\ \A j \in Jid : Listed(j) =>
          /\ job_list[j].pid \in Pid
          /\ Unreaped(job_list[j].pid)
          /\ job_list[j].pid \notin refused
          /\ pc = "forked" => job_list[j].pid # forked.pid
    /\ \A i, j \in Jid :
          Listed(i) /\ Listed(j) /\ job_list[i].pid = job_list[j].pid => i = j
    /\ \A p \in Pid : Unreaped(p) =>
          p \in ListedPids \cup refused \/ (pc = "forked" /\ forked.pid = p)

(* No change of a child goes unnoticed: while some child can be waited     *)
(* for, SIGCHLD is pending or sigchld_handler is in its loop, although one *)
(* pending SIGCHLD may stand for several children (sigchld_handler).       *)
NoLostSigchld ==
    (\E p \in Pid : Waitable(p)) =>
        "SIGCHLD" \in sigpending \/ handler = "sigchld"

(* The shell goes to sleep only while there is a foreground job whose end  *)
(* or stop will wake it (the race that eval closes by testing fg_job with  *)
(* the signals blocked and by sigsuspend).                                 *)
SleepsOnForegroundJob ==
    pc = "suspended" =>
        \E j \in Jid : job_list[j].state = "FG" /\ Unreaped(job_list[j].pid)

(* A child that has stopped, and whose stop has been waited for, is shown  *)
(* as stopped, if a signal to its process group would reach it and it is   *)
(* on the list at all (sigchld_handler, builtin_back_fore).                *)
StoppedIsShownStopped ==
    \A j \in Jid : Listed(j) =>
        LET P == proc[job_list[j].pid]
        IN  P.stage \in {"grouped", "running"} /\ P.stopped /\ ~P.report
              => job_list[j].state = "ST"

(* The shell does not abort through a fault of its own: no check of        *)
(* tsh_helper.c fails but for a failed fork, a PID given to bg or fg that  *)
(* is no job's, and the stop of a child that add_job had refused.          *)
AbortsOnlyOnBadInput ==
    /\ fatal \in {"none", "add_job: invalid pid", "builtin: no such job",
                  "sigchld: no such job"}
    /\ fatal = "sigchld: no such job" => refused # {}

(* What the invariants above rest on: where the signals stay blocked no    *)
(* handler is running, and the child just forked is there to be added; a   *)
(* child refused by add_job is still a child; a stop yet to be reported is *)
(* that of a stopped child; a check that fails ends the shell; the stop of *)
(* a child not yet added to the list is still to be reported.              *)
ControlConsistent ==
    /\ pc \in {"forked", "loop", "suspended", "exited", "aborted"} => handler = "none"
    /\ pc = "forked" =>
          /\ forked.pid \in Pid /\ forked.state \in {"FG", "BG"}
          /\ Unreaped(forked.pid)
          /\ forked.pid \notin refused
    /\ ~Gone => \A p \in refused : Unreaped(p)
    /\ \A p \in Pid : proc[p].report => Alive(p) /\ proc[p].stopped

FatalAborts == fatal # "none" => pc = "aborted"

ForkedStopUnreported ==
    pc = "forked" /\ proc[forked.pid].stopped => proc[forked.pid].report

ShellInv ==
    /\ TypeOK
    /\ ControlConsistent
    /\ FatalAborts
    /\ ForkedStopUnreported
    /\ NextJidIsOnePastLargest
    /\ OneForegroundJob
    /\ JobsAreChildren
    /\ NoLostSigchld
    /\ SleepsOnForegroundJob
    /\ StoppedIsShownStopped
    /\ AbortsOnlyOnBadInput

-----------------------------------------------------------------------------
(* What a step may do.                                                     *)

(* The job state transitions tabulated in tsh_helper.h, with the stop of a *)
(* background job: a job starts as FG or BG, a foreground job never goes   *)
(* to the background but by way of a stop, and a job keeps its job ID.     *)
KeepsToTransitions ==
    ~Gone' => \A j \in Jid :
        LET from == job_list[j]  to == job_list'[j]
        IN  /\ from.state = "UNDEF" => to.state \in {"UNDEF", "FG", "BG"}
            /\ from.state = "FG" => to.state \in {"FG", "ST", "UNDEF"}
            /\ from.state # "UNDEF" /\ to.state # "UNDEF" => to.pid = from.pid

(* Every step of the shell keeps to that table.                            *)
JobStateTransitions == [][KeepsToTransitions]_vars

(* While the shell lives, a job leaves the list in the step that reaps its *)
(* process, and in no other (sigchld_handler, delete_job).                 *)
ForgetsOnlyReaped ==
    ~Gone' => \A j \in Jid :
        Listed(j) /\ ~Listed(j)' =>
            /\ proc[job_list[j].pid].stage = "zombie"
            /\ proc'[job_list[j].pid].stage = "none"

(* No step makes the shell forget a child that it has still to wait for.   *)
ForgottenOnlyWhenReaped == [][ForgetsOnlyReaped]_vars

(* "Typing Ctrl-C, or Ctrl-Z, causes a signal, which should be forwarded   *)
(* to an entire process group that contains the foreground job. If none,   *)
(* there is no effect" (tsh.c:22): no other job is ever sent one.          *)
SignalsOnlyForeground ==
    \A p \in Pid : ~(proc'[p].sigs \subseteq proc[p].sigs) =>
        \E j \in Jid : job_list[j] = [pid |-> p, state |-> "FG"]

(* No step sends a typed signal anywhere but to the foreground job.        *)
KeyboardSignalsOnlyToForeground == [][SignalsOnlyForeground]_vars

(* The other half of that sentence: a handler that finds a foreground job  *)
(* leaves it with the signal, unless its process has ended already.        *)
SignalsForeground ==
    \A s \in KeyboardSignal, j \in Jid :
        KeyboardHandler(s) /\ job_list[j].state = "FG" =>
            \/ s \in proc'[job_list[j].pid].sigs
            \/ proc[job_list[j].pid].stage = "zombie"

(* No handler that finds a foreground job keeps the signal from it.        *)
KeyboardSignalReachesForeground == [][SignalsForeground]_vars

(* add_job "may fail to add a job if there are no more job IDs available   *)
(* (restricted by the MAXJOBS constant)" and delete_job frees "its job ID  *)
(* for use by another job" (tsh_helper.h:162,169): with a slot free, a job *)
(* can be added.                                                           *)
JobFitsInFreeSlot ==
    (\E j \in Jid : ~Listed(j)) => ~add_job_full

-----------------------------------------------------------------------------
(* Fairness: the shell is scheduled; the kernel delivers a signal that is  *)
(* unblocked again and again, and lets main go on between deliveries;      *)
(* waitpid does not pass over one child for ever.  Of the rest of the      *)
(* system it is assumed that nobody keeps continuing children while the    *)
(* handler waits for their stops, for its loop has no bound.  Nothing is   *)
(* assumed of the user or of the programs.                                 *)

ShellRuns ==
    /\ SF_vars(Eval)
    /\ SF_vars(SigchldHandler)
    /\ WF_vars(SigchldReturns)
    /\ \A p \in Pid : WF_vars(ReapEnded(p)) /\ WF_vars(ReapStopped(p))

NoEndlessContinuing ==
    <>[][handler = "sigchld" => \A p \in Pid : ~OtherContinues(p)]_vars

FairSpec == Spec /\ ShellRuns /\ NoEndlessContinuing

(* Every child that ends is reaped, while the shell lives ("makes sure to  *)
(* reap all zombie children", tsh.c:20).                                   *)
ZombiesAreReaped ==
    \A p \in Pid :
        proc[p].stage = "zombie" ~> proc[p].stage = "none" \/ pc \in {"exit", "exited", "aborted"}

(* Once the foreground job has ended, or has stopped and is not continued  *)
(* before the shell notices, the shell comes back to its prompt (the loop  *)
(* on fg_job in eval and builtin_back_fore).                               *)
ForegroundJob(waitable) ==
    \E j \in Jid : job_list[j].state = "FG" /\ Waitable(job_list[j].pid) = waitable

ForegroundWaitEnds ==
    pc \in {"loop", "suspended", "woken"} /\ ForegroundJob(TRUE)
        ~> pc = "prompt" \/ Gone \/ ForegroundJob(FALSE)

=============================================================================
