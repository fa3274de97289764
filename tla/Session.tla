------------------------------- MODULE Session -------------------------------
(***************************************************************************)
(* The session that shelllab's driver starts: the shell under test and the *)
(* jobs it runs, which are the programs of TestPrograms, and the datagram  *)
(* sockets they share with the driver.  The shell is as small as it can be *)
(* and still call what Wrapper wraps when tsh.c does; its job control is   *)
(* the subject of module Shell.                                            *)
(*                                                                         *)
(* Processes are numbered in the order they are started and the shell is   *)
(* process 0.  A process acts on the signals that are pending for it       *)
(* before it takes a step of its own, except that a recv in which it is    *)
(* blocked may return first.                                               *)
(***************************************************************************)
EXTENDS Naturals, FiniteSetsExt, TestPrograms, Wrapper

CONSTANT Jid            \* the slots of the shell's job list that are used

VARIABLES
    proc,           \* the processes started so far
    shell,          \* the shell's process
    job,            \* the shell's job list
    lines,          \* datafd: command lines on their way to the shell
    prompts,        \* datafd: prompts on their way to the driver
    syncs,          \* syncfd: datagrams from jobs to the driver
    signals,        \* syncfd: datagrams from the driver to jobs
    shellsyncs,     \* shellsyncfd: datagrams from the shell
    shellsignals    \* shellsyncfd: datagrams to the shell

sessionVars == <<shellsync, proc, shell, job, lines, prompts, syncs, signals,
                 shellsyncs, shellsignals>>
datafd == <<lines, prompts>>
syncfd == <<syncs, signals>>
shellsyncfd == <<shellsyncs, shellsignals>>

Shell == 0

NewProcess(program, group, parent) ==
    [program |-> program, todo |-> ProgramText[program], status |-> "running",
     pending |-> {}, group |-> group, parent |-> parent, news |-> FALSE,
     alarm |-> HasAlarm(program)]

Live == {p \in DOMAIN proc : proc[p].status \in {"running", "stopped"}}

Members(group) == {p \in DOMAIN proc : proc[p].group = group}

(* A child of the shell leaves its status for waitpid.                     *)
Ended(x) ==
    [x EXCEPT !.status = IF x.parent = Shell THEN "zombie" ELSE "gone",
              !.news = TRUE, !.pending = {}]

Stopped(x) == [x EXCEPT !.status = "stopped", !.news = TRUE]

Signalled(x, sig) ==
    IF x.status \in {"zombie", "gone"} THEN x
    ELSE CASE sig = "KILL" -> Ended(x)
           [] sig = "CONT" -> [x EXCEPT !.status = "running", !.news = FALSE,
                                        !.pending = @ \ {"TSTP"}]
           [] OTHER -> [x EXCEPT !.pending = @ \cup {sig}]

AllSignalled(procs, targets, sig) ==
    [p \in DOMAIN procs |-> IF p \in targets THEN Signalled(procs[p], sig) ELSE procs[p]]

(* The processes become as given, and the shell hears of its children.     *)
Becomes(procs, sh) ==
    /\ proc' = procs
    /\ shell' = IF \E p \in DOMAIN proc :
                       proc[p].parent = Shell /\ procs[p].status # proc[p].status
                THEN [sh EXCEPT !.pending = @ \cup {"CHLD"}]
                ELSE sh

ShellSignalled(sig) == [shell EXCEPT !.pending = @ \cup {sig}]

SessionInit ==
    /\ proc = <<>>
    /\ shell = [status |-> "none", at |-> "prompt", todo |-> <<>>, pending |-> {}]
    /\ job = [j \in Jid |-> [pid |-> 0, state |-> "none"]]
    /\ lines = <<>> /\ prompts = 0
    /\ syncs = 0 /\ signals = 0
    /\ shellsyncs = 0 /\ shellsignals = 0

-----------------------------------------------------------------------------
(* Jobs.                                                                   *)

Deliverable(p) == proc[p].pending \ Blocked(proc[p].program)

(* A handler's steps come next;  without one, the process stops or ends.   *)
Delivered(x, sig) ==
    LET y == [x EXCEPT !.pending = @ \ {sig}]
    IN  IF sig \in Caught(x.program) THEN [y EXCEPT !.todo = Handler(x.program, sig) \o @]
        ELSE IF sig = "TSTP" THEN Stopped(y) ELSE Ended(y)

Deliver(p) ==
    /\ proc[p].status = "running"
    /\ \E sig \in Deliverable(p) :
          Becomes([proc EXCEPT ![p] = Delivered(@, sig)], shell)
    /\ UNCHANGED <<shellsync, job, datafd, syncfd, shellsyncfd>>

(* p is about to take a step of this kind.                                 *)
AtStep(p, step) ==
    /\ proc[p].status = "running"
    /\ proc[p].todo # <<>> /\ Head(proc[p].todo) = step
    /\ Deliverable(p) # {} => step = "recv"

After(p) == [proc EXCEPT ![p].todo = Tail(@)]

Send(p) ==
    /\ AtStep(p, "send")
    /\ syncs' = syncs + 1
    /\ proc' = After(p)
    /\ UNCHANGED <<shellsync, shell, job, datafd, signals, shellsyncfd>>

Recv(p) ==
    /\ AtStep(p, "recv")
    /\ signals > 0
    /\ signals' = signals - 1
    /\ proc' = After(p)
    /\ UNCHANGED <<shellsync, shell, job, datafd, syncs, shellsyncfd>>

Ends(p) ==
    /\ AtStep(p, "exit") \/ AtStep(p, "die")
    /\ Becomes([proc EXCEPT ![p] = Ended(@)], shell)
    /\ UNCHANGED <<shellsync, job, datafd, syncfd, shellsyncfd>>

Stops(p) ==
    /\ AtStep(p, "stop")
    /\ Becomes([After(p) EXCEPT ![p] = Stopped(@)], shell)
    /\ UNCHANGED <<shellsync, job, datafd, syncfd, shellsyncfd>>

Forks(p) ==
    /\ AtStep(p, "fork")
    /\ proc' = Append(After(p), NewProcess(ChildProgram(proc[p].program),
                                           proc[p].group, p))
    /\ UNCHANGED <<shellsync, shell, job, datafd, syncfd, shellsyncfd>>

Children(p) == {q \in DOMAIN proc : proc[q].parent = p}

Waits(p) ==
    /\ AtStep(p, "wait")
    /\ \A q \in Children(p) : proc[q].status = "gone"
    /\ proc' = After(p)
    /\ UNCHANGED <<shellsync, shell, job, datafd, syncfd, shellsyncfd>>

SignalsParent(p) ==
    \E sig \in {"INT", "TSTP"} :
        /\ AtStep(p, IF sig = "INT" THEN "int_parent" ELSE "tstp_parent")
        /\ Becomes(After(p), ShellSignalled(sig))
        /\ UNCHANGED <<shellsync, job, datafd, syncfd, shellsyncfd>>

SignalsOthers(p) ==
    \E step \in {"tstp_child", "term_child", "term_spins"} :
        /\ AtStep(p, step)
        /\ LET sig == IF step = "tstp_child" THEN "TSTP" ELSE "TERM"
               targets == IF step = "term_spins"
                          THEN {q \in Live : proc[q].program = "myspin1"}
                          ELSE Children(p)
           IN  proc' = AllSignalled(After(p), targets, sig)
        /\ UNCHANGED <<shellsync, shell, job, datafd, syncfd, shellsyncfd>>

(* SIGALRM after JOB_TIMEOUT.                                              *)
JobAlarm(p) ==
    /\ proc[p].alarm /\ p \in Live
    /\ proc' = [proc EXCEPT ![p] = [Signalled(@, "ALRM") EXCEPT !.alarm = FALSE]]
    /\ UNCHANGED <<shellsync, shell, job, datafd, syncfd, shellsyncfd>>

Job(p) ==
    \/ Deliver(p)
    \/ Send(p) \/ Recv(p)
    \/ Ends(p) \/ Stops(p)
    \/ Forks(p) \/ Waits(p)
    \/ SignalsParent(p) \/ SignalsOthers(p)

-----------------------------------------------------------------------------
(* The shell.                                                              *)

JobOf(p) == {j \in Jid : job[j].pid = p}
Foreground == {job[j].pid : j \in {i \in Jid : job[i].state = "FG"}}

(* The child of the driver's fork becomes the leader of the session.       *)
ShellStarts ==
    /\ shell.status = "starting"
    /\ shell' = [shell EXCEPT !.status = "running"]
    /\ UNCHANGED <<shellsync, proc, job, datafd, syncfd, shellsyncfd>>

AtMain(where) ==
    /\ shell.status = "running" /\ shell.at = where
    /\ shell.todo = <<>> /\ shell.pending = {}

Prompts ==
    /\ AtMain("prompt")
    /\ prompts' = prompts + 1
    /\ shell' = [shell EXCEPT !.at = "read"]
    /\ UNCHANGED <<shellsync, proc, job, lines, syncfd, shellsyncfd>>

FreeJid == Min({j \in Jid : job[j].pid = 0})

RunJob(program, state) ==
    LET p == Len(proc) + 1
    IN  /\ proc' = Append(proc, NewProcess(program, p, Shell))
        /\ job' = [job EXCEPT ![FreeJid] = [pid |-> p, state |-> state]]
        /\ shell' = [shell EXCEPT !.at = IF state = "FG" THEN "wait" ELSE "prompt"]

(* fg and bg, once the job is known: it is continued, and then its state   *)
(* is set.                                                                 *)
Resume(p, state, first) ==
    /\ shell' = [shell EXCEPT !.at = IF state = "FG" THEN "wait" ELSE "prompt",
                              !.todo = first \o wrap_kill(p, "CONT")
                                             \o wrap_job_set_state(p, state)]
    /\ UNCHANGED <<proc, job>>

NoSuchJob ==
    /\ shell' = [shell EXCEPT !.at = "prompt"]
    /\ UNCHANGED <<proc, job>>

ShellEnds ==
    /\ shell' = [shell EXCEPT !.status = "zombie"]
    /\ UNCHANGED <<proc, job>>

ReadLine ==
    /\ AtMain("read")
    /\ lines # <<>>
    /\ LET command == Head(lines)
       IN  CASE command[1] \in {"FG", "BG"} -> RunJob(command[2], command[1])
             [] command[1] = "%FG" /\ job[command[2]].pid # 0 ->
                    Resume(job[command[2]].pid, "FG", wrap_job_get_pid)
             [] command[1] = "%BG" /\ job[command[2]].pid # 0 ->
                    Resume(job[command[2]].pid, "BG", wrap_job_get_pid)
             [] command[1] = "PID" -> Resume(command[2], command[3], <<>>)
             [] command[1] \in {"quit", "eof"} -> ShellEnds
             [] OTHER -> NoSuchJob
    /\ lines' = Tail(lines)
    /\ UNCHANGED <<shellsync, prompts, syncfd, shellsyncfd>>

ForegroundDone ==
    /\ AtMain("wait")
    /\ Foreground = {}
    /\ shell' = [shell EXCEPT !.at = "prompt"]
    /\ UNCHANGED <<shellsync, proc, job, datafd, syncfd, shellsyncfd>>

(* The handlers, in each of which the others' signals are blocked.         *)
Handlers(sig) ==
    IF sig = "CHLD" THEN {wrap_waitpid}
    ELSE IF Foreground = {} THEN {<<>>}
    ELSE {wrap_job_get_pid \o wrap_kill(p, sig) : p \in Foreground}

Handle(sig) ==
    /\ shell.status = "running"
    /\ shell.todo = <<>> /\ sig \in shell.pending
    /\ \E handler \in Handlers(sig) :
          shell' = [shell EXCEPT !.pending = @ \ {sig}, !.todo = handler]
    /\ UNCHANGED <<shellsync, proc, job, datafd, syncfd, shellsyncfd>>

(* The shell is about to take a step of this kind in a wrapped call.       *)
InCall(step) ==
    /\ shell.status = "running"
    /\ shell.todo # <<>> /\ Head(shell.todo)[1] = step

Returned == [shell EXCEPT !.todo = Tail(@)]

ShellsyncSignal ==
    /\ InCall("shellsync_signal")
    /\ shellsyncs' = shellsyncs + 1
    /\ shell' = Returned
    /\ UNCHANGED <<shellsync, proc, job, datafd, syncfd, shellsignals>>

ShellsyncWait ==
    /\ InCall("shellsync_wait")
    /\ shellsignals > 0
    /\ shellsignals' = shellsignals - 1
    /\ shell' = Returned
    /\ UNCHANGED <<shellsync, proc, job, datafd, syncfd, shellsyncs>>

Kill ==
    /\ InCall("kill")
    /\ LET call == Head(shell.todo)
       IN  Becomes(AllSignalled(proc, Members(call[2]), call[3]), Returned)
    /\ UNCHANGED <<shellsync, job, datafd, syncfd, shellsyncfd>>

(* A job that is not listed makes job_set_state abort the shell.           *)
JobSetState ==
    /\ InCall("job_set_state")
    /\ LET call == Head(shell.todo)
           j == JobOf(call[2])
       IN  IF j = {}
           THEN shell' = [shell EXCEPT !.status = "zombie"] /\ UNCHANGED job
           ELSE /\ job' = [i \in Jid |-> IF i \in j
                              THEN [job[i] EXCEPT !.state = call[3]] ELSE job[i]]
                /\ shell' = Returned
    /\ UNCHANGED <<shellsync, proc, datafd, syncfd, shellsyncfd>>

(* waitpid returns a child that has ended or stopped since it was last     *)
(* returned, the handler deletes or marks its job, and calls waitpid again *)
(* until there is none.                                                    *)
WaitpidEnded(p) ==
    /\ proc[p].status = "zombie"
    /\ proc' = [proc EXCEPT ![p].status = "gone", ![p].news = FALSE]
    /\ job' = [j \in Jid |-> IF job[j].pid = p
                             THEN [pid |-> 0, state |-> "none"] ELSE job[j]]
    /\ shell' = [shell EXCEPT !.todo = wrap_waitpid_after \o wrap_waitpid]

WaitpidStopped(p) ==
    /\ proc[p].status = "stopped"
    /\ proc' = [proc EXCEPT ![p].news = FALSE]
    /\ shell' = [shell EXCEPT !.todo = wrap_waitpid_after
                                       \o wrap_job_set_state(p, "ST") \o wrap_waitpid]
    /\ UNCHANGED job

Waitpid ==
    /\ InCall("waitpid")
    /\ LET news == {p \in Children(Shell) : proc[p].news}
       IN  IF news = {} THEN shell' = Returned /\ UNCHANGED <<proc, job>>
           ELSE \E p \in news : WaitpidEnded(p) \/ WaitpidStopped(p)
    /\ UNCHANGED <<shellsync, datafd, syncfd, shellsyncfd>>

(* A shell under test may crash.                                           *)
ShellCrashes ==
    /\ shell.status = "running"
    /\ shell' = [shell EXCEPT !.status = "zombie"]
    /\ UNCHANGED <<shellsync, proc, job, datafd, syncfd, shellsyncfd>>

ShellStep ==
    \/ ShellStarts
    \/ Prompts \/ ReadLine \/ ForegroundDone
    \/ \E sig \in {"INT", "TSTP", "CHLD"} : Handle(sig)
    \/ ShellsyncSignal \/ ShellsyncWait
    \/ Kill \/ JobSetState \/ Waitpid

SessionStep == ShellStep \/ \E p \in DOMAIN proc : Job(p)
=============================================================================
