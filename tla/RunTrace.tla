------------------------------ MODULE RunTrace ------------------------------
(***************************************************************************)
(* shelllab/runtrace.c: the driver that plays a trace to a shell, and      *)
(* cleans up after it whichever way it ends.  A trace is a sequence of     *)
(* commands; comments and blank lines are left out.                        *)
(*                                                                         *)
(* In a good run nothing but the trace happens, and the driver's timers    *)
(* expire only when nobody else has anything left to do.  In any other run *)
(* a timer may expire whenever what it guards has not arrived, the shell   *)
(* may crash or be arbitrarily slow, it and its jobs may write something   *)
(* else than prompts at any time, calls of the driver may fail, and the    *)
(* user may end the driver by a signal, from the keyboard (whose signals   *)
(* reach every process of the driver's group) or not.  Output that is no   *)
(* prompt is only printed, so that good runs leave it out.                 *)
(***************************************************************************)
EXTENDS Session

CONSTANTS
    GoodTraces,     \* traces for good runs: [shellsync, commands]
    OtherTraces     \* traces for the others

(* A trace answers the shell only after it has waited for it.              *)
ASSUME TracesAssumption ==
    \A t \in GoodTraces \cup OtherTraces :
        LET c == t.commands
        IN  /\ c \in Seq({c[i] : i \in DOMAIN c})
            /\ \A i \in DOMAIN c : c[i][1] = "SHELLSIGNAL" =>
                   \E j \in 1..(i - 1) :
                       /\ c[j][1] = "SHELLWAIT"
                       /\ \A k \in (j + 1)..(i - 1) : c[k][1] # "SHELLSIGNAL"

VARIABLES
    output,         \* datafd: something else than a prompt is readable
    trace,          \* the commands of the trace
    good,           \* this is a good run
    pc,             \* where main, or a handler that interrupted it, is
    line,           \* the command that is next
    masked,         \* every signal is blocked
    pending,        \* the signals that are pending for the driver
    alarmed,        \* alarm(DRIVER_TIMEOUT) has been called and has not expired
    cleanup_needed,
    tmp,            \* runtrace.tmp: "none", "ours", or "others"
    cleaner,        \* the process that runs cleanup_args
    victims,        \* the processes it is to kill
    then,           \* what follows clean
    timedOut,       \* history: the driver has reported a timeout
    spoiled,        \* history: a call that clean-up needs failed, or it was killed
    signalled       \* the user has sent a signal

mainVars == <<trace, good, pc, line, masked, pending, alarmed, cleanup_needed,
                tmp, cleaner, victims, then, timedOut, spoiled, signalled>>
driverVars == <<output, mainVars>>
runVars == <<sessionVars, driverVars>>

InSession == Live \cup {p \in {Shell} : shell.status = "running"}

RunTraceInit ==
    /\ SessionInit
    /\ output = FALSE
    /\ \E t \in GoodTraces \cup OtherTraces :
          /\ trace = t.commands /\ shellsync = t.shellsync
          /\ good \in {g \in BOOLEAN : t \in IF g THEN GoodTraces ELSE OtherTraces}
    /\ pc = "setup" /\ line = 1
    /\ masked = FALSE /\ pending = {} /\ alarmed = FALSE
    /\ cleanup_needed = FALSE
    /\ tmp \in IF good THEN {"none"} ELSE {"none", "others"}
    /\ cleaner = "none" /\ victims = {} /\ then = "none"
    /\ timedOut = FALSE /\ spoiled = FALSE /\ signalled = FALSE

-----------------------------------------------------------------------------
(* Setting up.                                                             *)

(* calloc or sigprocmask, and what follows: a failure ends the driver by   *)
(* _exit, which does not clean up.                                         *)
Calling(next) ==
    \/ pc' = next /\ UNCHANGED spoiled
    \/ ~good /\ pc' = "ended" /\ spoiled' = TRUE

(* The sockets and the environment, up to the blocking of the signals.     *)
Setup ==
    /\ pc = "setup"
    /\ masked' = TRUE
    /\ Calling("mkdir")
    /\ UNCHANGED <<sessionVars, output, trace, good, line, pending, alarmed,
                   cleanup_needed, tmp, cleaner, victims, then, timedOut, signalled>>

MakeDirectory ==
    /\ pc = "mkdir"
    /\ pc' = IF tmp = "none" THEN "fork" ELSE "ended"
    /\ tmp' = IF tmp = "none" THEN "ours" ELSE tmp
    /\ UNCHANGED <<sessionVars, output, trace, good, line, masked, pending, alarmed,
                   cleanup_needed, cleaner, victims, then, timedOut, spoiled,
                   signalled>>

ForkShell ==
    /\ pc = "fork"
    /\ \/ shell' = [shell EXCEPT !.status = "starting"]
       \/ ~good /\ UNCHANGED shell
    /\ pc' = "arm"
    /\ UNCHANGED <<shellsync, proc, job, datafd, syncfd, shellsyncfd,
                   output, trace, good, line, masked, pending, alarmed, cleanup_needed,
                   tmp, cleaner, victims, then, timedOut, spoiled, signalled>>

(* The arguments of the clean-up, and the end of the blocking.             *)
Arm ==
    /\ pc = "arm"
    /\ cleanup_needed' = TRUE
    /\ masked' = FALSE
    /\ Calling("prompt")
    /\ UNCHANGED <<sessionVars, output, trace, good, line, pending, alarmed, tmp,
                   cleaner, victims, then, timedOut, signalled>>

-----------------------------------------------------------------------------
(* Playing the trace.                                                      *)

Play == pc = "play" /\ line <= Len(trace)
TraceCommand == trace[line]
AtCommand(name) == Play /\ TraceCommand[1] = name

Proceed ==
    /\ line' = line + 1
    /\ UNCHANGED <<output, trace, good, pc, masked, pending, alarmed, cleanup_needed, tmp,
                   cleaner, victims, then, timedOut, spoiled, signalled>>

InitialPrompt ==
    /\ pc = "prompt"
    /\ prompts > 0
    /\ prompts' = prompts - 1
    /\ pc' = "play"
    /\ UNCHANGED <<shellsync, proc, shell, job, lines, syncfd, shellsyncfd,
                   output, trace, good, line, masked, pending, alarmed, cleanup_needed,
                   tmp, cleaner, victims, then, timedOut, spoiled, signalled>>

(* Something else than a prompt comes first.                               *)
InitialOutput ==
    /\ pc = "prompt"
    /\ output
    /\ output' = FALSE
    /\ masked' = TRUE
    /\ Calling("status")
    /\ UNCHANGED <<sessionVars, trace, good, line, pending, alarmed, cleanup_needed,
                   tmp, cleaner, victims, then, timedOut, signalled>>

Wait ==
    /\ AtCommand("WAIT")
    /\ syncs > 0
    /\ syncs' = syncs - 1
    /\ Proceed
    /\ UNCHANGED <<shellsync, proc, shell, job, datafd, signals, shellsyncfd>>

ShellWait ==
    /\ AtCommand("SHELLWAIT")
    /\ shellsyncs > 0
    /\ shellsyncs' = shellsyncs - 1
    /\ Proceed
    /\ UNCHANGED <<shellsync, proc, shell, job, datafd, syncfd, shellsignals>>

SignalJob ==
    /\ AtCommand("SIGNAL")
    /\ signals' = signals + 1
    /\ Proceed
    /\ UNCHANGED <<shellsync, proc, shell, job, datafd, syncs, shellsyncfd>>

SignalShell ==
    /\ AtCommand("SHELLSIGNAL")
    /\ shellsignals' = shellsignals + 1
    /\ Proceed
    /\ UNCHANGED <<shellsync, proc, shell, job, datafd, syncfd, shellsyncs>>

KillShell(sig) ==
    /\ AtCommand(IF sig = "INT" THEN "SIGINT" ELSE "SIGTSTP")
    /\ shell' = ShellSignalled(sig)
    /\ Proceed
    /\ UNCHANGED <<shellsync, proc, job, datafd, syncfd, shellsyncfd>>

(* next_prompt: a prompt ends it, other output is printed and a shell that *)
(* has stopped at a wrapper is let go, any number of times.                *)
NextPrompt ==
    /\ AtCommand("NEXT")
    /\ prompts > 0
    /\ prompts' = prompts - 1
    /\ Proceed
    /\ UNCHANGED <<shellsync, proc, shell, job, lines, syncfd, shellsyncfd>>

NextOutput ==
    /\ AtCommand("NEXT")
    /\ output
    /\ output' = FALSE
    /\ UNCHANGED <<sessionVars, mainVars>>

(* A bug: ... it is not.                                                   *)
NextSync_NoAnswer ==
    /\ AtCommand("NEXT")
    /\ shellsyncs > 0
    /\ shellsyncs' = shellsyncs - 1
    /\ UNCHANGED <<shellsync, proc, shell, job, datafd, syncfd, shellsignals,
                   driverVars>>

NextSync ==
    /\ AtCommand("NEXT")
    /\ shellsyncs > 0
    /\ shellsyncs' = shellsyncs - 1
    /\ shellsignals' = shellsignals + 1
    /\ UNCHANGED <<shellsync, proc, shell, job, datafd, syncfd, driverVars>>

(* Exit: the handler that atexit registered cleans up if it must, with the *)
(* signals as they are.                                                    *)
Exit ==
    /\ IF cleanup_needed THEN Calling("clean") ELSE pc' = "ended" /\ UNCHANGED spoiled
    /\ then' = "ended"
    /\ UNCHANGED <<output, trace, good, line, masked, pending, alarmed, cleanup_needed,
                   tmp, cleaner, victims, timedOut, signalled>>

(* A command line, its own or fg and bg of a process that pgrep has found. *)
(* send fails when every process with the socket's other end has ended.    *)
Sent(command) ==
    IF InSession = {} /\ shell.status # "starting"
    THEN Exit /\ UNCHANGED lines
    ELSE lines' = Append(lines, command) /\ Proceed

PassOn ==
    /\ AtCommand("LINE")
    /\ Sent(Tail(TraceCommand))
    /\ UNCHANGED <<shellsync, proc, shell, job, prompts, syncfd, shellsyncfd>>

Named(program) == {p \in Live : proc[p].program = program}

SendPid ==
    /\ AtCommand("PID")
    /\ IF Named(TraceCommand[2]) = {}
       THEN Exit /\ UNCHANGED lines
       ELSE Sent(<<"PID", Min(Named(TraceCommand[2])), TraceCommand[3]>>)
    /\ UNCHANGED <<shellsync, proc, shell, job, prompts, syncfd, shellsyncfd>>

(* A timer expires.                                                        *)
SessionRests == ~ENABLED SessionStep

NothingReadable ==
    \/ pc = "prompt" /\ prompts = 0 /\ ~output
    \/ AtCommand("WAIT") /\ syncs = 0
    \/ AtCommand("SHELLWAIT") /\ shellsyncs = 0
    \/ AtCommand("NEXT") /\ prompts + shellsyncs = 0 /\ ~output

TimesOut ==
    /\ NothingReadable
    /\ good => SessionRests
    /\ timedOut' = TRUE
    /\ masked' = TRUE
    /\ Calling("status")
    /\ UNCHANGED <<sessionVars, output, trace, good, line, pending, alarmed,
                   cleanup_needed, tmp, cleaner, victims, then, signalled>>

Reaped == [shell EXCEPT !.status = IF @ = "zombie" THEN "reaped" ELSE @]

(* print_child_status.                                                     *)
PrintChildStatus ==
    /\ pc = "status"
    /\ shell' = Reaped
    /\ pc' = "flush" /\ then' = "ended"
    /\ UNCHANGED <<shellsync, proc, job, datafd, syncfd, shellsyncfd,
                   output, trace, good, line, masked, pending, alarmed, cleanup_needed,
                   tmp, cleaner, victims, timedOut, spoiled, signalled>>

(* flush_output, which goes on for as long as there is something to read;  *)
(* after a timeout every signal is blocked meanwhile.                      *)
FlushOutput ==
    /\ pc = "flush"
    /\ \/ prompts > 0 /\ prompts' = prompts - 1 /\ UNCHANGED output
       \/ output /\ output' = FALSE /\ UNCHANGED prompts
    /\ UNCHANGED <<shellsync, proc, shell, job, lines, syncfd, shellsyncfd, mainVars>>

Flushed ==
    /\ pc = "flush"
    /\ prompts = 0 /\ ~output
    /\ IF masked THEN pc' = "clean" /\ UNCHANGED spoiled ELSE Calling("clean")
    /\ masked' = TRUE
    /\ UNCHANGED <<sessionVars, output, trace, good, line, pending, alarmed,
                   cleanup_needed, tmp, cleaner, victims, then, timedOut, signalled>>

-----------------------------------------------------------------------------
(* The end of the trace.                                                   *)

(* A bug: the wait for the shell has no alarm.                             *)
SignalEof_NoAlarm ==
    /\ pc = "play" /\ line > Len(trace)
    /\ lines' = Append(lines, <<"eof">>)
    /\ pc' = "wait"
    /\ UNCHANGED <<shellsync, proc, shell, job, prompts, syncfd, shellsyncfd,
                   output, trace, good, line, masked, pending, alarmed, cleanup_needed,
                   tmp, cleaner, victims, then, timedOut, spoiled, signalled>>

SignalEof ==
    /\ pc = "play" /\ line > Len(trace)
    /\ lines' = Append(lines, <<"eof">>)
    /\ alarmed' = TRUE
    /\ pc' = "wait"
    /\ UNCHANGED <<shellsync, proc, shell, job, prompts, syncfd, shellsyncfd,
                   output, trace, good, line, masked, pending, cleanup_needed,
                   tmp, cleaner, victims, then, timedOut, spoiled, signalled>>

AlarmExpires ==
    /\ alarmed
    /\ good => pc = "wait" /\ shell.status = "running" /\ SessionRests
    /\ alarmed' = FALSE
    /\ pending' = pending \cup {"ALRM"}
    /\ UNCHANGED <<sessionVars, output, trace, good, pc, line, masked, cleanup_needed,
                   tmp, cleaner, victims, then, timedOut, spoiled, signalled>>

(* waitpid(child_pid, ...).                                                *)
ShellHasEnded ==
    /\ pc = "wait"
    /\ shell.status \notin {"starting", "running"}
    /\ shell' = Reaped
    /\ pc' = "flush" /\ then' = "unmask"
    /\ UNCHANGED <<shellsync, proc, job, datafd, syncfd, shellsyncfd,
                   output, trace, good, line, masked, pending, alarmed, cleanup_needed,
                   tmp, cleaner, victims, timedOut, spoiled, signalled>>

Unmask ==
    /\ pc = "unmask"
    /\ masked' = FALSE
    /\ Calling("exit")
    /\ UNCHANGED <<sessionVars, output, trace, good, line, pending, alarmed,
                   cleanup_needed, tmp, cleaner, victims, then, timedOut, signalled>>

ExitNormally ==
    /\ pc = "exit"
    /\ Exit
    /\ UNCHANGED sessionVars

-----------------------------------------------------------------------------
(* clean: a process is forked that lists the session, kills what it has    *)
(* listed and removes the directory, and is waited for.  When fork fails,  *)
(* waitpid is asked for any child: the shell.  The process may also end    *)
(* before it has begun.                                                    *)

CleanFork ==
    /\ pc = "clean"
    /\ pc' = "cleaning"
    /\ \/ cleaner' = "list" /\ UNCHANGED spoiled
       \/ ~good /\ cleaner' \in {"failed", "killed"} /\ spoiled' = TRUE
    /\ UNCHANGED <<sessionVars, output, trace, good, line, masked, pending, alarmed,
                   cleanup_needed, tmp, victims, then, timedOut, signalled>>

CleanerLists ==
    /\ cleaner = "list"
    /\ victims' = InSession
    /\ cleaner' = "kill"
    /\ UNCHANGED <<sessionVars, output, trace, good, pc, line, masked, pending, alarmed,
                   cleanup_needed, tmp, then, timedOut, spoiled, signalled>>

CleanerKills ==
    /\ cleaner = "kill"
    /\ Becomes(AllSignalled(proc, victims, "KILL"),
               IF Shell \in victims /\ shell.status = "running"
               THEN [shell EXCEPT !.status = "zombie"] ELSE shell)
    /\ cleaner' = "remove"
    /\ UNCHANGED <<shellsync, job, datafd, syncfd, shellsyncfd,
                   output, trace, good, pc, line, masked, pending, alarmed, cleanup_needed,
                   tmp, victims, then, timedOut, spoiled, signalled>>

CleanerRemoves ==
    /\ cleaner = "remove"
    /\ tmp' = "none"
    /\ cleaner' = "done"
    /\ UNCHANGED <<sessionVars, output, trace, good, pc, line, masked, pending, alarmed,
                   cleanup_needed, victims, then, timedOut, spoiled, signalled>>

(* A bug: clean does not wait for the process it has forked.               *)
CleanerWaited_NotAtAll == TRUE

CleanerWaited ==
    IF cleaner = "failed" THEN shell.status \notin {"starting", "running"}
    ELSE cleaner \in {"done", "killed"}

CleanReturns ==
    /\ pc = "cleaning"
    /\ CleanerWaited
    /\ shell' = IF cleaner = "failed" THEN Reaped ELSE shell
    /\ cleanup_needed' = FALSE
    /\ pc' = then
    /\ UNCHANGED <<shellsync, proc, job, datafd, syncfd, shellsyncfd,
                   output, trace, good, line, masked, pending, alarmed,
                   tmp, cleaner, victims, then, timedOut, spoiled, signalled>>

-----------------------------------------------------------------------------
(* Signals to the driver.  Neither handler returns.                        *)

(* sigalrm_handler and graceful_cleanup_sig_handler, which end the driver, *)
(* one by _exit and the other by the signal itself.                        *)
HandleSignal ==
    /\ ~masked /\ pc # "ended"
    /\ \E sig \in pending :
          /\ pending' = pending \ {sig}
          /\ timedOut' = (timedOut \/ sig = "ALRM")
    /\ masked' = TRUE
    /\ Calling(IF cleanup_needed THEN "clean" ELSE "ended")
    /\ then' = "ended"
    /\ UNCHANGED <<sessionVars, output, trace, good, line, alarmed, cleanup_needed, tmp,
                   cleaner, victims, signalled>>

(* The user, once.  A signal from the keyboard kills a shell that has not  *)
(* left the driver's session yet, and the clean-up.                        *)
UserSignals(fromKeyboard) ==
    /\ ~good /\ ~signalled /\ pc # "ended"
    /\ signalled' = TRUE
    /\ pending' = pending \cup {"INT"}
    /\ IF fromKeyboard
       THEN /\ shell' = [shell EXCEPT !.status = IF @ = "starting" THEN "zombie" ELSE @]
            /\ IF cleaner \in {"list", "kill", "remove"}
               THEN cleaner' = "killed" /\ spoiled' = TRUE
               ELSE UNCHANGED <<cleaner, spoiled>>
       ELSE UNCHANGED <<shell, cleaner, spoiled>>
    /\ UNCHANGED <<shellsync, proc, job, datafd, syncfd, shellsyncfd,
                   output, trace, good, pc, line, masked, alarmed, cleanup_needed,
                   tmp, victims, then, timedOut>>

(* The shell or a job writes something else than a prompt.                 *)
Writes ==
    /\ ~good
    /\ \/ shell.status = "running"
       \/ \E p \in DOMAIN proc : proc[p].status = "running"
    /\ output' = TRUE
    /\ UNCHANGED <<sessionVars, mainVars>>

-----------------------------------------------------------------------------
DriverStep ==
    \/ Setup \/ MakeDirectory \/ ForkShell \/ Arm
    \/ InitialPrompt \/ InitialOutput
    \/ Wait \/ ShellWait \/ SignalJob \/ SignalShell
    \/ \E sig \in {"INT", "TSTP"} : KillShell(sig)
    \/ NextPrompt \/ NextOutput \/ NextSync
    \/ PassOn \/ SendPid
    \/ TimesOut \/ PrintChildStatus \/ FlushOutput \/ Flushed
    \/ SignalEof \/ AlarmExpires \/ ShellHasEnded \/ Unmask \/ ExitNormally
    \/ CleanFork \/ CleanerLists \/ CleanerKills \/ CleanerRemoves \/ CleanReturns
    \/ HandleSignal

RunTraceNext ==
    \/ DriverStep
    \/ SessionStep /\ UNCHANGED driverVars
    \/ ~good /\ ShellCrashes /\ UNCHANGED driverVars
    \/ ~good /\ (\E p \in DOMAIN proc : JobAlarm(p)) /\ UNCHANGED driverVars
    \/ Writes
    \/ \E fromKeyboard \in BOOLEAN : UserSignals(fromKeyboard)

(* The driver's process is scheduled and its timers expire.  The shell     *)
(* under test and its jobs go on as well in a good run, whose timers wait  *)
(* for them;  nothing is assumed of them in the others.                    *)
RunTraceFairness ==
    /\ WF_runVars(DriverStep)
    /\ WF_runVars(good /\ SessionStep /\ UNCHANGED driverVars)

RunTraceSpec == RunTraceInit /\ [][RunTraceNext]_runVars /\ RunTraceFairness

-----------------------------------------------------------------------------
NothingLeft == tmp # "ours" /\ InSession = {} /\ shell.status # "starting"

(* "Kill any of our stray shells and jobs" (runtrace.c:595) and "clean up  *)
(* any stray jobs or shells" (runtrace.c:617): when the driver has ended,  *)
(* no process that it started is left, and no directory, provided that no  *)
(* call failed and nobody killed the clean-up.                             *)
NoStrays == pc = "ended" /\ ~spoiled => NothingLeft

(* What is true of it: the directory is gone and every process that the    *)
(* clean-up has listed is dead.  A process that is left joined the session *)
(* after the list was made.                                                *)
StraysCameLate ==
    pc = "ended" /\ ~spoiled =>
        /\ tmp # "ours"
        /\ InSession \cap victims = {}
        /\ InSession # {} => cleaner = "done"

(* The traces of the repository can be played: with nothing but the trace  *)
(* happening, every datagram that the driver waits for comes, so that it   *)
(* never times out, and nothing is left behind at the end.                 *)
TracesPlay ==
    /\ good => ~timedOut
    /\ good /\ pc = "ended" => NothingLeft

(* A shell stopped at a wrapper and the driver meet: there is one datagram *)
(* between them at most, and while there is, or the driver has it, the     *)
(* shell is waiting for the answer.                                        *)
SyncIsRendezvous ==
    /\ shellsyncs + shellsignals <= 1
    /\ shellsyncs + shellsignals = 1 /\ shell.status = "running"
          => shell.todo # <<>> /\ Head(shell.todo)[1] = "shellsync_wait"

(* Whatever else the shell and its jobs do, the driver ends, if they stop  *)
(* writing at some time.  It may wait for ever where the clean-up cannot   *)
(* be forked, for then it waits for the shell.                             *)
RuntraceEnds ==
    <>[][~Writes]_runVars => <>(pc = "ended" \/ cleaner = "failed")
=============================================================================
