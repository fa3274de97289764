---------------------------- MODULE ShellProofs -----------------------------
(***************************************************************************)
(* The shell, for every number of slots and every set of process IDs: what *)
(* the routines of JobList return and preserve, type correctness, the      *)
(* safety invariants, what a step may do, and that the shell implements    *)
(* JobControl.                                                             *)
(***************************************************************************)
EXTENDS ShellRefinement, WellFoundedInduction, TLAPS

-----------------------------------------------------------------------------
(* The job list.                                                           *)

(* A non-empty set of naturals has a smallest element.                     *)
LEMMA SmallestExists ==
    ASSUME NEW T \in SUBSET Nat, T # {}
    PROVE  \E x \in T : \A y \in T : x <= y
<1>1. PICK x \in T : \A y \in T : ~(<<y, x>> \in OpToRel(<, Nat))
  BY NatLessThanWellFounded, WFMin
<1>2. \A y \in T : ~(y < x)
  BY <1>1 DEF OpToRel
<1>3. QED
  BY <1>2

(* A non-empty set of slots has a largest element.                         *)
LEMMA LargestExists ==
    ASSUME NEW T \in SUBSET Jid, T # {}
    PROVE  \E x \in T : \A y \in T : y <= x
<1> DEFINE D == {MAXJOBS - j : j \in T}
<1>1. D \in SUBSET Nat /\ D # {}
  <2>1. \A j \in T : MAXJOBS - j \in Nat
    BY MaxJobsAssumption DEF Jid
  <2>2. QED
    BY <2>1
<1>2. PICK d \in D : \A e \in D : d <= e
  BY <1>1, SmallestExists
<1>3. PICK x \in T : d = MAXJOBS - x
  BY <1>2
<1>4. \A y \in T : MAXJOBS - x <= MAXJOBS - y
  BY <1>2, <1>3
<1>5. QED
  BY <1>4, MaxJobsAssumption DEF Jid

(* FirstSlot returns one of the slots, or 0 if there is none.              *)
LEMMA FirstSlotIsASlot ==
    ASSUME NEW S \in SUBSET Jid
    PROVE  IF S = {} THEN FirstSlot(S) = 0 ELSE FirstSlot(S) \in S
<1>1. CASE S = {}
  BY <1>1 DEF FirstSlot
<1>2. CASE S # {}
  <2>1. \E x \in S : \A y \in S : x <= y
    BY <1>2, SmallestExists, MaxJobsAssumption DEF Jid
  <2>2. QED
    BY <1>2, <2>1 DEF FirstSlot
<1>3. QED
  BY <1>1, <1>2

(* fg_job returns a foreground job, or 0 if there is none.                 *)
LEMMA FgJobFacts ==
    ASSUME JobListTypeOK
    PROVE  /\ fg_job = 0 => \A j \in Jid : job_list[j].state # "FG"
           /\ fg_job # 0 => fg_job \in Jid /\ job_list[fg_job].state = "FG"
           /\ fg_job \in Int
<1> DEFINE S == {j \in Jid : job_list[j].state = "FG"}
<1>1. IF S = {} THEN fg_job = 0 ELSE fg_job \in S
  BY FirstSlotIsASlot DEF fg_job
<1>2. QED
  BY <1>1, MaxJobsAssumption DEF Jid

(* job_from_pid returns a job with that PID, or 0 if there is none.        *)
LEMMA JobFromPidFacts ==
    ASSUME JobListTypeOK, NEW p
    PROVE  /\ job_from_pid(p) = 0 =>
                \A j \in Jid : job_list[j].state # "UNDEF" => job_list[j].pid # p
           /\ job_from_pid(p) # 0 =>
                /\ job_from_pid(p) \in Jid
                /\ job_list[job_from_pid(p)].state # "UNDEF"
                /\ job_list[job_from_pid(p)].pid = p
           /\ job_exists(job_from_pid(p)) <=> job_from_pid(p) # 0
<1> DEFINE S == {j \in Jid : job_list[j].state # "UNDEF" /\ job_list[j].pid = p}
<1>1. IF S = {} THEN job_from_pid(p) = 0 ELSE job_from_pid(p) \in S
  BY FirstSlotIsASlot DEF job_from_pid
<1>2. 0 \notin Jid
  BY MaxJobsAssumption DEF Jid
<1>3. QED
  BY <1>1, <1>2 DEF job_exists

(* maxjid returns the largest job ID in use, or 0 if there is none.        *)
LEMMA MaxjidFacts ==
    ASSUME NEW list
    PROVE  /\ maxjid(list) \in 0..MAXJOBS
           /\ \A j \in Jid : list[j].state # "UNDEF" => j <= maxjid(list)
           /\ maxjid(list) # 0 => list[maxjid(list)].state # "UNDEF"
<1> DEFINE U == {j \in Jid : list[j].state # "UNDEF"}
<1>1. CASE U = {}
  BY <1>1, MaxJobsAssumption DEF maxjid
<1>2. CASE U # {}
  <2>1. \E x \in U : \A y \in U : y <= x
    BY <1>2, LargestExists
  <2>2. maxjid(list) \in U /\ \A y \in U : y <= maxjid(list)
    BY <1>2, <2>1 DEF maxjid
  <2>3. QED
    BY <2>2, MaxJobsAssumption DEF Jid
<1>3. QED
  BY <1>1, <1>2

-----------------------------------------------------------------------------

(* init_job_list and destroy_job_list leave a list of the right type.      *)
LEMMA NoJobIsJob == NoJob \in Job
  BY DEF NoJob, Job, JobState

(* add_job records the process in the slot of nextjid, if there is one.    *)
LEMMA AddJobType ==
    ASSUME JobListTypeOK, NEW p \in Pid, NEW s \in {"FG", "BG"}, add_job(p, s)
    PROVE  JobListTypeOK'
<1>1. CASE add_job_full
  BY <1>1 DEF add_job, JobListTypeOK, listVars
<1>2. CASE ~add_job_full
  <2>1. nextjid \in Jid
    BY <1>2, MaxJobsAssumption DEF add_job_full, JobListTypeOK, Jid
  <2>2. nextjid' \in 1..(MAXJOBS + 1)
    BY <1>2, <2>1, MaxJobsAssumption DEF add_job, Jid
  <2>3. [pid |-> p, state |-> s] \in Job
    BY DEF Job, JobState
  <2>4. QED
    BY <1>2, <2>1, <2>2, <2>3 DEF add_job, JobListTypeOK
<1>3. QED
  BY <1>1, <1>2

(* delete_job clears the slot and recomputes nextjid.                      *)
LEMMA DeleteJobType ==
    ASSUME JobListTypeOK, NEW jid, delete_job(jid)
    PROVE  JobListTypeOK'
<1>1. CASE job_exists(jid)
  <2>1. maxjid([job_list EXCEPT ![jid] = NoJob]) \in 0..MAXJOBS
    BY MaxjidFacts
  <2>2. nextjid' \in 1..(MAXJOBS + 1)
    BY <1>1, <2>1, MaxJobsAssumption DEF delete_job
  <2>3. job_list' \in [Jid -> Job]
    BY <1>1, NoJobIsJob DEF delete_job, job_exists, JobListTypeOK
  <2>4. QED
    BY <2>2, <2>3 DEF JobListTypeOK
<1>2. CASE ~job_exists(jid)
  BY <1>2 DEF delete_job, JobListTypeOK, listVars
<1>3. QED
  BY <1>1, <1>2

(* job_set_state changes the state of one job.                             *)
LEMMA JobSetStateType ==
    ASSUME JobListTypeOK, NEW jid \in Jid, NEW s \in JobState, job_set_state(jid, s)
    PROVE  JobListTypeOK'
  BY DEF job_set_state, JobListTypeOK, Job

-----------------------------------------------------------------------------
(* nextjid stays one past the largest job ID in use.                       *)

(* add_job takes the slot of nextjid and moves nextjid past it.            *)
LEMMA AddJobNextJid ==
    ASSUME JobListTypeOK, NextJidIsOnePastLargest,
           NEW p \in Pid, NEW s \in {"FG", "BG"}, add_job(p, s)
    PROVE  NextJidIsOnePastLargest'
<1>1. CASE add_job_full
  BY <1>1 DEF add_job, NextJidIsOnePastLargest, Listed, listVars
<1>2. CASE ~add_job_full
  <2>1. nextjid \in Jid
    BY <1>2, MaxJobsAssumption DEF add_job_full, JobListTypeOK, Jid
  <2>2. job_list' = [job_list EXCEPT ![nextjid] = [pid |-> p, state |-> s]]
        /\ nextjid' = nextjid + 1
    BY <1>2 DEF add_job
  <2>3. job_list'[nextjid].state # "UNDEF"
    BY <2>1, <2>2 DEF JobListTypeOK
  <2>4. nextjid' - 1 = nextjid
    BY <2>1, <2>2, MaxJobsAssumption DEF Jid
  <2>5. ASSUME NEW j \in Jid, job_list'[j].state # "UNDEF" PROVE j < nextjid + 1
    <3>1. CASE j = nextjid
      BY <3>1, MaxJobsAssumption DEF Jid
    <3>2. CASE j # nextjid
      <4>1. job_list'[j] = job_list[j]
        BY <3>2, <2>1, <2>2 DEF JobListTypeOK
      <4>2. j < nextjid
        BY <4>1, <2>5 DEF NextJidIsOnePastLargest, Listed
      <4>3. QED
        BY <4>2, <2>1, MaxJobsAssumption DEF Jid
    <3>3. QED
      BY <3>1, <3>2
  <2>6. QED
    BY <2>2, <2>3, <2>4, <2>5 DEF NextJidIsOnePastLargest, Listed
<1>3. QED
  BY <1>1, <1>2

(* The slot that add_job is about to take is free.                         *)
LEMMA AddJobSlotFree ==
    ASSUME JobListTypeOK, NextJidIsOnePastLargest
    PROVE  add_job_slot_free
<1>1. ~add_job_full => nextjid \in Jid
  BY MaxJobsAssumption DEF add_job_full, JobListTypeOK, Jid
<1>2. ~(nextjid < nextjid)
  BY MaxJobsAssumption DEF JobListTypeOK
<1>3. QED
  BY <1>1, <1>2 DEF NextJidIsOnePastLargest, Listed, add_job_slot_free

(* delete_job recomputes nextjid from the slots still in use.              *)
LEMMA DeleteJobNextJid ==
    ASSUME JobListTypeOK, NextJidIsOnePastLargest, NEW jid, delete_job(jid)
    PROVE  NextJidIsOnePastLargest'
<1>1. CASE job_exists(jid)
  <2>1. nextjid' = maxjid(job_list') + 1
    BY <1>1 DEF delete_job
  <2>2. maxjid(job_list') \in 0..MAXJOBS
    BY MaxjidFacts
  <2>3. nextjid' - 1 = maxjid(job_list')
    BY <2>1, <2>2, MaxJobsAssumption
  <2>4. nextjid' > 1 => Listed(nextjid - 1)'
    BY <2>1, <2>2, <2>3, MaxjidFacts, MaxJobsAssumption DEF Listed
  <2>5. ASSUME NEW j \in Jid, Listed(j)' PROVE j < nextjid'
    <3>1. j <= maxjid(job_list')
      BY <2>5, MaxjidFacts DEF Listed
    <3>2. QED
      BY <3>1, <2>1, <2>2, MaxJobsAssumption DEF Jid
  <2>6. QED
    BY <2>4, <2>5 DEF NextJidIsOnePastLargest
<1>2. CASE ~job_exists(jid)
  BY <1>2 DEF delete_job, NextJidIsOnePastLargest, Listed, listVars
<1>3. QED
  BY <1>1, <1>2

(* job_set_state frees no slot and takes none.                             *)
LEMMA JobSetStateNextJid ==
    ASSUME JobListTypeOK, NextJidIsOnePastLargest,
           NEW jid, job_exists(jid), NEW s \in JobState \ {"UNDEF"},
           job_set_state(jid, s)
    PROVE  NextJidIsOnePastLargest'
<1>1. nextjid' = nextjid
  BY DEF job_set_state
<1>2. \A j \in Jid : job_list'[j].state # "UNDEF" <=> job_list[j].state # "UNDEF"
  BY DEF job_set_state, job_exists, JobListTypeOK, Job
<1>3. nextjid > 1 => nextjid - 1 \in Jid
  BY MaxJobsAssumption DEF JobListTypeOK, Jid
<1>4. QED
  BY <1>1, <1>2, <1>3 DEF NextJidIsOnePastLargest, Listed

(* destroy_job_list frees every slot and starts again at job ID 1.         *)
LEMMA DestroyNextJid ==
    ASSUME destroy_job_list
    PROVE  NextJidIsOnePastLargest'
  BY DEF destroy_job_list, NextJidIsOnePastLargest, Listed, NoJob

-----------------------------------------------------------------------------
(* Which slots an operation touches.                                       *)

(* add_job, unless it refuses the job, writes the slot of nextjid only.    *)
LEMMA AddJobEffect ==
    ASSUME JobListTypeOK, ~add_job_full, NEW p, NEW s, add_job(p, s)
    PROVE  /\ nextjid \in Jid
           /\ job_list'[nextjid] = [pid |-> p, state |-> s]
           /\ \A j \in Jid \ {nextjid} : job_list'[j] = job_list[j]
<1>1. nextjid \in Jid
  BY MaxJobsAssumption DEF add_job_full, JobListTypeOK, Jid
<1>2. QED
  BY <1>1 DEF add_job, JobListTypeOK

(* delete_job frees the slot of the job it is given, and touches no other. *)
LEMMA DeleteJobEffect ==
    ASSUME JobListTypeOK, NEW jid, delete_job(jid)
    PROVE  /\ \A j \in Jid : j # jid => job_list'[j] = job_list[j]
           /\ jid \in Jid => job_list'[jid].state = "UNDEF"
<1>1. CASE job_exists(jid)
  BY <1>1 DEF delete_job, job_exists, JobListTypeOK, NoJob
<1>2. CASE ~job_exists(jid)
  BY <1>2 DEF delete_job, job_exists, listVars
<1>3. QED
  BY <1>1, <1>2

(* job_set_state changes the state of one job, and nothing else.           *)
LEMMA JobSetStateEffect ==
    ASSUME JobListTypeOK, NEW jid \in Jid, NEW s, job_set_state(jid, s)
    PROVE  /\ \A j \in Jid : j # jid => job_list'[j] = job_list[j]
           /\ job_list'[jid].pid = job_list[jid].pid
           /\ job_list'[jid].state = s
  BY DEF job_set_state, JobListTypeOK, Job

-----------------------------------------------------------------------------
(* The shell.                                                              *)

(* The processes and the shell's pending signals keep their types under    *)
(* what the children do.                                                   *)
LEMMA ChildStepType ==
    ASSUME TypeOK, NEW p \in Pid, ChildStep(p)
    PROVE  TypeOK'
<1> USE DEF Process, Stage, Signal, KeyboardSignal
<1>1. UNCHANGED <<listVars, shellVars>>
  BY DEF ChildStep
<1>2. ProcessesTypeOK
  BY DEF TypeOK
<1>3. sigpending' \in SUBSET Signal
  BY <1>2 DEF ChildStep, ProcessesTypeOK, PostSigchld, ChildSetpgid, ChildExec,
     ChildExecFails, ProgramEnds, ProgramHandles, ChildStops, OtherContinues, OtherKills
<1>4. proc' \in [Pid -> Process]
  <2>1. ASSUME NEW P \in Process, proc' = [proc EXCEPT ![p] = P]
        PROVE  proc' \in [Pid -> Process]
    BY <1>2, <2>1 DEF ProcessesTypeOK
  <2>2. proc[p] \in Process
    BY <1>2 DEF ProcessesTypeOK
  <2>3. Zombie \in Process
    BY DEF Zombie, NoProcess
  <2>4. Continued(proc[p]) \in Process
    BY <2>2 DEF Continued
  <2>5. CASE ChildExecFails(p) \/ ProgramEnds(p) \/ OtherKills(p)
    BY <2>1, <2>3, <2>5 DEF ChildExecFails, ProgramEnds, OtherKills
  <2>6. CASE OtherContinues(p)
    BY <1>2, <2>1, <2>4, <2>6 DEF OtherContinues, ProcessesTypeOK
  <2>7. CASE ChildSetpgid(p) \/ ChildExec(p)
    BY <1>2, <2>2, <2>7 DEF ChildSetpgid, ChildExec, ProcessesTypeOK
  <2>8. CASE ChildStops(p)
    BY <1>2, <2>2, <2>8 DEF ChildStops, ProcessesTypeOK
  <2>9. CASE \E s \in KeyboardSignal : ProgramHandles(p, s)
    BY <1>2, <2>2, <2>9 DEF ProgramHandles, ProcessesTypeOK
  <2>10. QED
    BY <2>5, <2>6, <2>7, <2>8, <2>9 DEF ChildStep
<1>5. JobListTypeOK' /\ ShellTypeOK'
  BY <1>1 DEF TypeOK, JobListTypeOK, ShellTypeOK, listVars, shellVars
<1>6. QED
  BY <1>3, <1>4, <1>5 DEF TypeOK, ProcessesTypeOK

(* kill(-p, SIGCONT) keeps the types of the processes and the signals.     *)
LEMMA KillSigcontType ==
    ASSUME ProcessesTypeOK, NEW p, kill_SIGCONT(p)
    PROVE  ProcessesTypeOK'
<1> USE DEF Process, Stage, Signal, KeyboardSignal
<1>1. sigpending' \in SUBSET Signal
  BY DEF kill_SIGCONT, ProcessesTypeOK
<1>2. p \in Pid => Continued(proc[p]) \in Process
  BY DEF Continued, ProcessesTypeOK
<1>3. proc' \in [Pid -> Process]
  BY <1>2 DEF kill_SIGCONT, ProcessesTypeOK
<1>4. QED
  BY <1>1, <1>3 DEF ProcessesTypeOK

(* The end of the shell leaves everything at a value of its type.          *)
LEMMA EndsType ==
    ASSUME TypeOK, NEW how \in PC, NEW why \in Fatal, Ends(how, why)
    PROVE  TypeOK'
<1>1. JobListTypeOK'
  BY NoJobIsJob, MaxJobsAssumption DEF Ends, destroy_job_list, JobListTypeOK
<1>2. ProcessesTypeOK'
  BY DEF Ends, ProcessesTypeOK, NoProcess, Process, Stage
<1>3. NothingForked \in Job
  BY DEF NothingForked, Job, JobState
<1>4. ShellTypeOK'
  BY <1>3 DEF Ends, ShellTypeOK, TypeOK
<1>5. QED
  BY <1>1, <1>2, <1>4 DEF TypeOK

-----------------------------------------------------------------------------
(* Type correctness, one lemma for each group of actions of Next.          *)

(* The shell starts with everything at a value of its type (main).         *)
LEMMA InitType == Init => TypeOK
<1> SUFFICES ASSUME Init PROVE TypeOK
  OBVIOUS
<1>1. JobListTypeOK
  BY NoJobIsJob, MaxJobsAssumption DEF Init, init_job_list, JobListTypeOK
<1>2. ProcessesTypeOK
  BY DEF Init, ProcessesInit, ProcessesTypeOK, NoProcess, Process, Stage
<1>3. ShellTypeOK
  BY DEF Init, ShellTypeOK, NothingForked, Job, JobState, PC, Fatal
<1>4. QED
  BY <1>1, <1>2, <1>3 DEF TypeOK

(* bg keeps the types.                                                     *)
LEMMA BgJobType ==
    ASSUME TypeOK, NEW jid \in Jid, BgJob(jid)
    PROVE  TypeOK'
<1>1. JobListTypeOK'
  BY JobSetStateType DEF BgJob, TypeOK, JobState
<1>2. ProcessesTypeOK'
  BY KillSigcontType DEF BgJob, TypeOK
<1>3. ShellTypeOK'
  BY DEF BgJob, TypeOK, ShellTypeOK, shellVars
<1>4. QED
  BY <1>1, <1>2, <1>3 DEF TypeOK

(* fg keeps the types, whether it continues the job or aborts.             *)
LEMMA FgJobType ==
    ASSUME TypeOK, NEW jid, NEW p, FgJob(jid, p)
    PROVE  TypeOK'
<1>1. CASE ~require_job_exists(jid) \/ ~require_valid_state("FG")
  BY <1>1, EndsType DEF FgJob, abort, PC, Fatal
<1>2. CASE require_job_exists(jid) /\ require_valid_state("FG")
  <2>1. kill_SIGCONT(p) /\ job_set_state(jid, "FG") /\ Goto("loop")
    BY <1>2 DEF FgJob
  <2>2. jid \in Jid
    BY <1>2 DEF require_job_exists, job_exists
  <2>3. JobListTypeOK'
    BY <2>1, <2>2, JobSetStateType DEF TypeOK, JobState
  <2>4. ProcessesTypeOK'
    BY <2>1, KillSigcontType DEF TypeOK
  <2>5. ShellTypeOK'
    BY <2>1 DEF Goto, TypeOK, ShellTypeOK, PC
  <2>6. QED
    BY <2>3, <2>4, <2>5 DEF TypeOK
<1>3. QED
  BY <1>1, <1>2

(* Every command keeps the types (eval, builtin_back_fore).                *)
LEMMA CommandType == TypeOK /\ Command => TypeOK'
<1> SUFFICES ASSUME TypeOK, Command PROVE TypeOK'
  OBVIOUS
<1> USE DEF TypeOK
<1>1. ASSUME NEW p \in Pid, NEW s \in {"FG", "BG"}, EvalFork(p, s)
      PROVE  TypeOK'
  <2>1. JobListTypeOK'
    BY <1>1 DEF EvalFork, JobListTypeOK, listVars
  <2>2. ProcessesTypeOK'
    BY <1>1 DEF EvalFork, fork, ProcessesTypeOK, NoProcess, Process, Stage
  <2>3. ShellTypeOK'
    BY <1>1 DEF EvalFork, ShellTypeOK, PC, Job, JobState
  <2>4. QED
    BY <2>1, <2>2, <2>3
<1>2. ASSUME EvalForkFails PROVE TypeOK'
  BY <1>2, EndsType DEF EvalForkFails, abort, PC, Fatal
<1>3. ASSUME NEW jid \in Jid, BuiltinBgJid(jid) \/ BuiltinFgJid(jid)
      PROVE  TypeOK'
  BY <1>3, BgJobType, FgJobType DEF BuiltinBgJid, BuiltinFgJid
<1>4. ASSUME NEW p \in Pid \cup {NoPid}, BuiltinBgPid(p) \/ BuiltinFgPid(p)
      PROVE  TypeOK'
  BY <1>4, BgJobType, FgJobType, JobFromPidFacts, EndsType
     DEF BuiltinBgPid, BuiltinFgPid, abort, PC, Fatal
<1>5. ASSUME Quit PROVE TypeOK'
  BY <1>5 DEF Quit, Goto, JobListTypeOK, ProcessesTypeOK, ShellTypeOK,
     listVars, procVars, PC
<1>6. QED
  BY <1>1, <1>2, <1>3, <1>4, <1>5 DEF Command

(* What eval does after the fork keeps the types.                          *)
LEMMA EvalType ==
    ASSUME TypeOK, Eval, pc = "forked" => forked.pid \in Pid /\ forked.state \in {"FG", "BG"}
    PROVE  TypeOK'
<1> USE DEF TypeOK
<1>1. CASE EvalAddJob
  <2>1. CASE (forked.state = "FG" /\ fg_job # 0) \/ ~add_job_slot_free
    BY <1>1, <2>1, EndsType DEF EvalAddJob, abort, PC, Fatal
  <2>2. CASE ~(forked.state = "FG" /\ fg_job # 0) /\ add_job_slot_free
    <3>1. JobListTypeOK'
      BY <1>1, <2>2, AddJobType DEF EvalAddJob
    <3>2. ProcessesTypeOK'
      BY <1>1, <2>2 DEF EvalAddJob, ProcessesTypeOK, procVars
    <3>3. ShellTypeOK'
      <4>1. refused' \in SUBSET Pid
        BY <1>1, <2>2 DEF EvalAddJob, ShellTypeOK
      <4>2. pc' \in PC
        BY <1>1, <2>2 DEF EvalAddJob, PC
      <4>3. forked' \in Job
        <5>1. forked' = NothingForked
          BY <1>1, <2>2 DEF EvalAddJob
        <5>2. QED
          BY <5>1 DEF NothingForked, Job, JobState
      <4>4. QED
        BY <1>1, <2>2, <4>1, <4>2, <4>3 DEF EvalAddJob, ShellTypeOK
    <3>4. QED
      BY <3>1, <3>2, <3>3
  <2>3. QED
    BY <2>1, <2>2
<1>2. CASE TestForeground \/ SigsuspendReturns
  BY <1>2 DEF TestForeground, SigsuspendReturns, Goto, JobListTypeOK,
     ProcessesTypeOK, ShellTypeOK, listVars, procVars, PC
<1>3. QED
  BY <1>1, <1>2 DEF Eval

(* The end of the shell keeps the types (cleanup, sigquit_handler).        *)
LEMMA CleanupType == TypeOK /\ (Cleanup \/ SigquitHandler) => TypeOK'
<1> SUFFICES ASSUME TypeOK, Cleanup \/ SigquitHandler PROVE TypeOK'
  OBVIOUS
<1>1. CASE CleanupDestroy \/ KilledInCleanup \/ SigquitHandler
  <2>1. "exited" \in PC /\ "none" \in Fatal
    BY DEF PC, Fatal
  <2>2. QED
    BY <1>1, <2>1, EndsType DEF CleanupDestroy, KilledInCleanup, SigquitHandler
<1>2. CASE CleanupResetHandler
  BY <1>2 DEF CleanupResetHandler, TypeOK, JobListTypeOK, ProcessesTypeOK,
     ShellTypeOK, listVars, procVars
<1>3. QED
  BY <1>1, <1>2 DEF Cleanup

(* The handlers of SIGINT, SIGTSTP and SIGCHLD keep the types.             *)
LEMMA HandlersType == TypeOK /\ Handlers => TypeOK'
<1> SUFFICES ASSUME TypeOK, Handlers PROVE TypeOK'
  OBVIOUS
<1> USE DEF TypeOK
<1>1. ASSUME NEW s \in KeyboardSignal, KeyboardHandler(s) PROVE TypeOK'
  <2>1. sigpending' \in SUBSET Signal
    BY <1>1 DEF KeyboardHandler, Deliver, ProcessesTypeOK
  <2>2. proc' \in [Pid -> Process]
    BY <1>1 DEF KeyboardHandler, kill_keyboard, ProcessesTypeOK, Process
  <2>3. JobListTypeOK' /\ ShellTypeOK'
    BY <1>1 DEF KeyboardHandler, Deliver, JobListTypeOK, ShellTypeOK, listVars, PC
  <2>4. QED
    BY <2>1, <2>2, <2>3 DEF ProcessesTypeOK
<1>2. ASSUME SigchldHandler PROVE TypeOK'
  BY <1>2 DEF SigchldHandler, Deliver, JobListTypeOK, ProcessesTypeOK,
     ShellTypeOK, listVars, PC
<1>3. ASSUME NEW p \in Pid, ReapEnded(p) PROVE TypeOK'
  <2>1. JobListTypeOK'
    BY <1>3, DeleteJobType DEF ReapEnded
  <2>2. ProcessesTypeOK'
    BY <1>3 DEF ReapEnded, ProcessesTypeOK, NoProcess, Process, Stage
  <2>3. ShellTypeOK'
    BY <1>3 DEF ReapEnded, ShellTypeOK
  <2>4. QED
    BY <2>1, <2>2, <2>3
<1>4. ASSUME NEW p \in Pid, ReapStopped(p) PROVE TypeOK'
  <2>1. CASE ~require_job_exists(job_from_pid(p))
    BY <1>4, <2>1, EndsType DEF ReapStopped, abort, PC, Fatal
  <2>2. CASE require_job_exists(job_from_pid(p))
    <3>1. JobListTypeOK'
      BY <1>4, <2>2, JobSetStateType, JobFromPidFacts
         DEF ReapStopped, require_job_exists, JobState
    <3>2. ProcessesTypeOK'
      BY <1>4, <2>2 DEF ReapStopped, ProcessesTypeOK, Process
    <3>3. ShellTypeOK'
      BY <1>4, <2>2 DEF ReapStopped, ShellTypeOK, shellVars
    <3>4. QED
      BY <3>1, <3>2, <3>3
  <2>3. QED
    BY <2>1, <2>2
<1>5. ASSUME SigchldReturns PROVE TypeOK'
  BY <1>5 DEF SigchldReturns, JobListTypeOK, ProcessesTypeOK, ShellTypeOK,
     listVars, procVars
<1>6. QED
  BY <1>1, <1>2, <1>3, <1>4, <1>5 DEF Handlers

-----------------------------------------------------------------------------
(* What the steps of the children and the shell's kill do to the processes.*)

(* A step of a child touches that child only, never reaps it, and posts    *)
(* SIGCHLD for whatever the shell can wait for.                            *)
LEMMA ChildStepFacts ==
    ASSUME TypeOK, ControlConsistent, NEW p \in Pid, ChildStep(p)
    PROVE  /\ \A q \in Pid \ {p} : proc'[q] = proc[q]
           /\ Alive(p) /\ proc'[p].stage # "none"
           /\ proc'[p].report => proc'[p].stopped /\ Alive(p)'
           /\ sigpending \subseteq sigpending'
           /\ Waitable(p)' => Waitable(p) \/ "SIGCHLD" \in sigpending'
           /\ proc'[p].stopped /\ ~proc'[p].report =>
                 /\ proc[p].stopped /\ ~proc[p].report
                 /\ proc'[p].stage = proc[p].stage
           /\ proc'[p].sigs \subseteq proc[p].sigs
<1> USE DEF Scheduled, Alive, Waitable
<1>1. proc \in [Pid -> Process] /\ proc[p] \in Process
  BY DEF TypeOK, ProcessesTypeOK
<1>2. proc[p].report => Alive(p) /\ proc[p].stopped
  BY DEF ControlConsistent
<1>3. CASE ChildExecFails(p) \/ ProgramEnds(p) \/ OtherKills(p)
  <2>1. Alive(p) /\ proc' = [proc EXCEPT ![p] = Zombie] /\ PostSigchld
    BY <1>3 DEF ChildExecFails, ProgramEnds, OtherKills
  <2>2. QED
    BY <1>1, <2>1 DEF Zombie, NoProcess, PostSigchld, Process
<1>4. CASE OtherContinues(p)
  <2>1. proc'[p] = Continued(proc[p]) /\ \A q \in Pid \ {p} : proc'[q] = proc[q]
    BY <1>1, <1>4 DEF OtherContinues
  <2>2. Alive(p) /\ PostSigchld
    BY <1>4 DEF OtherContinues
  <2>3. QED
    BY <1>1, <2>1, <2>2 DEF PostSigchld, Continued, Process
<1>5. CASE ChildSetpgid(p) \/ ChildExec(p)
  BY <1>1, <1>2, <1>5 DEF ChildSetpgid, ChildExec, Process
<1>6. CASE ChildStops(p)
  BY <1>1, <1>6 DEF ChildStops, Process, PostSigchld
<1>7. CASE \E s \in KeyboardSignal : ProgramHandles(p, s)
  BY <1>1, <1>2, <1>7 DEF ProgramHandles, Process
<1>8. QED
  BY <1>3, <1>4, <1>5, <1>6, <1>7 DEF ChildStep

(* kill(-p, SIGCONT) touches p only: it continues p if it has a process    *)
(* group, and leaves nothing stopped that it reached.                      *)
LEMMA KillSigcontFacts ==
    ASSUME TypeOK, ControlConsistent, NEW p, kill_SIGCONT(p)
    PROVE  /\ sigpending \subseteq sigpending'
           /\ \A q \in Pid \ {p} : proc'[q] = proc[q]
           /\ p \in Pid =>
                /\ proc'[p].stage = proc[p].stage
                /\ proc'[p].stopped => proc'[p] = proc[p]
                /\ proc'[p].report => proc'[p] = proc[p]
                /\ proc'[p].sigs \subseteq proc[p].sigs
                /\ proc[p].stage \in {"grouped", "running"} => ~proc'[p].stopped
<1>1. proc \in [Pid -> Process]
  BY DEF TypeOK, ProcessesTypeOK
<1>2. CASE p \in Pid /\ proc[p].stage \in {"grouped", "running"}
  <2>1. proc' = [proc EXCEPT ![p] = Continued(@)]
    BY <1>2 DEF kill_SIGCONT
  <2>2. QED
    BY <1>1, <1>2, <2>1 DEF kill_SIGCONT, Continued, Process
<1>3. CASE ~(p \in Pid /\ proc[p].stage \in {"grouped", "running"})
  <2>1. proc' = proc /\ sigpending' = sigpending
    BY <1>3 DEF kill_SIGCONT
  <2>2. QED
    BY <1>1, <1>3, <2>1
<1>4. QED
  BY <1>2, <1>3

(* A keyboard signal neither stops nor ends a child at once, and goes to   *)
(* the foreground job's process only.                                      *)
LEMMA KeyboardHandlerFacts ==
    ASSUME TypeOK, NEW s \in KeyboardSignal, KeyboardHandler(s)
    PROVE  \A q \in Pid :
             /\ proc'[q].stage = proc[q].stage
             /\ proc'[q].stopped = proc[q].stopped
             /\ proc'[q].report = proc[q].report
             /\ ~(proc'[q].sigs \subseteq proc[q].sigs) =>
                   fg_job > 0 /\ job_list[fg_job].pid = q
<1>1. proc \in [Pid -> Process]
  BY DEF TypeOK, ProcessesTypeOK
<1>2. CASE fg_job > 0 /\ kill_keyboard(job_list[fg_job].pid, s)
  BY <1>1, <1>2 DEF kill_keyboard, Process
<1>3. CASE UNCHANGED proc
  BY <1>3
<1>4. QED
  BY <1>2, <1>3 DEF KeyboardHandler

-----------------------------------------------------------------------------
(* ControlConsistent, one lemma for each group of actions of Next.         *)

(* ControlConsistent holds when the shell starts.                          *)
LEMMA InitControl == Init => ControlConsistent
  BY DEF Init, ControlConsistent, ProcessesInit, NoProcess, Gone

(* ControlConsistent holds when the shell's process has ended.             *)
LEMMA EndsControl ==
    ASSUME TypeOK, NEW how \in {"exited", "aborted"}, NEW why, Ends(how, why)
    PROVE  ControlConsistent'
  BY DEF Ends, ControlConsistent, NoProcess, Gone

(* A step that leaves the main flow, the fork and the refusals alone, and  *)
(* in which no child is reaped and no stop reported anew.                  *)
LEMMA SameControl ==
    ASSUME TypeOK, ControlConsistent,
           \/ UNCHANGED <<pc, handler, forked, refused>>
           \/ /\ UNCHANGED <<handler, forked, refused>>
              /\ pc' \in {"loop", "prompt", "suspended", "exit"}
              /\ handler = "none" /\ ~Gone,
           \A q \in Pid : Unreaped(q) => Unreaped(q)',
           \A q \in Pid : proc'[q].report => Alive(q)' /\ proc'[q].stopped
    PROVE  ControlConsistent'
<1>1. refused \subseteq Pid
  BY DEF TypeOK, ShellTypeOK
<1>2. QED
  BY <1>1 DEF ControlConsistent, Unreaped, Gone

(* bg and fg keep ControlConsistent when they continue a job.              *)
LEMMA BgFgControl ==
    ASSUME TypeOK, ControlConsistent, NEW p, kill_SIGCONT(p), handler = "none", ~Gone,
           UNCHANGED shellVars \/ Goto("loop")
    PROVE  ControlConsistent'
<1>1. \A q \in Pid : Unreaped(q) => Unreaped(q)'
  BY KillSigcontFacts DEF Unreaped
<1>2. \A q \in Pid : proc'[q].report => proc'[q] = proc[q]
  BY KillSigcontFacts
<1>3. \A q \in Pid : proc'[q].report => Alive(q)' /\ proc'[q].stopped
  BY <1>2 DEF ControlConsistent, Alive
<1>4. QED
  BY <1>1, <1>3, SameControl DEF shellVars, Goto

(* Every command keeps ControlConsistent.                                  *)
LEMMA CommandControl == TypeOK /\ ControlConsistent /\ Command => ControlConsistent'
<1> SUFFICES ASSUME TypeOK, ControlConsistent, Command PROVE ControlConsistent'
  OBVIOUS
<1>1. ReadCommand
  BY DEF Command, EvalFork, EvalForkFails, BuiltinBgJid, BuiltinFgJid,
     BuiltinBgPid, BuiltinFgPid, Quit
<1>2. handler = "none" /\ ~Gone
  BY <1>1 DEF ReadCommand, Gone
<1>3. ASSUME NEW p \in Pid, NEW s \in {"FG", "BG"}, EvalFork(p, s)
      PROVE  ControlConsistent'
  <2>1. /\ proc[p].stage = "none"
        /\ proc'[p] = [NoProcess EXCEPT !.stage = "forked"]
        /\ \A q \in Pid \ {p} : proc'[q] = proc[q]
    BY <1>3 DEF EvalFork, fork, TypeOK, ProcessesTypeOK
  <2>2. p \notin refused
    BY <1>2, <2>1 DEF ControlConsistent, Unreaped
  <2>3. refused \subseteq Pid
    BY DEF TypeOK, ShellTypeOK
  <2>4. /\ handler' = "none" /\ refused' = refused
        /\ forked' = [pid |-> p, state |-> s]
    BY <1>2, <1>3 DEF EvalFork
  <2>5. \A q \in refused : Unreaped(q)'
    BY <1>2, <2>1, <2>2, <2>3 DEF ControlConsistent, Unreaped
  <2>6. \A q \in Pid : proc'[q].report => Alive(q)' /\ proc'[q].stopped
    BY <2>1 DEF ControlConsistent, NoProcess, Alive
  <2>7. Unreaped(p)'
    BY <2>1 DEF Unreaped, NoProcess
  <2>8. QED
    BY <2>2, <2>4, <2>5, <2>6, <2>7 DEF ControlConsistent, Unreaped
<1>4. CASE EvalForkFails
  BY <1>4, EndsControl DEF EvalForkFails, abort
<1>5. ASSUME NEW jid, BgJob(jid) PROVE ControlConsistent'
  BY <1>2, <1>5, BgFgControl DEF BgJob
<1>6. ASSUME NEW jid, NEW p, FgJob(jid, p) PROVE ControlConsistent'
  BY <1>2, <1>6, BgFgControl, EndsControl DEF FgJob, abort
<1>7. CASE Quit
  BY <1>2, <1>7, SameControl DEF Quit, Goto, procVars, ControlConsistent, Unreaped, Alive
<1>8. ASSUME NEW why, abort(why) PROVE ControlConsistent'
  BY <1>8, EndsControl DEF abort
<1>9. QED
  BY <1>3, <1>4, <1>5, <1>6, <1>7, <1>8
     DEF Command, BuiltinBgJid, BuiltinFgJid, BuiltinBgPid, BuiltinFgPid

(* What eval does after the fork keeps ControlConsistent.                  *)
LEMMA EvalControl == TypeOK /\ ControlConsistent /\ Eval => ControlConsistent'
<1> SUFFICES ASSUME TypeOK, ControlConsistent, Eval PROVE ControlConsistent'
  OBVIOUS
<1>1. CASE EvalAddJob
  <2>1. CASE (forked.state = "FG" /\ fg_job # 0) \/ ~add_job_slot_free
    BY <1>1, <2>1, EndsControl DEF EvalAddJob, abort
  <2>2. CASE ~(forked.state = "FG" /\ fg_job # 0) /\ add_job_slot_free
    <3>1. /\ pc = "forked" /\ pc' \in {"loop", "prompt"}
          /\ UNCHANGED <<proc, handler>>
          /\ refused' \in {refused, refused \cup {forked.pid}}
      BY <1>1, <2>2 DEF EvalAddJob, procVars
    <3>2. QED
      BY <3>1 DEF ControlConsistent, Gone, Unreaped, Alive
  <2>3. QED
    BY <2>1, <2>2
<1>2. CASE TestForeground \/ SigsuspendReturns
  BY <1>2, SameControl DEF TestForeground, SigsuspendReturns, Goto, procVars,
     ControlConsistent, Unreaped, Alive, Gone
<1>3. QED
  BY <1>1, <1>2 DEF Eval

(* The end of the shell keeps ControlConsistent.                           *)
LEMMA CleanupControl ==
    TypeOK /\ ControlConsistent /\ (Cleanup \/ SigquitHandler) => ControlConsistent'
  BY EndsControl DEF Cleanup, CleanupResetHandler, CleanupDestroy, KilledInCleanup,
     SigquitHandler, ControlConsistent, procVars, Unreaped, Alive, Gone

(* The handlers keep ControlConsistent: none runs where the signals are    *)
(* blocked.                                                                *)
LEMMA HandlersControl == TypeOK /\ ControlConsistent /\ Handlers => ControlConsistent'
<1> SUFFICES ASSUME TypeOK, ControlConsistent, Handlers PROVE ControlConsistent'
  OBVIOUS
<1>1. refused \subseteq Pid /\ proc \in [Pid -> Process]
  BY DEF TypeOK, ShellTypeOK, ProcessesTypeOK
<1>2. ASSUME NEW s, Deliver(s),
             \A q \in Pid : /\ proc'[q].stage = proc[q].stage
                            /\ proc'[q].stopped = proc[q].stopped
                            /\ proc'[q].report = proc[q].report,
             handler' \in {"none", "sigchld"}
      PROVE  ControlConsistent'
  <2>1. /\ pc \in {"prompt", "suspended", "woken", "exit"}
        /\ pc' \in {"prompt", "woken", "exit"}
        /\ refused' = refused
    BY <1>2 DEF Deliver, Unblocked
  <2>2. QED
    BY <1>1, <1>2, <2>1 DEF ControlConsistent, Unreaped, Alive, Gone
<1>3. ASSUME NEW s \in KeyboardSignal, KeyboardHandler(s) PROVE ControlConsistent'
  <2>1. handler' \in {"none", "sigchld"}
    BY <1>3 DEF KeyboardHandler, TypeOK, ShellTypeOK
  <2>2. QED
    BY <1>2, <1>3, <2>1, KeyboardHandlerFacts DEF KeyboardHandler
<1>4. CASE SigchldHandler
  BY <1>2, <1>4 DEF SigchldHandler
<1>5. ASSUME NEW p \in Pid, ReapEnded(p) PROVE ControlConsistent'
  <2>1. /\ proc'[p] = NoProcess
        /\ \A q \in Pid \ {p} : proc'[q] = proc[q]
        /\ refused' = refused \ {p}
        /\ UNCHANGED <<pc, handler, forked>>
        /\ handler = "sigchld"
    BY <1>1, <1>5 DEF ReapEnded
  <2>2. pc # "forked"
    BY <2>1 DEF ControlConsistent
  <2>3. \A q \in Pid : proc'[q].report => Alive(q)' /\ proc'[q].stopped
    BY <2>1 DEF ControlConsistent, Alive, NoProcess
  <2>4. ~Gone => \A q \in refused' : Unreaped(q)'
    BY <1>1, <2>1 DEF ControlConsistent, Unreaped
  <2>5. QED
    BY <2>1, <2>2, <2>3, <2>4 DEF ControlConsistent, Unreaped, Gone
<1>6. ASSUME NEW p \in Pid, ReapStopped(p) PROVE ControlConsistent'
  <2>1. CASE ~require_job_exists(job_from_pid(p))
    BY <1>6, <2>1, EndsControl DEF ReapStopped, abort
  <2>2. CASE require_job_exists(job_from_pid(p))
    <3>1. proc' = [proc EXCEPT ![p].report = FALSE] /\ UNCHANGED shellVars
      BY <1>6, <2>2 DEF ReapStopped
    <3>2. \A q \in Pid : /\ proc'[q].stage = proc[q].stage
                         /\ proc'[q].stopped = proc[q].stopped
                         /\ proc'[q].report => proc[q].report
      BY <1>1, <3>1 DEF Process
    <3>3. QED
      BY <3>1, <3>2, SameControl DEF shellVars, ControlConsistent, Unreaped, Alive
  <2>3. QED
    BY <2>1, <2>2
<1>7. CASE SigchldReturns
  BY <1>7 DEF SigchldReturns, procVars, ControlConsistent, Unreaped, Alive, Gone
<1>8. QED
  BY <1>3, <1>4, <1>5, <1>6, <1>7 DEF Handlers

(* The children's steps keep ControlConsistent.                            *)
LEMMA ChildStepControl ==
    ASSUME TypeOK, ControlConsistent, NEW p \in Pid, ChildStep(p)
    PROVE  ControlConsistent'
<1>1. UNCHANGED shellVars
  BY DEF ChildStep
<1>2. \A q \in Pid : Unreaped(q) => Unreaped(q)'
  BY ChildStepFacts DEF Unreaped
<1>3. \A q \in Pid : proc'[q].report => Alive(q)' /\ proc'[q].stopped
  BY ChildStepFacts DEF ControlConsistent, Alive
<1>4. QED
  BY <1>1, <1>2, <1>3, SameControl DEF shellVars

-----------------------------------------------------------------------------

(* Every step of the shell keeps the types and ControlConsistent.          *)
LEMMA TypeControlStep ==
    TypeOK /\ ControlConsistent /\ [Next]_vars => (TypeOK /\ ControlConsistent)'
<1> SUFFICES ASSUME TypeOK, ControlConsistent, [Next]_vars
             PROVE  (TypeOK /\ ControlConsistent)'
  OBVIOUS
<1>1. CASE Command
  BY <1>1, CommandType, CommandControl
<1>2. CASE Eval
  BY <1>2, EvalType, EvalControl DEF ControlConsistent
<1>3. CASE Cleanup \/ SigquitHandler
  BY <1>3, CleanupType, CleanupControl
<1>4. CASE Handlers
  BY <1>4, HandlersType, HandlersControl
<1>5. ASSUME NEW p \in Pid, ChildStep(p) PROVE (TypeOK /\ ControlConsistent)'
  BY <1>5, ChildStepType, ChildStepControl
<1>6. ASSUME NEW s \in Typed, TypeAtKeyboard(s) PROVE (TypeOK /\ ControlConsistent)'
  <2>1. sigpending' \in SUBSET Signal /\ UNCHANGED <<listVars, proc, shellVars>>
    BY <1>6, TypedAssumption DEF TypeAtKeyboard, TypeOK, ProcessesTypeOK, Signal
  <2>2. QED
    BY <2>1 DEF TypeOK, JobListTypeOK, ProcessesTypeOK, ShellTypeOK,
       ControlConsistent, listVars, shellVars, Unreaped, Alive, Gone
<1>7. CASE UNCHANGED vars
  BY <1>7 DEF vars, listVars, procVars, shellVars, TypeOK, JobListTypeOK,
     ProcessesTypeOK, ShellTypeOK, ControlConsistent, Unreaped, Alive, Gone
<1>8. QED
  BY <1>1, <1>2, <1>3, <1>4, <1>5, <1>6, <1>7 DEF Next, Terminated

(* The variables of the shell hold values of their types in every state.   *)
THEOREM TypeCorrect == Spec => []TypeOK
<1>1. Init => TypeOK /\ ControlConsistent
  BY InitType, InitControl
<1>2. QED
  BY <1>1, TypeControlStep, PTL DEF Spec

-----------------------------------------------------------------------------
(* The safety invariants.  ShellInv is inductive; its parts are proved one *)
(* after the other, each from those before it.                             *)

(* The steps that leave the job list and the children as they are.         *)
LEMMA QuietSteps ==
    ASSUME Quit \/ TestForeground \/ SigsuspendReturns \/ CleanupResetHandler
             \/ SigchldHandler \/ SigchldReturns \/ UNCHANGED vars
             \/ \E s \in Typed : TypeAtKeyboard(s)
    PROVE  UNCHANGED <<listVars, proc, forked, refused, fatal>>
  BY DEF Quit, TestForeground, SigsuspendReturns, CleanupResetHandler, Goto,
     SigchldHandler, Deliver, SigchldReturns, TypeAtKeyboard, vars, procVars, shellVars

(* The steps that end the shell.                                           *)
LEMMA EndsSteps ==
    ASSUME EvalForkFails \/ CleanupDestroy \/ KilledInCleanup \/ SigquitHandler
    PROVE  \E how \in {"exited", "aborted"},
              why \in {"none", "add_job: invalid pid"} : Ends(how, why)
  BY DEF EvalForkFails, abort, CleanupDestroy, KilledInCleanup, SigquitHandler

(* With its invariant, add_job never aborts in eval.                       *)
LEMMA AddJobStep ==
    ASSUME TypeOK, ControlConsistent, NextJidIsOnePastLargest, OneForegroundJob, EvalAddJob
    PROVE  /\ pc = "forked" /\ forked.pid \in Pid /\ forked.state \in {"FG", "BG"}
           /\ fg_job = 0
           /\ add_job(forked.pid, forked.state)
           /\ refused' = IF add_job_full THEN refused \cup {forked.pid} ELSE refused
           /\ pc' = IF forked.state = "FG" THEN "loop" ELSE "prompt"
           /\ forked' = NothingForked
           /\ UNCHANGED <<procVars, handler, installed, fatal>>
<1>1. pc = "forked" /\ forked.pid \in Pid /\ forked.state \in {"FG", "BG"}
  BY DEF EvalAddJob, ControlConsistent
<1>2. fg_job = 0
  BY <1>1, FgJobFacts DEF OneForegroundJob, TypeOK
<1>3. add_job_slot_free
  BY AddJobSlotFree DEF TypeOK
<1>4. QED
  BY <1>1, <1>2, <1>3 DEF EvalAddJob

-----------------------------------------------------------------------------
(* nextjid.                                                                *)

(* The end of the shell leaves nextjid at 1 and the list empty.            *)
LEMMA EndsNextJid ==
    ASSUME NEW how, NEW why, Ends(how, why)
    PROVE  NextJidIsOnePastLargest'
  BY DestroyNextJid DEF Ends

(* Every step keeps nextjid one past the largest job ID in use.            *)
LEMMA NextJidStep ==
    TypeOK /\ ControlConsistent /\ NextJidIsOnePastLargest /\ [Next]_vars
        => NextJidIsOnePastLargest'
<1> SUFFICES ASSUME TypeOK, ControlConsistent, NextJidIsOnePastLargest, [Next]_vars
             PROVE  NextJidIsOnePastLargest'
  OBVIOUS
<1>1. JobListTypeOK
  BY DEF TypeOK
<1>2. CASE UNCHANGED listVars
  BY <1>2 DEF listVars, NextJidIsOnePastLargest, Listed
<1>3. CASE EvalForkFails \/ CleanupDestroy \/ KilledInCleanup \/ SigquitHandler
  BY <1>3, EndsSteps, EndsNextJid
<1>4. ASSUME NEW jid, job_exists(jid), BgJob(jid) PROVE NextJidIsOnePastLargest'
  BY <1>1, <1>4, JobSetStateNextJid DEF BgJob, JobState
<1>5. ASSUME NEW jid, NEW p, FgJob(jid, p) PROVE NextJidIsOnePastLargest'
  BY <1>1, <1>5, JobSetStateNextJid, EndsNextJid DEF FgJob, JobState, abort, require_job_exists
<1>6. ASSUME NEW p, BuiltinBgPid(p) PROVE NextJidIsOnePastLargest'
  BY <1>1, <1>4, <1>6, JobFromPidFacts, EndsNextJid DEF BuiltinBgPid, abort
<1>7. CASE EvalAddJob
  <2>1. forked.pid \in Pid /\ forked.state \in {"FG", "BG"}
    BY <1>7 DEF EvalAddJob, ControlConsistent
  <2>2. CASE add_job(forked.pid, forked.state)
    BY <1>1, <2>1, <2>2, AddJobNextJid
  <2>3. QED
    BY <1>7, <2>2, EndsNextJid DEF EvalAddJob, abort
<1>8. ASSUME NEW p \in Pid, ReapEnded(p) PROVE NextJidIsOnePastLargest'
  BY <1>1, <1>8, DeleteJobNextJid DEF ReapEnded
<1>9. ASSUME NEW p \in Pid, ReapStopped(p) PROVE NextJidIsOnePastLargest'
  BY <1>1, <1>9, JobSetStateNextJid, EndsNextJid
     DEF ReapStopped, JobState, abort, require_job_exists
<1>10. ASSUME NEW p, NEW s, EvalFork(p, s) PROVE UNCHANGED listVars
  BY <1>10 DEF EvalFork
<1>11. ASSUME NEW s, KeyboardHandler(s) PROVE UNCHANGED listVars
  BY <1>11 DEF KeyboardHandler, Deliver
<1>12. ASSUME NEW p, ChildStep(p) PROVE UNCHANGED listVars
  BY <1>12 DEF ChildStep
<1>13. CASE Command
  BY <1>2, <1>3, <1>4, <1>5, <1>6, <1>10, <1>13, QuietSteps
     DEF Command, BuiltinBgJid, BuiltinFgJid, BuiltinFgPid
<1>14. CASE Eval \/ Cleanup
  BY <1>2, <1>3, <1>7, <1>14, QuietSteps DEF Eval, Cleanup
<1>15. CASE Handlers
  BY <1>2, <1>8, <1>9, <1>11, <1>15, QuietSteps DEF Handlers
<1>16. QED
  BY <1>2, <1>3, <1>12, <1>13, <1>14, <1>15, QuietSteps DEF Next, Terminated

-----------------------------------------------------------------------------
(* The foreground job.                                                     *)

(* The safety invariants hold when the shell starts: no job, no child.     *)
LEMMA InitSafety ==
    Init => /\ NextJidIsOnePastLargest /\ OneForegroundJob /\ JobsAreChildren
            /\ NoLostSigchld /\ SleepsOnForegroundJob /\ StoppedIsShownStopped
            /\ AbortsOnlyOnBadInput
<1> SUFFICES ASSUME Init
             PROVE  /\ NextJidIsOnePastLargest /\ OneForegroundJob /\ JobsAreChildren
                    /\ NoLostSigchld /\ SleepsOnForegroundJob /\ StoppedIsShownStopped
                    /\ AbortsOnlyOnBadInput
  OBVIOUS
<1>1. \A j \in Jid : job_list[j].state = "UNDEF"
  BY DEF Init, init_job_list, NoJob
<1>2. \A p \in Pid : proc[p].stage = "none" /\ ~proc[p].report
  BY DEF Init, ProcessesInit, NoProcess
<1>3. nextjid = 1 /\ pc = "prompt" /\ fatal = "none"
  BY DEF Init, init_job_list
<1>4. QED
  BY <1>1, <1>2, <1>3 DEF NextJidIsOnePastLargest, OneForegroundJob, JobsAreChildren,
     NoLostSigchld, SleepsOnForegroundJob, StoppedIsShownStopped,
     AbortsOnlyOnBadInput, Listed, Unreaped, Waitable

(* Once the shell has ended there is neither job nor child.                *)
LEMMA EndsEffect ==
    ASSUME NEW how, NEW why, Ends(how, why)
    PROVE  /\ \A j \in Jid : job_list'[j].state = "UNDEF"
           /\ \A p \in Pid : proc'[p].stage = "none" /\ ~proc'[p].report
           /\ pc' = how /\ fatal' = why /\ refused' = refused
  BY DEF Ends, destroy_job_list, NoJob, NoProcess

(* The safety invariants hold when the shell has ended: no job, no child.  *)
LEMMA EndsSafety ==
    ASSUME NEW how, NEW why, Ends(how, why), how # "suspended"
    PROVE  /\ OneForegroundJob' /\ JobsAreChildren' /\ NoLostSigchld'
           /\ SleepsOnForegroundJob' /\ StoppedIsShownStopped'
  BY EndsEffect DEF OneForegroundJob, JobsAreChildren, NoLostSigchld,
     SleepsOnForegroundJob, StoppedIsShownStopped, Listed, Unreaped, Waitable

(* Every step leaves at most one foreground job, and none where a command  *)
(* is read.                                                                *)
LEMMA OneForegroundStep ==
    TypeOK /\ ControlConsistent /\ NextJidIsOnePastLargest /\ OneForegroundJob
      /\ [Next]_vars => OneForegroundJob'
<1> SUFFICES ASSUME TypeOK, ControlConsistent, NextJidIsOnePastLargest,
                    OneForegroundJob, [Next]_vars
             PROVE  OneForegroundJob'
  OBVIOUS
<1>1. JobListTypeOK
  BY DEF TypeOK
<1>2. ASSUME UNCHANGED listVars,
             pc' \in {"prompt", "forked", "exit"} => pc \in {"prompt", "forked", "exit"}
      PROVE  OneForegroundJob'
  BY <1>2 DEF OneForegroundJob, listVars
<1>3. ASSUME NEW jid \in Jid, NEW s \in {"BG", "ST"}, job_set_state(jid, s), pc' = pc
      PROVE  OneForegroundJob'
  BY <1>1, <1>3, JobSetStateEffect DEF OneForegroundJob
<1>4. ASSUME NEW how, NEW why, Ends(how, why), how # "suspended" PROVE OneForegroundJob'
  BY <1>4, EndsSafety
<1>5. CASE Command
  <2>1. ReadCommand
    BY <1>5 DEF Command, EvalFork, EvalForkFails, BuiltinBgJid, BuiltinFgJid,
       BuiltinBgPid, BuiltinFgPid, Quit
  <2>2. ASSUME NEW p, NEW s, EvalFork(p, s) PROVE OneForegroundJob'
    BY <1>2, <2>1, <2>2 DEF EvalFork, ReadCommand
  <2>3. ASSUME NEW jid, job_exists(jid), BgJob(jid) PROVE OneForegroundJob'
    BY <1>3, <2>3 DEF BgJob, shellVars, job_exists
  <2>4. ASSUME NEW jid, NEW p, FgJob(jid, p) PROVE OneForegroundJob'
    <3>1. CASE require_job_exists(jid) /\ require_valid_state("FG")
      <4>1. jid \in Jid /\ job_set_state(jid, "FG") /\ pc' = "loop"
        BY <2>4, <3>1 DEF FgJob, Goto, require_job_exists, job_exists
      <4>2. \A j \in Jid : job_list[j].state # "FG"
        BY <1>1, <3>1, FgJobFacts DEF require_valid_state
      <4>3. QED
        BY <1>1, <4>1, <4>2, JobSetStateEffect DEF OneForegroundJob
    <3>2. CASE ~(require_job_exists(jid) /\ require_valid_state("FG"))
      BY <1>4, <2>4, <3>2 DEF FgJob, abort
    <3>3. QED
      BY <3>1, <3>2
  <2>5. ASSUME NEW p, BuiltinBgPid(p) PROVE OneForegroundJob'
    BY <1>1, <1>4, <2>3, <2>5, JobFromPidFacts DEF BuiltinBgPid, abort
  <2>6. CASE EvalForkFails
    BY <1>4, <2>6 DEF EvalForkFails, abort
  <2>7. CASE Quit
    BY <1>2, <2>1, <2>7 DEF Quit, Goto, ReadCommand
  <2>8. QED
    BY <1>5, <2>2, <2>3, <2>4, <2>5, <2>6, <2>7
       DEF Command, BuiltinBgJid, BuiltinFgJid, BuiltinFgPid
<1>6. CASE EvalAddJob
  <2>1. /\ fg_job = 0 /\ add_job(forked.pid, forked.state)
        /\ pc' = IF forked.state = "FG" THEN "loop" ELSE "prompt"
    BY <1>6, AddJobStep
  <2>2. \A j \in Jid : job_list[j].state # "FG"
    BY <1>1, <2>1, FgJobFacts
  <2>3. CASE add_job_full
    BY <2>1, <2>2, <2>3 DEF add_job, listVars, OneForegroundJob
  <2>4. CASE ~add_job_full
    <3>1. /\ job_list'[nextjid] = [pid |-> forked.pid, state |-> forked.state]
          /\ \A j \in Jid \ {nextjid} : job_list'[j] = job_list[j]
      BY <1>1, <2>1, <2>4, AddJobEffect
    <3>2. job_list'[nextjid].state = forked.state
      BY <3>1
    <3>3. QED
      BY <2>1, <2>2, <3>1, <3>2 DEF OneForegroundJob
  <2>5. QED
    BY <2>3, <2>4
<1>7. CASE TestForeground
  <2>1. fg_job > 0 => fg_job # 0
    BY <1>1, FgJobFacts
  <2>2. pc' = "suspended" \/ fg_job = 0
    BY <1>7, <1>1, FgJobFacts, MaxJobsAssumption DEF TestForeground, Goto, Jid
  <2>3. CASE pc' = "suspended"
    BY <1>2, <1>7, <2>3 DEF TestForeground
  <2>4. CASE fg_job = 0
    BY <1>1, <1>7, <2>4, FgJobFacts DEF TestForeground, OneForegroundJob, listVars
  <2>5. QED
    BY <2>2, <2>3, <2>4
<1>8. CASE SigsuspendReturns
  BY <1>2, <1>8 DEF SigsuspendReturns, Goto
<1>9. CASE Cleanup \/ SigquitHandler
  BY <1>2, <1>4, <1>9 DEF Cleanup, CleanupResetHandler, CleanupDestroy,
     KilledInCleanup, SigquitHandler
<1>10. ASSUME NEW s, Deliver(s) PROVE OneForegroundJob'
  BY <1>2, <1>10 DEF Deliver
<1>11. ASSUME NEW p \in Pid, ReapEnded(p) PROVE OneForegroundJob'
  <2>1. pc' = pc /\ delete_job(job_from_pid(p))
    BY <1>11 DEF ReapEnded
  <2>2. \A j \in Jid : job_list'[j].state = "FG" => job_list[j].state = "FG"
    BY <1>1, <2>1, DeleteJobEffect
  <2>3. QED
    BY <2>1, <2>2 DEF OneForegroundJob
<1>12. ASSUME NEW p \in Pid, ReapStopped(p) PROVE OneForegroundJob'
  <2>1. CASE require_job_exists(job_from_pid(p))
    BY <1>3, <1>12, <2>1 DEF ReapStopped, require_job_exists, job_exists, shellVars
  <2>2. CASE ~require_job_exists(job_from_pid(p))
    BY <1>4, <1>12, <2>2 DEF ReapStopped, abort
  <2>3. QED
    BY <2>1, <2>2
<1>13. CASE SigchldReturns
  BY <1>2, <1>13 DEF SigchldReturns
<1>14. CASE Handlers
  BY <1>10, <1>11, <1>12, <1>13, <1>14 DEF Handlers, KeyboardHandler, SigchldHandler
<1>15. ASSUME NEW s \in Typed, TypeAtKeyboard(s) PROVE OneForegroundJob'
  BY <1>2, <1>15 DEF TypeAtKeyboard, shellVars
<1>16. ASSUME NEW p \in Pid, ChildStep(p) PROVE OneForegroundJob'
  BY <1>2, <1>16 DEF ChildStep, shellVars
<1>17. CASE UNCHANGED vars
  BY <1>2, <1>17 DEF vars, shellVars
<1>18. QED
  BY <1>5, <1>6, <1>7, <1>8, <1>9, <1>14, <1>15, <1>16, <1>17 DEF Next, Eval, Terminated

-----------------------------------------------------------------------------
(* The job list and the children.                                          *)

(* A step that keeps every job's PID, and whether there is such a job, and *)
(* reaps no child.                                                         *)
LEMMA SameChildren ==
    ASSUME TypeOK, JobsAreChildren,
           \A j \in Jid : /\ Listed(j)' <=> Listed(j)
                          /\ job_list'[j].pid = job_list[j].pid,
           \A p \in Pid : Unreaped(p)' <=> Unreaped(p),
           refused' = refused, forked' = forked,
           (pc = "forked") <=> (pc' = "forked")
    PROVE  JobsAreChildren'
<1>1. ListedPids' = ListedPids
  BY DEF ListedPids
<1>2. QED
  BY <1>1 DEF JobsAreChildren

(* Every step keeps the job list and the shell's children in agreement.    *)
LEMMA JobsAreChildrenStep ==
    TypeOK /\ ControlConsistent /\ NextJidIsOnePastLargest /\ OneForegroundJob
      /\ JobsAreChildren /\ [Next]_vars => JobsAreChildren'
<1> SUFFICES ASSUME TypeOK, ControlConsistent, NextJidIsOnePastLargest,
                    OneForegroundJob, JobsAreChildren, [Next]_vars
             PROVE  JobsAreChildren'
  OBVIOUS
<1>1. JobListTypeOK /\ proc \in [Pid -> Process]
  BY DEF TypeOK, ProcessesTypeOK
<1>2. ASSUME UNCHANGED <<listVars, proc, refused, forked>>,
             (pc = "forked") <=> (pc' = "forked")
      PROVE  JobsAreChildren'
  BY <1>2, SameChildren DEF listVars, Listed, Unreaped
<1>3. ASSUME NEW jid, job_exists(jid), NEW s \in {"FG", "BG", "ST"}, job_set_state(jid, s),
             \A q \in Pid : proc'[q].stage = proc[q].stage,
             refused' = refused, forked' = forked, pc # "forked", pc' # "forked"
      PROVE  JobsAreChildren'
  <2>1. jid \in Jid /\ job_list[jid].state # "UNDEF"
    BY <1>3 DEF job_exists
  <2>2. \A j \in Jid : Listed(j)' <=> Listed(j)
    BY <1>1, <1>3, <2>1, JobSetStateEffect DEF Listed
  <2>3. \A j \in Jid : job_list'[j].pid = job_list[j].pid
    BY <1>1, <1>3, <2>1, JobSetStateEffect
  <2>4. QED
    BY <1>3, <2>2, <2>3, SameChildren DEF Unreaped
<1>4. ASSUME NEW how, NEW why, Ends(how, why), how # "suspended" PROVE JobsAreChildren'
  BY <1>4, EndsSafety
<1>5. CASE Command
  <2>1. ReadCommand
    BY <1>5 DEF Command, EvalFork, EvalForkFails, BuiltinBgJid, BuiltinFgJid,
       BuiltinBgPid, BuiltinFgPid, Quit
  <2>2. ASSUME NEW p \in Pid, NEW s \in {"FG", "BG"}, EvalFork(p, s)
        PROVE  JobsAreChildren'
    <3>1. /\ proc[p].stage = "none"
          /\ proc'[p].stage = "forked"
          /\ \A q \in Pid \ {p} : proc'[q] = proc[q]
          /\ job_list' = job_list /\ refused' = refused
          /\ pc' = "forked" /\ forked'.pid = p
      BY <1>1, <2>2 DEF EvalFork, fork, NoProcess, listVars
    <3>2. ~Unreaped(p)
      BY <3>1 DEF Unreaped
    <3>3. \A q \in Pid : Unreaped(q)' <=> Unreaped(q) \/ q = p
      BY <3>1 DEF Unreaped
    <3>4. ListedPids' = ListedPids
      BY <3>1 DEF ListedPids, Listed
    <3>5. \A j \in Jid : Listed(j)' => Listed(j) /\ job_list[j].pid # p
      BY <3>1, <3>2 DEF JobsAreChildren, Listed
    <3>6. QED
      BY <2>1, <3>1, <3>3, <3>4, <3>5 DEF JobsAreChildren, ReadCommand, Listed
  <2>3. ASSUME NEW jid, job_exists(jid), BgJob(jid) PROVE JobsAreChildren'
    <3>1. \A q \in Pid : proc'[q].stage = proc[q].stage
      BY <2>3, KillSigcontFacts DEF BgJob
    <3>2. QED
      BY <1>3, <2>1, <2>3, <3>1 DEF BgJob, shellVars, ReadCommand
  <2>4. ASSUME NEW jid, NEW p, FgJob(jid, p) PROVE JobsAreChildren'
    <3>1. CASE require_job_exists(jid) /\ require_valid_state("FG")
      <4>1. kill_SIGCONT(p) /\ job_set_state(jid, "FG") /\ Goto("loop")
        BY <2>4, <3>1 DEF FgJob
      <4>2. \A q \in Pid : proc'[q].stage = proc[q].stage
        BY <4>1, KillSigcontFacts
      <4>3. QED
        BY <1>3, <2>1, <3>1, <4>1, <4>2 DEF Goto, ReadCommand, require_job_exists
    <3>2. CASE ~(require_job_exists(jid) /\ require_valid_state("FG"))
      BY <1>4, <2>4, <3>2 DEF FgJob, abort
    <3>3. QED
      BY <3>1, <3>2
  <2>5. ASSUME NEW p, BuiltinBgPid(p) PROVE JobsAreChildren'
    BY <1>1, <1>4, <2>3, <2>5, JobFromPidFacts DEF BuiltinBgPid, abort
  <2>6. CASE EvalForkFails
    BY <1>4, <2>6 DEF EvalForkFails, abort
  <2>7. CASE Quit
    BY <1>2, <2>1, <2>7 DEF Quit, Goto, ReadCommand, procVars
  <2>8. QED
    BY <1>5, <2>2, <2>3, <2>4, <2>5, <2>6, <2>7
       DEF Command, BuiltinBgJid, BuiltinFgJid, BuiltinFgPid
<1>6. CASE EvalAddJob
  <2>1. /\ pc = "forked" /\ forked.pid \in Pid /\ forked.state \in {"FG", "BG"}
        /\ add_job(forked.pid, forked.state)
        /\ refused' = IF add_job_full THEN refused \cup {forked.pid} ELSE refused
        /\ pc' # "forked"
        /\ proc' = proc
    BY <1>6, AddJobStep DEF procVars
  <2>2. CASE add_job_full
    <3>1. job_list' = job_list /\ refused' = refused \cup {forked.pid}
      BY <2>1, <2>2 DEF add_job, listVars
    <3>2. ListedPids' = ListedPids
      BY <3>1 DEF ListedPids, Listed
    <3>3. QED
      BY <2>1, <3>1, <3>2 DEF JobsAreChildren, Listed, Unreaped
  <2>3. CASE ~add_job_full
    <3>. PICK n : n = nextjid
      OBVIOUS
    <3>1. /\ n \in Jid
          /\ job_list'[n] = [pid |-> forked.pid, state |-> forked.state]
          /\ \A j \in Jid \ {n} : job_list'[j] = job_list[j]
      BY <1>1, <2>1, <2>3, AddJobEffect
    <3>2. ~Listed(n)
      BY <1>1, <2>3, AddJobSlotFree DEF add_job_slot_free, Listed
    <3>3. job_list'[n].state # "UNDEF" /\ job_list'[n].pid = forked.pid
      BY <2>1, <3>1
    <3>4. \A j \in Jid : Listed(j)' /\ j # n =>
            Listed(j) /\ job_list'[j].pid = job_list[j].pid
      BY <3>1 DEF Listed
    <3>5. forked.pid \notin refused /\ Unreaped(forked.pid) /\ refused' = refused
      BY <2>1, <2>3 DEF ControlConsistent
    <3>6. \A p \in ListedPids : p \in ListedPids'
      <4>1. ASSUME NEW j \in Jid, Listed(j) PROVE Listed(j)' /\ job_list'[j].pid = job_list[j].pid
        BY <3>1, <3>2, <4>1 DEF Listed
      <4>2. QED
        BY <4>1 DEF ListedPids
    <3>7. forked.pid \in ListedPids'
      BY <3>1, <3>3 DEF ListedPids, Listed
    <3>8. \A p \in Pid : Unreaped(p)' => p \in ListedPids' \cup refused'
      BY <2>1, <3>5, <3>6, <3>7 DEF JobsAreChildren, Unreaped
    <3>9. \A j \in Jid : Listed(j)' =>
             /\ job_list'[j].pid \in Pid
             /\ Unreaped(job_list[j].pid)'
             /\ job_list'[j].pid \notin refused'
      BY <2>1, <3>3, <3>4, <3>5 DEF JobsAreChildren, Unreaped
    <3>10. \A i, j \in Jid :
             Listed(i)' /\ Listed(j)' /\ job_list'[i].pid = job_list'[j].pid => i = j
      BY <2>1, <3>3, <3>4 DEF JobsAreChildren
    <3>11. QED
      BY <2>1, <3>8, <3>9, <3>10 DEF JobsAreChildren
  <2>4. QED
    BY <2>2, <2>3
<1>7. CASE TestForeground \/ SigsuspendReturns
  BY <1>2, <1>7 DEF TestForeground, SigsuspendReturns, Goto, procVars
<1>8. CASE Cleanup \/ SigquitHandler
  BY <1>2, <1>4, <1>8 DEF Cleanup, CleanupResetHandler, CleanupDestroy,
     KilledInCleanup, SigquitHandler, procVars
<1>9. ASSUME NEW s \in KeyboardSignal, KeyboardHandler(s) PROVE JobsAreChildren'
  <2>1. \A q \in Pid : Unreaped(q)' <=> Unreaped(q)
    BY <1>9, KeyboardHandlerFacts DEF Unreaped
  <2>2. /\ job_list' = job_list /\ refused' = refused /\ forked' = forked
        /\ pc # "forked" /\ pc' # "forked"
    BY <1>9 DEF KeyboardHandler, Deliver, Unblocked, listVars
  <2>3. QED
    BY <2>1, <2>2, SameChildren DEF Listed
<1>10. CASE SigchldHandler \/ SigchldReturns
  BY <1>2, <1>10 DEF SigchldHandler, SigchldReturns, Deliver, procVars
<1>11. ASSUME NEW p \in Pid, ReapEnded(p) PROVE JobsAreChildren'
  <2>. PICK jid : jid = job_from_pid(p)
    OBVIOUS
  <2>1. /\ proc'[p].stage = "none"
        /\ \A q \in Pid \ {p} : proc'[q] = proc[q]
        /\ delete_job(jid)
        /\ refused' = refused \ {p}
        /\ pc' = pc /\ pc # "forked"
    BY <1>1, <1>11 DEF ReapEnded, NoProcess, ControlConsistent
  <2>2. \A j \in Jid : j # jid => job_list'[j] = job_list[j]
    BY <1>1, <2>1, DeleteJobEffect
  <2>3. jid \in Jid => job_list'[jid].state = "UNDEF"
    BY <1>1, <2>1, DeleteJobEffect
  <2>4. \A j \in Jid : Listed(j)' =>
           Listed(j) /\ job_list'[j] = job_list[j] /\ job_list[j].pid # p
    <3>1. ASSUME NEW j \in Jid, Listed(j)' PROVE Listed(j) /\ job_list'[j] = job_list[j]
      BY <2>2, <2>3, <3>1 DEF Listed
    <3>2. ASSUME NEW j \in Jid, Listed(j), job_list[j].pid = p PROVE j = jid
      BY <1>1, <3>2, JobFromPidFacts DEF JobsAreChildren, Listed
    <3>3. QED
      BY <2>3, <3>1, <3>2 DEF Listed
  <2>5. \A q \in ListedPids : q # p => q \in ListedPids'
    <3>1. ASSUME NEW j \in Jid, Listed(j), job_list[j].pid # p
          PROVE  Listed(j)' /\ job_list'[j].pid = job_list[j].pid
      <4>1. j # jid
        BY <1>1, <3>1, JobFromPidFacts DEF JobListTypeOK, Jid
      <4>2. QED
        BY <2>2, <3>1, <4>1 DEF Listed
    <3>2. QED
      BY <3>1 DEF ListedPids
  <2>6. \A q \in Pid : Unreaped(q)' <=> Unreaped(q) /\ q # p
    BY <1>11, <2>1 DEF Unreaped
  <2>7. \A q \in Pid : Unreaped(q)' => q \in ListedPids' \cup refused'
    BY <2>1, <2>5, <2>6 DEF JobsAreChildren
  <2>8. \A j \in Jid : Listed(j)' =>
           /\ job_list'[j].pid \in Pid
           /\ Unreaped(job_list[j].pid)'
           /\ job_list'[j].pid \notin refused'
    BY <2>1, <2>4, <2>6 DEF JobsAreChildren, Unreaped
  <2>9. QED
    BY <2>1, <2>4, <2>7, <2>8 DEF JobsAreChildren
<1>12. ASSUME NEW p \in Pid, ReapStopped(p) PROVE JobsAreChildren'
  <2>1. CASE require_job_exists(job_from_pid(p))
    <3>1. /\ proc' = [proc EXCEPT ![p].report = FALSE]
          /\ job_set_state(job_from_pid(p), "ST")
          /\ UNCHANGED shellVars /\ pc # "forked"
      BY <1>12, <2>1 DEF ReapStopped, ControlConsistent
    <3>2. \A q \in Pid : proc'[q].stage = proc[q].stage
      BY <1>1, <3>1 DEF Process
    <3>3. QED
      BY <1>3, <2>1, <3>1, <3>2 DEF shellVars, require_job_exists
  <2>2. CASE ~require_job_exists(job_from_pid(p))
    BY <1>4, <1>12, <2>2 DEF ReapStopped, abort
  <2>3. QED
    BY <2>1, <2>2
<1>13. CASE Handlers
  BY <1>9, <1>10, <1>11, <1>12, <1>13 DEF Handlers
<1>14. ASSUME NEW s \in Typed, TypeAtKeyboard(s) PROVE JobsAreChildren'
  BY <1>2, <1>14 DEF TypeAtKeyboard, shellVars
<1>15. ASSUME NEW p \in Pid, ChildStep(p) PROVE JobsAreChildren'
  <2>1. UNCHANGED <<listVars, shellVars>>
    BY <1>15 DEF ChildStep
  <2>2. \A q \in Pid : Unreaped(q)' <=> Unreaped(q)
    BY <1>15, ChildStepFacts DEF Unreaped, Alive
  <2>3. QED
    BY <2>1, <2>2, SameChildren DEF listVars, shellVars, Listed
<1>16. CASE UNCHANGED vars
  BY <1>2, <1>16 DEF vars, shellVars, procVars
<1>17. QED
  BY <1>5, <1>6, <1>7, <1>8, <1>13, <1>14, <1>15, <1>16 DEF Next, Eval, Terminated

-----------------------------------------------------------------------------
(* SIGCHLD is not lost.                                                    *)

(* Every step that leaves a child to wait for leaves SIGCHLD pending or    *)
(* its handler in the loop.                                                *)
LEMMA NoLostSigchldStep ==
    TypeOK /\ ControlConsistent /\ NoLostSigchld /\ [Next]_vars => NoLostSigchld'
<1> SUFFICES ASSUME TypeOK, ControlConsistent, NoLostSigchld, [Next]_vars
             PROVE  NoLostSigchld'
  OBVIOUS
<1>1. proc \in [Pid -> Process]
  BY DEF TypeOK, ProcessesTypeOK
<1>2. ASSUME \A q \in Pid : Waitable(q)' => Waitable(q),
             sigpending \subseteq sigpending', handler' = handler
      PROVE  NoLostSigchld'
  BY <1>2 DEF NoLostSigchld
<1>3. ASSUME UNCHANGED proc, sigpending \subseteq sigpending', handler' = handler
      PROVE  NoLostSigchld'
  BY <1>2, <1>3 DEF Waitable
<1>4. ASSUME NEW how, NEW why, Ends(how, why), how # "suspended" PROVE NoLostSigchld'
  BY <1>4, EndsSafety
<1>5. ASSUME NEW p, kill_SIGCONT(p), handler' = handler PROVE NoLostSigchld'
  <2>1. \A q \in Pid : Waitable(q)' => Waitable(q)
    BY <1>5, KillSigcontFacts DEF Waitable
  <2>2. QED
    BY <1>2, <1>5, <2>1, KillSigcontFacts
<1>6. CASE Command
  <2>1. ASSUME NEW p \in Pid, NEW s, EvalFork(p, s) PROVE NoLostSigchld'
    <3>1. /\ proc'[p].stage = "forked" /\ ~proc'[p].report
          /\ \A q \in Pid \ {p} : proc'[q] = proc[q]
      BY <1>1, <2>1 DEF EvalFork, fork, NoProcess
    <3>2. \A q \in Pid : Waitable(q)' => Waitable(q)
      BY <3>1 DEF Waitable
    <3>3. QED
      BY <1>2, <2>1, <3>2 DEF EvalFork
  <2>2. ASSUME NEW jid, BgJob(jid) PROVE NoLostSigchld'
    BY <1>5, <2>2 DEF BgJob, shellVars
  <2>3. ASSUME NEW jid, NEW p, FgJob(jid, p) PROVE NoLostSigchld'
    BY <1>4, <1>5, <2>3 DEF FgJob, Goto, abort
  <2>4. ASSUME NEW p, BuiltinBgPid(p) PROVE NoLostSigchld'
    BY <1>4, <2>2, <2>4 DEF BuiltinBgPid, abort
  <2>5. CASE EvalForkFails \/ Quit
    BY <1>3, <1>4, <2>5 DEF EvalForkFails, abort, Quit, Goto, procVars
  <2>6. QED
    BY <1>6, <2>1, <2>2, <2>3, <2>4, <2>5
       DEF Command, BuiltinBgJid, BuiltinFgJid, BuiltinFgPid
<1>7. CASE Eval
  BY <1>3, <1>4, <1>7 DEF Eval, EvalAddJob, abort, TestForeground, SigsuspendReturns,
     Goto, procVars
<1>8. CASE Cleanup \/ SigquitHandler
  BY <1>3, <1>4, <1>8 DEF Cleanup, CleanupResetHandler, CleanupDestroy,
     KilledInCleanup, SigquitHandler, procVars
<1>9. ASSUME NEW s \in KeyboardSignal, KeyboardHandler(s) PROVE NoLostSigchld'
  <2>1. \A q \in Pid : Waitable(q)' => Waitable(q)
    BY <1>9, KeyboardHandlerFacts DEF Waitable
  <2>2. "SIGCHLD" \in sigpending => "SIGCHLD" \in sigpending'
    BY <1>9 DEF KeyboardHandler, Deliver, KeyboardSignal
  <2>3. QED
    BY <1>9, <2>1, <2>2 DEF NoLostSigchld, KeyboardHandler
<1>10. CASE SigchldHandler
  BY <1>10 DEF SigchldHandler, NoLostSigchld
<1>11. ASSUME NEW p \in Pid, ReapEnded(p) PROVE NoLostSigchld'
  BY <1>11 DEF ReapEnded, NoLostSigchld
<1>12. ASSUME NEW p \in Pid, ReapStopped(p) PROVE NoLostSigchld'
  BY <1>4, <1>12 DEF ReapStopped, abort, shellVars, NoLostSigchld
<1>13. CASE SigchldReturns
  BY <1>13 DEF SigchldReturns, procVars, NoLostSigchld, Waitable
<1>14. ASSUME NEW s \in Typed, TypeAtKeyboard(s) PROVE NoLostSigchld'
  BY <1>3, <1>14 DEF TypeAtKeyboard, shellVars
<1>15. ASSUME NEW p \in Pid, ChildStep(p) PROVE NoLostSigchld'
  <2>1. sigpending \subseteq sigpending' /\ handler' = handler
    BY <1>15, ChildStepFacts DEF ChildStep, shellVars
  <2>2. \A q \in Pid : Waitable(q)' => Waitable(q) \/ "SIGCHLD" \in sigpending'
    BY <1>15, ChildStepFacts DEF Waitable
  <2>3. QED
    BY <2>1, <2>2 DEF NoLostSigchld
<1>16. CASE UNCHANGED vars
  BY <1>3, <1>16 DEF vars, shellVars, procVars
<1>17. QED
  BY <1>6, <1>7, <1>8, <1>9, <1>10, <1>11, <1>12, <1>13, <1>14, <1>15, <1>16
     DEF Next, Handlers, Terminated

-----------------------------------------------------------------------------
(* The shell sleeps on a foreground job.                                   *)

(* The shell goes to sleep, and stays asleep, only with an unreaped        *)
(* foreground job.                                                         *)
LEMMA SleepsStep ==
    TypeOK /\ ControlConsistent /\ JobsAreChildren /\ SleepsOnForegroundJob
      /\ [Next]_vars => SleepsOnForegroundJob'
<1> SUFFICES ASSUME TypeOK, ControlConsistent, JobsAreChildren, SleepsOnForegroundJob,
                    [Next]_vars, pc' = "suspended"
             PROVE  \E j \in Jid : job_list'[j].state = "FG" /\ Unreaped(job_list[j].pid)'
  BY DEF SleepsOnForegroundJob
<1>1. JobListTypeOK
  BY DEF TypeOK
<1>2. CASE TestForeground
  <2>1. /\ fg_job > 0 /\ job_list' = job_list /\ proc' = proc
    BY <1>2 DEF TestForeground, Goto, listVars, procVars
  <2>2. fg_job \in Jid /\ job_list[fg_job].state = "FG"
    BY <1>1, <2>1, FgJobFacts
  <2>3. Unreaped(job_list[fg_job].pid)
    BY <2>2 DEF JobsAreChildren, Listed
  <2>4. QED
    BY <2>1, <2>2, <2>3 DEF Unreaped
<1>3. ASSUME UNCHANGED <<listVars, proc>>, pc = "suspended"
      PROVE  \E j \in Jid : job_list'[j].state = "FG" /\ Unreaped(job_list[j].pid)'
  BY <1>3 DEF listVars, Unreaped, SleepsOnForegroundJob
<1>4. ASSUME NEW p \in Pid, ChildStep(p)
      PROVE  \E j \in Jid : job_list'[j].state = "FG" /\ Unreaped(job_list[j].pid)'
  <2>1. job_list' = job_list /\ pc = "suspended"
    BY <1>4 DEF ChildStep, listVars, shellVars
  <2>2. PICK j \in Jid : job_list[j].state = "FG" /\ Unreaped(job_list[j].pid)
    BY <2>1 DEF SleepsOnForegroundJob
  <2>3. job_list[j].pid \in Pid
    BY <2>2 DEF JobsAreChildren, Listed
  <2>4. Unreaped(job_list[j].pid)'
    BY <1>4, <2>1, <2>2, <2>3, ChildStepFacts DEF Unreaped
  <2>5. QED
    BY <2>1, <2>2, <2>4
<1>5. ASSUME NEW s \in Typed, TypeAtKeyboard(s)
      PROVE  UNCHANGED <<listVars, proc>> /\ pc = "suspended"
  BY <1>5 DEF TypeAtKeyboard, shellVars
<1>6. CASE UNCHANGED vars
  BY <1>3, <1>6 DEF vars, procVars, shellVars
<1>7. ASSUME NEW how \in {"exited", "aborted"}, NEW why, Ends(how, why) PROVE FALSE
  BY <1>7 DEF Ends
<1>8. ASSUME Command PROVE FALSE
  BY <1>7, <1>8 DEF Command, EvalFork, EvalForkFails, BuiltinBgJid, BuiltinFgJid,
     BuiltinBgPid, BuiltinFgPid, Quit, ReadCommand, BgJob, FgJob, abort, Goto, shellVars
<1>9. ASSUME EvalAddJob \/ SigsuspendReturns PROVE FALSE
  BY <1>7, <1>9 DEF EvalAddJob, SigsuspendReturns, abort, Goto
<1>10. ASSUME Cleanup \/ SigquitHandler PROVE FALSE
  BY <1>7, <1>10 DEF Cleanup, CleanupResetHandler, CleanupDestroy, KilledInCleanup,
     SigquitHandler
<1>11. ASSUME Handlers PROVE FALSE
  BY <1>7, <1>11 DEF Handlers, KeyboardHandler, SigchldHandler, Deliver, ReapEnded,
     ReapStopped, SigchldReturns, abort, shellVars, ControlConsistent, Unblocked
<1>12. QED
  BY <1>2, <1>3, <1>4, <1>5, <1>6, <1>8, <1>9, <1>10, <1>11 DEF Next, Eval, Terminated

-----------------------------------------------------------------------------
(* The shell aborts on bad input only.                                     *)

(* A failed check ends the shell, and no step but those on bad input makes *)
(* one fail.                                                               *)
LEMMA AbortsStep ==
    TypeOK /\ ControlConsistent /\ FatalAborts /\ NextJidIsOnePastLargest
      /\ OneForegroundJob /\ JobsAreChildren /\ AbortsOnlyOnBadInput /\ [Next]_vars
        => FatalAborts' /\ AbortsOnlyOnBadInput'
<1> SUFFICES ASSUME TypeOK, ControlConsistent, FatalAborts, NextJidIsOnePastLargest,
                    OneForegroundJob, JobsAreChildren, AbortsOnlyOnBadInput, [Next]_vars
             PROVE  FatalAborts' /\ AbortsOnlyOnBadInput'
  OBVIOUS
<1>1. JobListTypeOK
  BY DEF TypeOK
<1>2. ASSUME pc # "aborted", fatal' = fatal
      PROVE  FatalAborts' /\ AbortsOnlyOnBadInput'
  BY <1>2 DEF FatalAborts, AbortsOnlyOnBadInput
<1>3. CASE UNCHANGED vars
  BY <1>3 DEF vars, shellVars, FatalAborts, AbortsOnlyOnBadInput
<1>4. ASSUME NEW how, NEW why \in {"none", "add_job: invalid pid", "builtin: no such job"},
             Ends(how, why), how = "aborted" \/ why = "none"
      PROVE  FatalAborts' /\ AbortsOnlyOnBadInput'
  BY <1>4 DEF Ends, FatalAborts, AbortsOnlyOnBadInput
<1>5. CASE Command
  <2>1. ReadCommand
    BY <1>5 DEF Command, EvalFork, EvalForkFails, BuiltinBgJid, BuiltinFgJid,
       BuiltinBgPid, BuiltinFgPid, Quit
  <2>2. pc # "aborted"
    BY <2>1 DEF ReadCommand
  <2>3. require_valid_state("FG")
    BY <1>1, <2>1, FgJobFacts DEF require_valid_state, OneForegroundJob, ReadCommand
  <2>4. ASSUME NEW jid, NEW p, FgJob(jid, p)
        PROVE  FatalAborts' /\ AbortsOnlyOnBadInput'
    BY <1>2, <1>4, <2>2, <2>3, <2>4 DEF FgJob, abort, Goto
  <2>5. ASSUME NEW jid, BgJob(jid) PROVE FatalAborts' /\ AbortsOnlyOnBadInput'
    BY <1>2, <2>2, <2>5 DEF BgJob, shellVars
  <2>6. ASSUME NEW p, BuiltinBgPid(p) PROVE FatalAborts' /\ AbortsOnlyOnBadInput'
    BY <1>4, <2>5, <2>6 DEF BuiltinBgPid, abort
  <2>7. ASSUME NEW p, NEW s, EvalFork(p, s) PROVE FatalAborts' /\ AbortsOnlyOnBadInput'
    BY <1>2, <2>2, <2>7 DEF EvalFork
  <2>8. CASE EvalForkFails
    BY <1>4, <2>8 DEF EvalForkFails, abort
  <2>9. CASE Quit
    BY <1>2, <2>2, <2>9 DEF Quit, Goto
  <2>10. QED
    BY <1>5, <2>4, <2>5, <2>6, <2>7, <2>8, <2>9
       DEF Command, BuiltinBgJid, BuiltinFgJid, BuiltinFgPid
<1>6. CASE EvalAddJob
  BY <1>2, <1>6, AddJobStep
<1>7. CASE TestForeground \/ SigsuspendReturns
  BY <1>2, <1>7 DEF TestForeground, SigsuspendReturns, Goto
<1>8. CASE Cleanup \/ SigquitHandler
  BY <1>2, <1>4, <1>8 DEF Cleanup, CleanupResetHandler, CleanupDestroy,
     KilledInCleanup, SigquitHandler
<1>9. ASSUME NEW s, Deliver(s) PROVE FatalAborts' /\ AbortsOnlyOnBadInput'
  BY <1>2, <1>9 DEF Deliver, Unblocked
<1>10. ASSUME NEW p \in Pid, ReapStopped(p)
       PROVE  FatalAborts' /\ AbortsOnlyOnBadInput'
  <2>1. handler = "sigchld" /\ pc # "aborted" /\ pc # "forked"
    BY <1>10 DEF ReapStopped, ControlConsistent
  <2>2. CASE require_job_exists(job_from_pid(p))
    BY <1>2, <1>10, <2>1, <2>2 DEF ReapStopped, shellVars
  <2>3. CASE ~require_job_exists(job_from_pid(p))
    <3>1. Ends("aborted", "sigchld: no such job")
      BY <1>10, <2>3 DEF ReapStopped, abort
    <3>2. Unreaped(p)
      BY <1>10 DEF ReapStopped, ControlConsistent, Alive, Unreaped
    <3>3. p \notin ListedPids
      BY <1>1, <2>3, JobFromPidFacts DEF require_job_exists, ListedPids, Listed
    <3>4. p \in refused
      BY <2>1, <3>2, <3>3 DEF JobsAreChildren
    <3>5. QED
      BY <3>1, <3>4 DEF Ends, FatalAborts, AbortsOnlyOnBadInput
  <2>4. QED
    BY <2>2, <2>3
<1>11. ASSUME NEW p \in Pid, ReapEnded(p)
       PROVE  FatalAborts' /\ AbortsOnlyOnBadInput'
  BY <1>2, <1>11 DEF ReapEnded, ControlConsistent
<1>12. CASE SigchldReturns
  BY <1>2, <1>12 DEF SigchldReturns, ControlConsistent
<1>13. CASE Handlers
  BY <1>9, <1>10, <1>11, <1>12, <1>13 DEF Handlers, KeyboardHandler, SigchldHandler
<1>14. ASSUME NEW s \in Typed, TypeAtKeyboard(s)
       PROVE  FatalAborts' /\ AbortsOnlyOnBadInput'
  BY <1>2, <1>14 DEF TypeAtKeyboard, shellVars, Gone
<1>15. ASSUME NEW p \in Pid, ChildStep(p) PROVE FatalAborts' /\ AbortsOnlyOnBadInput'
  BY <1>2, <1>15 DEF ChildStep, shellVars, Gone
<1>16. QED
  BY <1>3, <1>5, <1>6, <1>7, <1>8, <1>13, <1>14, <1>15 DEF Next, Eval, Terminated

-----------------------------------------------------------------------------
(* A stopped job is shown as stopped.                                      *)

(* A step that changes neither the list nor what there is to know of the   *)
(* children's stops.                                                       *)
LEMMA SameStops ==
    ASSUME JobsAreChildren, StoppedIsShownStopped,
           UNCHANGED listVars,
           \A q \in Pid : proc'[q].stopped /\ ~proc'[q].report =>
                /\ proc[q].stopped /\ ~proc[q].report
                /\ proc'[q].stage = proc[q].stage
    PROVE  StoppedIsShownStopped'
  BY DEF StoppedIsShownStopped, JobsAreChildren, listVars, Listed

(* A job continued by bg or fg is not stopped, unless no signal reaches it.*)
LEMMA ContinuedStops ==
    ASSUME TypeOK, ControlConsistent, JobsAreChildren, StoppedIsShownStopped,
           NEW jid, job_exists(jid), kill_SIGCONT(job_list[jid].pid),
           NEW s \in {"FG", "BG"}, job_set_state(jid, s)
    PROVE  StoppedIsShownStopped'
<1>1. JobListTypeOK /\ jid \in Jid /\ Listed(jid)
  BY DEF TypeOK, job_exists, Listed
<1>. PICK p \in Pid : p = job_list[jid].pid
  BY <1>1 DEF JobsAreChildren
<1>2. /\ \A j \in Jid : j # jid => job_list'[j] = job_list[j]
      /\ job_list'[jid].pid = p
  BY <1>1, JobSetStateEffect
<1>3. /\ \A q \in Pid : proc'[q].stopped => proc'[q] = proc[q]
      /\ proc'[p].stage \in {"grouped", "running"} => ~proc'[p].stopped
  BY KillSigcontFacts
<1>4. ASSUME NEW j \in Jid, j # jid, Listed(j)',
             proc'[job_list'[j].pid].stage \in {"grouped", "running"},
             proc'[job_list'[j].pid].stopped, ~proc'[job_list'[j].pid].report
      PROVE  job_list'[j].state = "ST"
  <2>1. job_list'[j] = job_list[j] /\ Listed(j) /\ job_list[j].pid \in Pid
    BY <1>2, <1>4 DEF Listed, JobsAreChildren
  <2>2. QED
    BY <1>3, <1>4, <2>1 DEF StoppedIsShownStopped
<1>5. QED
  BY <1>2, <1>3, <1>4 DEF StoppedIsShownStopped

(* The stops that sigchld_handler has waited for are the ones shown; that  *)
(* of a child not yet added cannot have been waited for.                   *)
LEMMA StopsStep ==
    TypeOK /\ ControlConsistent /\ NextJidIsOnePastLargest /\ OneForegroundJob
      /\ JobsAreChildren /\ ForkedStopUnreported /\ StoppedIsShownStopped /\ [Next]_vars
        => ForkedStopUnreported' /\ StoppedIsShownStopped'
<1> SUFFICES ASSUME TypeOK, ControlConsistent, NextJidIsOnePastLargest, OneForegroundJob,
                    JobsAreChildren, ForkedStopUnreported, StoppedIsShownStopped,
                    [Next]_vars
             PROVE  ForkedStopUnreported' /\ StoppedIsShownStopped'
  OBVIOUS
<1>1. JobListTypeOK /\ proc \in [Pid -> Process]
  BY DEF TypeOK, ProcessesTypeOK
<1>2. ASSUME UNCHANGED <<listVars, proc>>, pc' # "forked"
      PROVE  ForkedStopUnreported' /\ StoppedIsShownStopped'
  BY <1>2, SameStops DEF ForkedStopUnreported
<1>3. ASSUME NEW how, NEW why, Ends(how, why), how \in {"exited", "aborted"}
      PROVE  ForkedStopUnreported' /\ StoppedIsShownStopped'
  BY <1>3, EndsSafety, EndsEffect DEF ForkedStopUnreported
<1>4. CASE Command
  <2>1. ReadCommand
    BY <1>4 DEF Command, EvalFork, EvalForkFails, BuiltinBgJid, BuiltinFgJid,
       BuiltinBgPid, BuiltinFgPid, Quit
  <2>2. ASSUME NEW p \in Pid, NEW s, EvalFork(p, s)
        PROVE  ForkedStopUnreported' /\ StoppedIsShownStopped'
    <3>1. /\ UNCHANGED listVars /\ forked'.pid = p
          /\ ~proc'[p].stopped
          /\ \A q \in Pid \ {p} : proc'[q] = proc[q]
      BY <1>1, <2>2 DEF EvalFork, fork, NoProcess
    <3>2. StoppedIsShownStopped'
      BY <3>1, SameStops
    <3>3. QED
      BY <3>1, <3>2 DEF ForkedStopUnreported
  <2>3. ASSUME NEW jid, job_exists(jid), BgJob(jid)
        PROVE  ForkedStopUnreported' /\ StoppedIsShownStopped'
    BY <2>1, <2>3, ContinuedStops DEF BgJob, shellVars, ReadCommand, ForkedStopUnreported
  <2>4. ASSUME NEW jid, NEW p, FgJob(jid, p), job_exists(jid) => job_list[jid].pid = p
        PROVE  ForkedStopUnreported' /\ StoppedIsShownStopped'
    <3>1. CASE require_job_exists(jid) /\ require_valid_state("FG")
      BY <2>4, <3>1, ContinuedStops DEF FgJob, require_job_exists, Goto, ForkedStopUnreported
    <3>2. CASE ~(require_job_exists(jid) /\ require_valid_state("FG"))
      BY <1>3, <2>4, <3>2 DEF FgJob, abort
    <3>3. QED
      BY <3>1, <3>2
  <2>5. ASSUME NEW p, BuiltinBgPid(p)
        PROVE  ForkedStopUnreported' /\ StoppedIsShownStopped'
    BY <1>1, <1>3, <2>3, <2>5, JobFromPidFacts DEF BuiltinBgPid, abort
  <2>6. ASSUME NEW p, BuiltinFgPid(p)
        PROVE  ForkedStopUnreported' /\ StoppedIsShownStopped'
    BY <1>1, <2>4, <2>6, JobFromPidFacts DEF BuiltinFgPid
  <2>7. CASE EvalForkFails
    BY <1>3, <2>7 DEF EvalForkFails, abort
  <2>8. CASE Quit
    BY <1>2, <2>8 DEF Quit, Goto, procVars
  <2>9. QED
    BY <1>4, <2>2, <2>3, <2>4, <2>5, <2>6, <2>7, <2>8
       DEF Command, BuiltinBgJid, BuiltinFgJid
<1>5. CASE EvalAddJob
  <2>1. /\ pc = "forked" /\ pc' # "forked" /\ forked.pid \in Pid
        /\ add_job(forked.pid, forked.state) /\ proc' = proc
    BY <1>5, AddJobStep DEF procVars
  <2>2. CASE add_job_full
    BY <1>2, <2>1, <2>2 DEF add_job
  <2>3. CASE ~add_job_full
    <3>. PICK n : n = nextjid
      OBVIOUS
    <3>1. /\ job_list'[n] = [pid |-> forked.pid, state |-> forked.state]
          /\ \A j \in Jid \ {n} : job_list'[j] = job_list[j]
      BY <1>1, <2>1, <2>3, AddJobEffect
    <3>2. job_list'[n].pid = forked.pid
      BY <3>1
    <3>3. proc[forked.pid].stopped => proc[forked.pid].report
      BY <2>1 DEF ForkedStopUnreported
    <3>4. QED
      BY <2>1, <3>1, <3>2, <3>3 DEF StoppedIsShownStopped, ForkedStopUnreported, Listed
  <2>4. QED
    BY <2>2, <2>3
<1>6. CASE TestForeground \/ SigsuspendReturns
  BY <1>2, <1>6 DEF TestForeground, SigsuspendReturns, Goto, procVars
<1>7. CASE Cleanup \/ SigquitHandler
  BY <1>2, <1>3, <1>7 DEF Cleanup, CleanupResetHandler, CleanupDestroy,
     KilledInCleanup, SigquitHandler, procVars
<1>8. ASSUME NEW s \in KeyboardSignal, KeyboardHandler(s)
      PROVE  ForkedStopUnreported' /\ StoppedIsShownStopped'
  <2>1. UNCHANGED listVars /\ pc' # "forked"
    BY <1>8 DEF KeyboardHandler, Deliver, Unblocked
  <2>2. QED
    BY <1>8, <2>1, KeyboardHandlerFacts, SameStops DEF ForkedStopUnreported
<1>9. CASE SigchldHandler
  BY <1>2, <1>9 DEF SigchldHandler, Deliver, Unblocked
<1>10. ASSUME NEW p \in Pid, ReapEnded(p)
       PROVE  ForkedStopUnreported' /\ StoppedIsShownStopped'
  <2>. PICK jid : jid = job_from_pid(p)
    OBVIOUS
  <2>1. /\ proc'[p].stage = "none" /\ \A q \in Pid \ {p} : proc'[q] = proc[q]
        /\ delete_job(jid) /\ pc' # "forked"
    BY <1>1, <1>10 DEF ReapEnded, NoProcess, ControlConsistent
  <2>2. /\ \A j \in Jid : j # jid => job_list'[j] = job_list[j]
        /\ jid \in Jid => job_list'[jid].state = "UNDEF"
    BY <1>1, <2>1, DeleteJobEffect
  <2>3. \A j \in Jid : Listed(j)' =>
           job_list'[j] = job_list[j] /\ Listed(j) /\ job_list[j].pid \in Pid
    BY <2>2 DEF Listed, JobsAreChildren
  <2>4. QED
    BY <2>1, <2>3 DEF StoppedIsShownStopped, ForkedStopUnreported
<1>11. ASSUME NEW p \in Pid, ReapStopped(p)
       PROVE  ForkedStopUnreported' /\ StoppedIsShownStopped'
  <2>. PICK jid : jid = job_from_pid(p)
    OBVIOUS
  <2>1. CASE require_job_exists(jid)
    <3>1. /\ proc' = [proc EXCEPT ![p].report = FALSE]
          /\ job_set_state(jid, "ST") /\ pc' # "forked"
      BY <1>11, <2>1 DEF ReapStopped, shellVars, ControlConsistent
    <3>2. /\ jid \in Jid /\ Listed(jid) /\ job_list[jid].pid = p
      BY <1>1, <2>1, JobFromPidFacts DEF require_job_exists, job_exists, Listed
    <3>3. /\ \A j \in Jid : j # jid => job_list'[j] = job_list[j]
          /\ job_list'[jid].state = "ST"
      BY <1>1, <3>1, <3>2, JobSetStateEffect
    <3>4. \A q \in Pid : q # p => proc'[q] = proc[q]
      BY <1>1, <3>1
    <3>5. \A j \in Jid : Listed(j)' /\ j # jid =>
             /\ job_list'[j] = job_list[j] /\ Listed(j)
             /\ job_list[j].pid \in Pid /\ job_list[j].pid # p
      BY <3>2, <3>3 DEF Listed, JobsAreChildren
    <3>6. QED
      BY <3>1, <3>3, <3>4, <3>5 DEF StoppedIsShownStopped, ForkedStopUnreported
  <2>2. CASE ~require_job_exists(jid)
    BY <1>3, <1>11, <2>2 DEF ReapStopped, abort
  <2>3. QED
    BY <2>1, <2>2
<1>12. CASE SigchldReturns
  BY <1>2, <1>12 DEF SigchldReturns, procVars, ControlConsistent
<1>13. ASSUME NEW s \in Typed, TypeAtKeyboard(s)
       PROVE  ForkedStopUnreported' /\ StoppedIsShownStopped'
  BY <1>13, SameStops DEF TypeAtKeyboard, shellVars, ForkedStopUnreported
<1>14. ASSUME NEW p \in Pid, ChildStep(p)
       PROVE  ForkedStopUnreported' /\ StoppedIsShownStopped'
  <2>1. UNCHANGED <<listVars, pc, forked>>
    BY <1>14 DEF ChildStep, shellVars
  <2>2. \A q \in Pid : proc'[q].stopped /\ ~proc'[q].report =>
           /\ proc[q].stopped /\ ~proc[q].report
           /\ proc'[q].stage = proc[q].stage
    BY <1>14, ChildStepFacts
  <2>3. pc = "forked" => forked.pid \in Pid
    BY DEF ControlConsistent
  <2>4. QED
    BY <2>1, <2>2, <2>3, SameStops DEF ForkedStopUnreported
<1>15. CASE UNCHANGED vars
  BY <1>15, SameStops DEF vars, procVars, shellVars, ForkedStopUnreported
<1>16. QED
  BY <1>4, <1>5, <1>6, <1>7, <1>8, <1>9, <1>10, <1>11, <1>12, <1>13, <1>14, <1>15
     DEF Next, Eval, Handlers, Terminated

-----------------------------------------------------------------------------
(* The invariant.                                                          *)

(* ShellInv is inductive: every step of the shell, of its children and of  *)
(* the user keeps it.                                                      *)
LEMMA ShellInvStep == ShellInv /\ [Next]_vars => ShellInv'
  BY TypeControlStep, NextJidStep, OneForegroundStep, JobsAreChildrenStep,
     NoLostSigchldStep, SleepsStep, AbortsStep, StopsStep DEF ShellInv

(* Everything ShellInv says of the job list, the children and the signals  *)
(* holds in every state (tsh.c, tsh_helper.c).                             *)
THEOREM ShellInvariant == Spec => []ShellInv
<1>1. Init => ShellInv
  BY InitType, InitControl, InitSafety
     DEF ShellInv, Init, FatalAborts, ForkedStopUnreported
<1>2. QED
  BY <1>1, ShellInvStep, PTL DEF Spec

(* add_job always finds the slot of nextjid free.                          *)
THEOREM NextJidCorrect == Spec => []NextJidIsOnePastLargest
<1>1. ShellInv => NextJidIsOnePastLargest
  BY DEF ShellInv
<1>2. QED
  BY <1>1, ShellInvariant, PTL

(* There is never a second foreground job, nor any at the prompt.          *)
THEOREM OneForeground == Spec => []OneForegroundJob
<1>1. ShellInv => OneForegroundJob
  BY DEF ShellInv
<1>2. QED
  BY <1>1, ShellInvariant, PTL

(* The jobs on the list are unreaped children of the shell, one job each,  *)
(* and no child is missing from it but those add_job refused.              *)
THEOREM ListMatchesChildren == Spec => []JobsAreChildren
<1>1. ShellInv => JobsAreChildren
  BY DEF ShellInv
<1>2. QED
  BY <1>1, ShellInvariant, PTL

(* No change of a child's state is lost to coalesced signals.              *)
THEOREM SigchldNotLost == Spec => []NoLostSigchld
<1>1. ShellInv => NoLostSigchld
  BY DEF ShellInv
<1>2. QED
  BY <1>1, ShellInvariant, PTL

(* The shell never sleeps with no foreground job to wake it.               *)
THEOREM SleepIsJustified == Spec => []SleepsOnForegroundJob
<1>1. ShellInv => SleepsOnForegroundJob
  BY DEF ShellInv
<1>2. QED
  BY <1>1, ShellInvariant, PTL

(* A job whose stop has been waited for is in state ST until it continues. *)
THEOREM StopsAreShown == Spec => []StoppedIsShownStopped
<1>1. ShellInv => StoppedIsShownStopped
  BY DEF ShellInv
<1>2. QED
  BY <1>1, ShellInvariant, PTL

(* No check of tsh_helper.c fails but on bad input, a failed fork, or the  *)
(* stop of a child that add_job refused.                                   *)
THEOREM AbortsJustified == Spec => []AbortsOnlyOnBadInput
<1>1. ShellInv => AbortsOnlyOnBadInput
  BY DEF ShellInv
<1>2. QED
  BY <1>1, ShellInvariant, PTL

-----------------------------------------------------------------------------
(* What a step of the shell may do, and that the shell implements          *)
(* JobControl.                                                             *)

(* bg and fg of a job there is: it is sent SIGCONT and its state is set.   *)
Continues(jid, state) ==
    /\ ReadCommand
    /\ job_exists(jid)
    /\ kill_SIGCONT(job_list[jid].pid)
    /\ job_set_state(jid, state)
    /\ pc' \in {"prompt", "loop"}

(* add_job of the child just forked, with a slot left.                     *)
Adds ==
    /\ pc = "forked" /\ ~add_job_full
    /\ add_job(forked.pid, forked.state)
    /\ UNCHANGED procVars

(* sigchld_handler marks a job as stopped.                                 *)
MarksStopped(p) ==
    /\ proc[p].report
    /\ proc' = [proc EXCEPT ![p].report = FALSE]
    /\ require_job_exists(job_from_pid(p))
    /\ job_set_state(job_from_pid(p), "ST")

(* Every step is the end of the shell, or one of seven kinds that change   *)
(* the job list or the children, or changes neither.                       *)
LEMMA StepKinds ==
    ASSUME ShellInv, [Next]_vars
    PROVE  \/ \E how \in {"exited", "aborted"} : \E why : Ends(how, why)
           \/ UNCHANGED <<listVars, proc>>
           \/ \E p \in Pid, s \in {"FG", "BG"} : EvalFork(p, s)
           \/ Adds
           \/ \E jid \in Jid, s \in {"FG", "BG"} : Continues(jid, s)
           \/ \E s \in KeyboardSignal : KeyboardHandler(s)
           \/ \E p \in Pid : ReapEnded(p) \/ MarksStopped(p) \/ ChildStep(p)
<1> DEFINE Kinds == \/ \E how \in {"exited", "aborted"} : \E why : Ends(how, why)
                    \/ UNCHANGED <<listVars, proc>>
                    \/ \E p \in Pid, s \in {"FG", "BG"} : EvalFork(p, s)
                    \/ Adds
                    \/ \E jid \in Jid, s \in {"FG", "BG"} : Continues(jid, s)
                    \/ \E s \in KeyboardSignal : KeyboardHandler(s)
                    \/ \E p \in Pid : ReapEnded(p) \/ MarksStopped(p) \/ ChildStep(p)
<1>1. JobListTypeOK
  BY DEF ShellInv, TypeOK
<1>2. CASE EvalForkFails \/ CleanupDestroy \/ KilledInCleanup \/ SigquitHandler
  <2>1. \E how \in {"exited", "aborted"} : \E why : Ends(how, why)
    BY <1>2, EndsSteps
  <2>2. QED
    BY <2>1
<1>3. ASSUME NEW why, abort(why) PROVE Kinds
  <2>1. \E how \in {"exited", "aborted"} : \E w : Ends(how, w)
    BY <1>3 DEF abort
  <2>2. QED
    BY <2>1
<1>4. ASSUME NEW jid, job_exists(jid), BgJob(jid), ReadCommand PROVE Kinds
  <2>1. jid \in Jid /\ Continues(jid, "BG")
    BY <1>4 DEF BgJob, Continues, job_exists, shellVars, ReadCommand
  <2>2. QED
    BY <2>1
<1>5. ASSUME NEW jid, NEW p, FgJob(jid, p), ReadCommand,
             job_exists(jid) => job_list[jid].pid = p
      PROVE  Kinds
  <2>1. CASE require_job_exists(jid) /\ require_valid_state("FG")
    <3>1. jid \in Jid /\ Continues(jid, "FG")
      BY <1>5, <2>1 DEF FgJob, Continues, Goto, require_job_exists, job_exists
    <3>2. QED
      BY <3>1
  <2>2. CASE ~(require_job_exists(jid) /\ require_valid_state("FG"))
    <3>1. \E why : abort(why)
      BY <1>5, <2>2 DEF FgJob
    <3>2. QED
      BY <1>3, <3>1
  <2>3. QED
    BY <2>1, <2>2
<1>6. ASSUME NEW p, BuiltinBgPid(p) PROVE Kinds
  <2>1. CASE job_from_pid(p) # 0
    BY <1>1, <1>4, <1>6, <2>1, JobFromPidFacts DEF BuiltinBgPid
  <2>2. CASE job_from_pid(p) = 0
    <3>1. \E why : abort(why)
      BY <1>6, <2>2 DEF BuiltinBgPid
    <3>2. QED
      BY <1>3, <3>1
  <2>3. QED
    BY <2>1, <2>2
<1>7. ASSUME NEW p, BuiltinFgPid(p) PROVE Kinds
  <2>1. job_exists(job_from_pid(p)) => job_list[job_from_pid(p)].pid = p
    BY <1>1, JobFromPidFacts
  <2>2. QED
    BY <1>5, <1>7, <2>1 DEF BuiltinFgPid
<1>8. ASSUME NEW jid \in Jid, BuiltinBgJid(jid) \/ BuiltinFgJid(jid) PROVE Kinds
  BY <1>4, <1>5, <1>8 DEF BuiltinBgJid, BuiltinFgJid
<1>9. CASE EvalAddJob
  <2>1. /\ pc = "forked" /\ add_job(forked.pid, forked.state)
        /\ UNCHANGED procVars
    BY <1>9, AddJobStep DEF ShellInv
  <2>2. QED
    BY <2>1 DEF Adds, add_job, procVars
<1>10. ASSUME NEW p \in Pid, ReapStopped(p) PROVE Kinds
  <2>1. CASE require_job_exists(job_from_pid(p))
    BY <1>10, <2>1 DEF ReapStopped, MarksStopped
  <2>2. CASE ~require_job_exists(job_from_pid(p))
    <3>1. \E why : abort(why)
      BY <1>10, <2>2 DEF ReapStopped
    <3>2. QED
      BY <1>3, <3>1
  <2>3. QED
    BY <2>1, <2>2
<1>11. CASE Command
  <2>1. CASE \E p \in Pid, s \in {"FG", "BG"} : EvalFork(p, s)
    BY <2>1
  <2>2. CASE Quit
    BY <2>2, QuietSteps
  <2>3. QED
    BY <1>2, <1>6, <1>7, <1>8, <1>11, <2>1, <2>2 DEF Command
<1>12. CASE Eval \/ Cleanup
  BY <1>2, <1>9, <1>12, QuietSteps DEF Eval, Cleanup
<1>13. CASE Handlers
  BY <1>10, <1>13, QuietSteps DEF Handlers
<1>14. CASE (\E s \in Typed : TypeAtKeyboard(s)) \/ UNCHANGED vars
  BY <1>14, QuietSteps
<1>15. QED
  BY <1>2, <1>11, <1>12, <1>13, <1>14 DEF Next, Terminated

-----------------------------------------------------------------------------
(* What each kind of step does to the job list.                            *)

(* add_job records the child just forked in one slot, which was free.      *)
LEMMA AddsEffect ==
    ASSUME ShellInv, Adds
    PROVE  /\ pc = "forked" /\ forked.pid \in Pid /\ forked.state \in {"FG", "BG"}
           /\ Unreaped(forked.pid)
           /\ proc' = proc
           /\ \E n \in Jid : /\ ~Listed(n)
                             /\ job_list'[n].pid = forked.pid
                             /\ job_list'[n].state = forked.state
                             /\ \A j \in Jid \ {n} : job_list'[j] = job_list[j]
<1>1. JobListTypeOK /\ NextJidIsOnePastLargest /\ ControlConsistent
  BY DEF ShellInv, TypeOK
<1>2. /\ nextjid \in Jid
      /\ job_list'[nextjid] = [pid |-> forked.pid, state |-> forked.state]
      /\ \A j \in Jid \ {nextjid} : job_list'[j] = job_list[j]
  BY <1>1, AddJobEffect DEF Adds
<1>3. ~Listed(nextjid)
  BY <1>1, AddJobSlotFree DEF Adds, add_job_slot_free, Listed
<1>4. QED
  BY <1>1, <1>2, <1>3 DEF Adds, ControlConsistent, procVars

(* bg and fg set the state of one job on the list, while none is in the    *)
(* foreground, and continue its process.                                   *)
LEMMA ContinuesEffect ==
    ASSUME ShellInv, NEW jid \in Jid, NEW s \in {"FG", "BG"}, Continues(jid, s)
    PROVE  /\ pc = "prompt" /\ Listed(jid) /\ job_list[jid].pid \in Pid
           /\ \A j \in Jid : job_list[j].state # "FG"
           /\ job_list'[jid].pid = job_list[jid].pid
           /\ job_list'[jid].state = s
           /\ \A j \in Jid \ {jid} : job_list'[j] = job_list[j]
<1>1. JobListTypeOK /\ OneForegroundJob /\ JobsAreChildren
  BY DEF ShellInv, TypeOK
<1>2. pc = "prompt" /\ job_exists(jid) /\ job_set_state(jid, s)
  BY DEF Continues, ReadCommand
<1>3. Listed(jid)
  BY <1>2 DEF job_exists, Listed
<1>4. job_list[jid].pid \in Pid
  BY <1>1, <1>3 DEF JobsAreChildren
<1>5. \A j \in Jid : job_list[j].state # "FG"
  BY <1>1, <1>2 DEF OneForegroundJob
<1>6. QED
  BY <1>1, <1>2, <1>3, <1>4, <1>5, JobSetStateEffect

(* Reaping a child frees the slot of its job, if it has one.               *)
LEMMA ReapEndedEffect ==
    ASSUME ShellInv, NEW p \in Pid, ReapEnded(p)
    PROVE  /\ proc[p].stage = "zombie" /\ proc' = [proc EXCEPT ![p] = NoProcess]
           /\ \/ /\ \A j \in Jid : ~(Listed(j) /\ job_list[j].pid = p)
                 /\ \A j \in Jid : job_list'[j] = job_list[j]
              \/ \E n \in Jid : /\ Listed(n) /\ job_list[n].pid = p /\ ~Listed(n)'
                                /\ \A j \in Jid \ {n} : job_list'[j] = job_list[j]
<1>. PICK n : n = job_from_pid(p)
  OBVIOUS
<1>1. JobListTypeOK
  BY DEF ShellInv, TypeOK
<1>2. /\ proc[p].stage = "zombie" /\ proc' = [proc EXCEPT ![p] = NoProcess]
      /\ delete_job(n)
  BY DEF ReapEnded
<1>3. /\ \A j \in Jid : j # n => job_list'[j] = job_list[j]
      /\ n \in Jid => ~Listed(n)'
  BY <1>1, <1>2, DeleteJobEffect DEF Listed
<1>4. CASE n = 0
  <2>1. \A j \in Jid : ~(Listed(j) /\ job_list[j].pid = p)
    BY <1>1, <1>4, JobFromPidFacts DEF Listed
  <2>2. \A j \in Jid : j # n
    BY <1>4, MaxJobsAssumption DEF Jid
  <2>3. QED
    BY <1>2, <1>3, <2>1, <2>2
<1>5. CASE n # 0
  <2>1. n \in Jid /\ Listed(n) /\ job_list[n].pid = p
    BY <1>1, <1>5, JobFromPidFacts DEF Listed
  <2>2. QED
    BY <1>2, <1>3, <2>1
<1>6. QED
  BY <1>4, <1>5

(* The stop of a child marks its job as stopped, and nothing else.         *)
LEMMA MarksStoppedEffect ==
    ASSUME ShellInv, NEW p \in Pid, MarksStopped(p)
    PROVE  /\ Alive(p) /\ proc[p].stopped
           /\ \A q \in Pid : /\ proc'[q].stage = proc[q].stage
                             /\ proc'[q].stopped = proc[q].stopped
                             /\ proc'[q].sigs = proc[q].sigs
           /\ \E n \in Jid : /\ Listed(n) /\ job_list[n].pid = p
                             /\ job_list'[n].pid = p
                             /\ job_list'[n].state = "ST"
                             /\ \A j \in Jid \ {n} : job_list'[j] = job_list[j]
<1> DEFINE n == job_from_pid(p)
<1>1. JobListTypeOK /\ proc \in [Pid -> Process] /\ ControlConsistent
  BY DEF ShellInv, TypeOK, ProcessesTypeOK
<1>2. n \in Jid /\ Listed(n) /\ job_list[n].pid = p
  BY <1>1, JobFromPidFacts DEF MarksStopped, require_job_exists, Listed
<1>3. /\ \A j \in Jid : j # n => job_list'[j] = job_list[j]
      /\ job_list'[n].pid = job_list[n].pid
      /\ job_list'[n].state = "ST"
  BY <1>1, <1>2, JobSetStateEffect DEF MarksStopped
<1>4. Alive(p) /\ proc[p].stopped
  BY <1>1 DEF MarksStopped, ControlConsistent
<1>5. proc' = [proc EXCEPT ![p].report = FALSE]
  BY DEF MarksStopped
<1>6. \A q \in Pid : /\ proc'[q].stage = proc[q].stage
                     /\ proc'[q].stopped = proc[q].stopped
                     /\ proc'[q].sigs = proc[q].sigs
  BY <1>1, <1>5 DEF Process
<1>7. QED
  BY <1>2, <1>3, <1>4, <1>6

-----------------------------------------------------------------------------
(* The action properties.                                                  *)

(* A step that leaves the job list alone keeps to the table of job states  *)
(* and forgets no job.                                                     *)
LEMMA SameListKeeps ==
    ASSUME job_list' = job_list
    PROVE  KeepsToTransitions /\ ForgetsOnlyReaped
  BY DEF KeepsToTransitions, ForgetsOnlyReaped, Listed

(* A step that writes one slot keeps to the table of job states and        *)
(* forgets no job if what it does in that slot does.                       *)
LEMMA OneSlotKeeps ==
    ASSUME NEW n \in Jid, \A j \in Jid \ {n} : job_list'[j] = job_list[j],
           ~Listed(n) => job_list'[n].state \in {"UNDEF", "FG", "BG"},
           job_list[n].state = "FG" => job_list'[n].state \in {"FG", "ST", "UNDEF"},
           Listed(n) /\ Listed(n)' => job_list'[n].pid = job_list[n].pid,
           Listed(n) /\ ~Listed(n)' => /\ proc[job_list[n].pid].stage = "zombie"
                                       /\ proc'[job_list[n].pid].stage = "none"
    PROVE  KeepsToTransitions /\ ForgetsOnlyReaped
  BY DEF KeepsToTransitions, ForgetsOnlyReaped, Listed

(* Every step keeps to the table of job states, and forgets a job only     *)
(* when it reaps its process.                                              *)
LEMMA ListActionsStep ==
    ASSUME ShellInv, [Next]_vars
    PROVE  KeepsToTransitions /\ ForgetsOnlyReaped
<1>1. ASSUME NEW how \in {"exited", "aborted"}, NEW why, Ends(how, why)
      PROVE  KeepsToTransitions /\ ForgetsOnlyReaped
  BY <1>1 DEF Ends, Gone, KeepsToTransitions, ForgetsOnlyReaped
<1>2. CASE UNCHANGED job_list
  BY <1>2, SameListKeeps
<1>3. CASE Adds
  <2>1. PICK n \in Jid : /\ ~Listed(n)
                         /\ job_list'[n].state = forked.state
                         /\ \A j \in Jid \ {n} : job_list'[j] = job_list[j]
    BY <1>3, AddsEffect
  <2>2. forked.state \in {"FG", "BG"}
    BY <1>3, AddsEffect
  <2>3. QED
    BY <2>1, <2>2, OneSlotKeeps DEF Listed
<1>4. ASSUME NEW jid \in Jid, NEW s \in {"FG", "BG"}, Continues(jid, s)
      PROVE  KeepsToTransitions /\ ForgetsOnlyReaped
  <2>1. /\ Listed(jid) /\ job_list[jid].state # "FG"
        /\ job_list'[jid].pid = job_list[jid].pid
        /\ job_list'[jid].state = s
        /\ \A j \in Jid \ {jid} : job_list'[j] = job_list[j]
    BY <1>4, ContinuesEffect
  <2>2. QED
    BY <2>1, OneSlotKeeps DEF Listed
<1>5. ASSUME NEW p \in Pid, ReapEnded(p)
      PROVE  KeepsToTransitions /\ ForgetsOnlyReaped
  <2>1. proc[p].stage = "zombie" /\ proc'[p].stage = "none"
    BY <1>5, ReapEndedEffect DEF ShellInv, TypeOK, ProcessesTypeOK, NoProcess
  <2>2. CASE \A j \in Jid : job_list'[j] = job_list[j]
    BY <2>2 DEF KeepsToTransitions, ForgetsOnlyReaped, Listed
  <2>3. ASSUME NEW n \in Jid, Listed(n), job_list[n].pid = p, ~Listed(n)',
               \A j \in Jid \ {n} : job_list'[j] = job_list[j]
        PROVE  KeepsToTransitions /\ ForgetsOnlyReaped
    BY <2>1, <2>3, OneSlotKeeps DEF Listed
  <2>4. QED
    BY <1>5, <2>2, <2>3, ReapEndedEffect
<1>6. ASSUME NEW p \in Pid, MarksStopped(p)
      PROVE  KeepsToTransitions /\ ForgetsOnlyReaped
  <2>1. PICK n \in Jid : /\ Listed(n) /\ job_list[n].pid = p
                         /\ job_list'[n].pid = p
                         /\ job_list'[n].state = "ST"
                         /\ \A j \in Jid \ {n} : job_list'[j] = job_list[j]
    BY <1>6, MarksStoppedEffect
  <2>2. QED
    BY <2>1, OneSlotKeeps DEF Listed
<1>7. QED
  BY <1>1, <1>2, <1>3, <1>4, <1>5, <1>6, StepKinds
     DEF listVars, EvalFork, KeyboardHandler, Deliver, ChildStep

(* Every step sends keyboard signals to the foreground job's process only. *)
LEMMA KeyboardActionsStep ==
    ASSUME ShellInv, [Next]_vars
    PROVE  SignalsOnlyForeground
<1>1. JobListTypeOK /\ proc \in [Pid -> Process] /\ TypeOK /\ ControlConsistent
  BY DEF ShellInv, TypeOK, ProcessesTypeOK
<1>2. ASSUME \A p \in Pid : proc'[p].sigs \subseteq proc[p].sigs
      PROVE  SignalsOnlyForeground
  BY <1>2 DEF SignalsOnlyForeground
<1>3. ASSUME NEW s \in KeyboardSignal, KeyboardHandler(s)
      PROVE  SignalsOnlyForeground
  <2>1. SUFFICES ASSUME NEW p \in Pid, ~(proc'[p].sigs \subseteq proc[p].sigs)
                 PROVE  \E j \in Jid : job_list[j] = [pid |-> p, state |-> "FG"]
    BY DEF SignalsOnlyForeground
  <2>2. fg_job > 0 /\ job_list[fg_job].pid = p
    BY <1>1, <1>3, <2>1, KeyboardHandlerFacts
  <2>3. fg_job \in Jid /\ job_list[fg_job].state = "FG"
    BY <1>1, <2>2, FgJobFacts
  <2>4. job_list[fg_job] = [pid |-> p, state |-> "FG"]
    BY <1>1, <2>2, <2>3 DEF JobListTypeOK, Job
  <2>5. QED
    BY <2>3, <2>4
<1>4. ASSUME NEW how \in {"exited", "aborted"}, NEW why, Ends(how, why)
      PROVE  SignalsOnlyForeground
  BY <1>2, <1>4 DEF Ends, NoProcess
<1>5. ASSUME NEW p \in Pid, NEW s, EvalFork(p, s) PROVE SignalsOnlyForeground
  BY <1>1, <1>2, <1>5 DEF EvalFork, fork, NoProcess
<1>6. ASSUME NEW jid \in Jid, NEW s \in {"FG", "BG"}, Continues(jid, s)
      PROVE  SignalsOnlyForeground
  <2>. PICK p \in Pid : p = job_list[jid].pid
    BY <1>6, ContinuesEffect
  <2>1. kill_SIGCONT(p)
    BY <1>6 DEF Continues
  <2>2. proc'[p].sigs \subseteq proc[p].sigs /\ \A q \in Pid \ {p} : proc'[q] = proc[q]
    BY <1>1, <2>1, KillSigcontFacts
  <2>3. QED
    BY <1>2, <2>2
<1>7. ASSUME NEW p \in Pid, ReapEnded(p) PROVE SignalsOnlyForeground
  BY <1>1, <1>2, <1>7 DEF ReapEnded, NoProcess
<1>8. ASSUME NEW p \in Pid, MarksStopped(p) PROVE SignalsOnlyForeground
  BY <1>2, <1>8, MarksStoppedEffect
<1>9. ASSUME NEW p \in Pid, ChildStep(p) PROVE SignalsOnlyForeground
  <2>1. proc'[p].sigs \subseteq proc[p].sigs /\ \A q \in Pid \ {p} : proc'[q] = proc[q]
    BY <1>1, <1>9, ChildStepFacts
  <2>2. QED
    BY <1>2, <2>1
<1>10. CASE UNCHANGED proc
  BY <1>2, <1>10
<1>11. QED
  BY <1>3, <1>4, <1>5, <1>6, <1>7, <1>8, <1>9, <1>10, StepKinds
     DEF Adds, procVars

(* A job's state changes as tsh_helper.h tabulates, and a job keeps its    *)
(* job ID and its process for as long as it is on the list.                *)
THEOREM TransitionsAsTabulated == Spec => JobStateTransitions
<1>1. ShellInv /\ [Next]_vars => [KeepsToTransitions]_vars
  BY ListActionsStep
<1>2. QED
  BY <1>1, ShellInvariant, PTL DEF Spec, JobStateTransitions

(* No job leaves the list but in the step that reaps its process.          *)
THEOREM NotForgottenEarly == Spec => ForgottenOnlyWhenReaped
<1>1. ShellInv /\ [Next]_vars => [ForgetsOnlyReaped]_vars
  BY ListActionsStep
<1>2. QED
  BY <1>1, ShellInvariant, PTL DEF Spec, ForgottenOnlyWhenReaped

(* Ctrl-C and Ctrl-Z reach no process but the foreground job's.            *)
THEOREM KeyboardOnlyForeground == Spec => KeyboardSignalsOnlyToForeground
<1>1. ShellInv /\ [Next]_vars => [SignalsOnlyForeground]_vars
  BY KeyboardActionsStep
<1>2. QED
  BY <1>1, ShellInvariant, PTL DEF Spec, KeyboardSignalsOnlyToForeground

-----------------------------------------------------------------------------
(* The shell implements JobControl.  A listed job's PID is in one slot     *)
(* only, so the view of a process is the state of that slot.               *)

ViewShowsState ==
    /\ \A j \in Jid : Listed(j) => jobView[job_list[j].pid] = job_list[j].state
    /\ \A p \in Pid : (\A j \in Jid : ~(Listed(j) /\ job_list[j].pid = p))
          => jobView[p] = "none"

(* The abstract list shows the state of each job, and of no other process. *)
LEMMA ViewFacts == JobListTypeOK /\ JobsAreChildren => ViewShowsState
<1> SUFFICES ASSUME JobListTypeOK, JobsAreChildren PROVE ViewShowsState
  OBVIOUS
<1>1. ASSUME NEW j \in Jid, Listed(j) PROVE jobView[job_list[j].pid] = job_list[j].state
  <2>1. job_list[j].pid \in Pid
    BY <1>1 DEF JobsAreChildren
  <2>2. job_from_pid(job_list[j].pid) # 0
    BY <1>1, JobFromPidFacts DEF Listed
  <2>3. /\ job_from_pid(job_list[j].pid) \in Jid
        /\ Listed(job_from_pid(job_list[j].pid))
        /\ job_list[job_from_pid(job_list[j].pid)].pid = job_list[j].pid
    BY <2>2, JobFromPidFacts DEF Listed
  <2>4. job_from_pid(job_list[j].pid) = j
    BY <1>1, <2>3 DEF JobsAreChildren
  <2>5. QED
    BY <1>1, <2>1, <2>4 DEF jobView
<1>2. ASSUME NEW p \in Pid, \A j \in Jid : ~(Listed(j) /\ job_list[j].pid = p)
      PROVE  jobView[p] = "none"
  BY <1>2 DEF jobView
<1>3. QED
  BY <1>1, <1>2 DEF ViewShowsState

(* The abstract view after a step that writes one slot, of process p.      *)
LEMMA OneSlotView ==
    ASSUME ShellInv, ShellInv', NEW p \in Pid, NEW n \in Jid,
           \A j \in Jid \ {n} : job_list'[j] = job_list[j],
           Listed(n) \/ Listed(n)',
           Listed(n) => job_list[n].pid = p,
           Listed(n)' => job_list'[n].pid = p
    PROVE  /\ jobView' = [jobView EXCEPT ![p] = IF Listed(n)' THEN job_list'[n].state
                                                 ELSE "none"]
           /\ jobView[p] = IF Listed(n) THEN job_list[n].state ELSE "none"
<1>1. /\ JobListTypeOK /\ JobsAreChildren
      /\ JobListTypeOK' /\ JobsAreChildren'
  BY DEF ShellInv, TypeOK
<1>2. ViewShowsState /\ ViewShowsState'
  BY <1>1, ViewFacts, PTL
<1>3. \A j \in Jid \ {n} : ~(Listed(j) /\ job_list[j].pid = p)
  BY <1>1 DEF JobsAreChildren, Listed
<1>4. \A j \in Jid \ {n} : ~(Listed(j)' /\ job_list'[j].pid = p)
  BY <1>3 DEF Listed
<1>5. jobView'[p] = IF Listed(n)' THEN job_list'[n].state ELSE "none"
  BY <1>2, <1>4 DEF ViewShowsState
<1>6. jobView[p] = IF Listed(n) THEN job_list[n].state ELSE "none"
  BY <1>2, <1>3 DEF ViewShowsState
<1>7. ASSUME NEW q \in Pid, q # p PROVE jobView'[q] = jobView[q]
  <2>1. CASE \E j \in Jid : Listed(j) /\ job_list[j].pid = q
    <3>1. PICK j \in Jid : Listed(j) /\ job_list[j].pid = q
      BY <2>1
    <3>2. j # n /\ job_list'[j] = job_list[j]
      BY <1>7, <3>1
    <3>3. QED
      BY <1>2, <3>1, <3>2 DEF ViewShowsState, Listed
  <2>2. CASE \A j \in Jid : ~(Listed(j) /\ job_list[j].pid = q)
    <3>1. \A j \in Jid : ~(Listed(j)' /\ job_list'[j].pid = q)
      BY <1>7, <2>2 DEF Listed
    <3>2. QED
      BY <1>2, <2>2, <3>1 DEF ViewShowsState
  <2>3. QED
    BY <2>1, <2>2
<1>8. /\ jobView = [q \in Pid |-> jobView[q]]
      /\ jobView' = [q \in Pid |-> jobView'[q]]
  BY DEF jobView
<1>9. QED
  BY <1>5, <1>6, <1>7, <1>8

(* A step that leaves the job list alone leaves the abstract view alone.   *)
LEMMA SameView ==
    ASSUME \A j \in Jid : job_list'[j] = job_list[j]
    PROVE  jobView' = jobView
<1>1. \A p : job_from_pid(p)' = job_from_pid(p)
  BY DEF job_from_pid
<1>2. \A p : (\E j \in Jid : Listed(j)' /\ job_list'[j].pid = p)
          <=> (\E j \in Jid : Listed(j) /\ job_list[j].pid = p)
  BY DEF Listed
<1>3. ASSUME NEW p, \E j \in Jid : Listed(j) /\ job_list[j].pid = p
      PROVE  job_from_pid(p) \in Jid
  <2> DEFINE S == {j \in Jid : job_list[j].state # "UNDEF" /\ job_list[j].pid = p}
  <2>1. S # {}
    BY <1>3 DEF Listed
  <2>2. FirstSlot(S) \in S
    BY <2>1, FirstSlotIsASlot
  <2>3. QED
    BY <2>2 DEF job_from_pid
<1>4. QED
  BY <1>1, <1>2, <1>3 DEF jobView

(* No view is "FG" where no job is.                                        *)
LEMMA NoForegroundView ==
    ASSUME ShellInv, \A j \in Jid : job_list[j].state # "FG"
    PROVE  JC!NoForeground
<1>1. ViewShowsState
  BY ViewFacts DEF ShellInv, TypeOK
<1>2. QED
  BY <1>1 DEF JC!NoForeground, ViewShowsState

(* A step that neither reaps nor stops nor continues a child leaves the    *)
(* fates alone, and one that touches one child changes that fate only.     *)
LEMMA FateSteps ==
    /\ (\A q \in Pid : proc'[q].stage = proc[q].stage /\ proc'[q].stopped = proc[q].stopped)
          => processFate' = processFate
    /\ \A p \in Pid : (\A q \in Pid \ {p} : proc'[q] = proc[q])
          => processFate' = [processFate EXCEPT ![p] = processFate'[p]]
<1>1. ASSUME \A q \in Pid : /\ proc'[q].stage = proc[q].stage
                            /\ proc'[q].stopped = proc[q].stopped
      PROVE  processFate' = processFate
  BY <1>1 DEF processFate
<1>2. ASSUME NEW p \in Pid, \A q \in Pid \ {p} : proc'[q] = proc[q]
      PROVE  processFate' = [processFate EXCEPT ![p] = processFate'[p]]
  <2>1. \A q \in Pid \ {p} : processFate'[q] = processFate[q]
    BY <1>2 DEF processFate
  <2>2. /\ processFate = [q \in Pid |-> processFate[q]]
        /\ processFate' = [q \in Pid |-> processFate'[q]]
    BY DEF processFate
  <2>3. QED
    BY <2>1, <2>2
<1>3. QED
  BY <1>1, <1>2

(* fork is Launch.                                                         *)
LEMMA EvalForkIsLaunch ==
    ASSUME ShellInv, NEW p \in Pid, NEW s \in {"FG", "BG"}, EvalFork(p, s)
    PROVE  JC!Launch(p)
<1>1. JC!NoForeground
  BY NoForegroundView DEF EvalFork, ReadCommand, ShellInv, OneForegroundJob
<1>2. /\ proc[p].stage = "none"
      /\ proc'[p].stage = "forked" /\ ~proc'[p].stopped
      /\ \A q \in Pid \ {p} : proc'[q] = proc[q]
  BY DEF EvalFork, fork, NoProcess, ShellInv, TypeOK, ProcessesTypeOK
<1>3. processFate[p] = "none" /\ processFate'[p] = "running"
  BY <1>2 DEF processFate
<1>4. jobView' = jobView
  BY SameView DEF EvalFork, listVars
<1>5. QED
  BY <1>1, <1>2, <1>3, <1>4, FateSteps DEF JC!Launch

(* add_job is Record.                                                      *)
LEMMA AddsIsRecord ==
    ASSUME ShellInv, ShellInv', Adds
    PROVE  \E p \in Pid, view \in {"FG", "BG"} : JC!Record(p, view)
<1>1. /\ pc = "forked" /\ forked.pid \in Pid /\ forked.state \in {"FG", "BG"}
      /\ Unreaped(forked.pid)
      /\ proc' = proc
  BY AddsEffect
<1>. PICK p \in Pid, view \in {"FG", "BG"} : p = forked.pid /\ view = forked.state
  BY <1>1
<1>2. PICK n \in Jid : /\ ~Listed(n)
                       /\ job_list'[n].pid = p
                       /\ job_list'[n].state = view
                       /\ \A j \in Jid \ {n} : job_list'[j] = job_list[j]
  BY AddsEffect
<1>3. JC!NoForeground
  BY <1>1, NoForegroundView DEF ShellInv, OneForegroundJob
<1>4. processFate[p] # "none"
  BY <1>1 DEF processFate, Unreaped
<1>5. Listed(n)'
  BY <1>2 DEF Listed
<1>6. jobView[p] = "none" /\ jobView' = [jobView EXCEPT ![p] = view]
  BY <1>2, <1>5, OneSlotView
<1>7. processFate' = processFate
  BY <1>1, FateSteps
<1>8. QED
  BY <1>3, <1>4, <1>6, <1>7 DEF JC!Record

(* bg and fg are Resume.                                                   *)
LEMMA ContinuesIsResume ==
    ASSUME ShellInv, ShellInv', NEW jid \in Jid, NEW s \in {"FG", "BG"}, Continues(jid, s)
    PROVE  \E p \in Pid : JC!Resume(p, s)
<1>1. TypeOK /\ ControlConsistent /\ JobsAreChildren /\ proc \in [Pid -> Process]
  BY DEF ShellInv, TypeOK, ProcessesTypeOK
<1>2. /\ Listed(jid)
      /\ job_list'[jid].pid = job_list[jid].pid
      /\ job_list'[jid].state = s
      /\ \A j \in Jid \ {jid} : job_list'[j] = job_list[j]
  BY ContinuesEffect
<1>. PICK p \in Pid : p = job_list[jid].pid
  BY ContinuesEffect
<1>3. JC!NoForeground
  BY ContinuesEffect, NoForegroundView
<1>4. Listed(jid)'
  BY <1>2 DEF Listed
<1>5. /\ jobView' = [jobView EXCEPT ![p] = s]
      /\ jobView[p] = job_list[jid].state
  BY <1>2, <1>4, OneSlotView
<1>6. jobView[p] # "none" /\ processFate[p] # "none"
  BY <1>1, <1>2, <1>5 DEF JobsAreChildren, Unreaped, processFate, TypeOK, JobListTypeOK,
     Job, JobState
<1>7. kill_SIGCONT(p)
  BY DEF Continues
<1>8. \/ processFate' = processFate
      \/ /\ processFate[p] = "stopped"
         /\ processFate' = [processFate EXCEPT ![p] = "running"]
  <2>1. CASE proc[p].stage \in {"grouped", "running"}
    <3>1. /\ \A q \in Pid \ {p} : proc'[q] = proc[q]
          /\ proc'[p].stage = proc[p].stage /\ ~proc'[p].stopped
      BY <1>1, <1>7, <2>1, KillSigcontFacts
    <3>2. processFate'[p] = "running"
      BY <2>1, <3>1 DEF processFate
    <3>3. processFate' = [processFate EXCEPT ![p] = "running"]
      BY <3>1, <3>2, FateSteps
    <3>4. CASE proc[p].stopped
      BY <2>1, <3>3, <3>4 DEF processFate
    <3>5. CASE ~proc[p].stopped
      <4>1. processFate'[p] = processFate[p]
        BY <2>1, <3>2, <3>5 DEF processFate
      <4>2. processFate = [processFate EXCEPT ![p] = processFate[p]]
        BY DEF processFate
      <4>3. QED
        BY <3>2, <3>3, <4>1, <4>2
    <3>6. QED
      BY <3>4, <3>5
  <2>2. CASE proc[p].stage \notin {"grouped", "running"}
    <3>1. proc' = proc
      BY <1>7, <2>2 DEF kill_SIGCONT
    <3>2. QED
      BY <3>1 DEF processFate
  <2>3. QED
    BY <2>1, <2>2
<1>9. QED
  BY <1>3, <1>5, <1>6, <1>8 DEF JC!Resume

(* Reaping a child is NoticeEnd.                                           *)
LEMMA ReapEndedIsNoticeEnd ==
    ASSUME ShellInv, ShellInv', NEW p \in Pid, ReapEnded(p)
    PROVE  JC!NoticeEnd(p)
<1>1. /\ proc[p].stage = "zombie" /\ proc'[p].stage = "none"
      /\ \A q \in Pid \ {p} : proc'[q] = proc[q]
  BY ReapEndedEffect DEF ShellInv, TypeOK, ProcessesTypeOK, NoProcess
<1>2. processFate[p] = "ended" /\ processFate'[p] = "none"
  BY <1>1 DEF processFate
<1>3. processFate' = [processFate EXCEPT ![p] = "none"]
  BY <1>1, <1>2, FateSteps
<1>4. jobView' = [jobView EXCEPT ![p] = "none"]
  <2>1. CASE /\ \A j \in Jid : ~(Listed(j) /\ job_list[j].pid = p)
             /\ \A j \in Jid : job_list'[j] = job_list[j]
    <3>1. jobView[p] = "none" /\ jobView' = jobView
      BY <2>1, ViewFacts, SameView DEF ShellInv, TypeOK, ViewShowsState
    <3>2. jobView = [q \in Pid |-> jobView[q]]
      BY DEF jobView
    <3>3. QED
      BY <3>1, <3>2
  <2>2. ASSUME NEW n \in Jid, Listed(n), job_list[n].pid = p, ~Listed(n)',
               \A j \in Jid \ {n} : job_list'[j] = job_list[j]
        PROVE  jobView' = [jobView EXCEPT ![p] = "none"]
    BY <2>2, OneSlotView
  <2>3. QED
    BY <2>1, <2>2, ReapEndedEffect
<1>5. QED
  BY <1>2, <1>3, <1>4 DEF JC!NoticeEnd

(* Marking a job as stopped is NoticeStop.                                 *)
LEMMA MarksStoppedIsNoticeStop ==
    ASSUME ShellInv, ShellInv', NEW p \in Pid, MarksStopped(p)
    PROVE  JC!NoticeStop(p)
<1>1. /\ Alive(p) /\ proc[p].stopped
      /\ \A q \in Pid : /\ proc'[q].stage = proc[q].stage
                        /\ proc'[q].stopped = proc[q].stopped
  BY MarksStoppedEffect
<1>2. PICK n \in Jid : /\ Listed(n) /\ job_list[n].pid = p
                       /\ job_list'[n].pid = p
                       /\ job_list'[n].state = "ST"
                       /\ \A j \in Jid \ {n} : job_list'[j] = job_list[j]
  BY MarksStoppedEffect
<1>3. processFate[p] = "stopped" /\ processFate' = processFate
  BY <1>1, FateSteps DEF Alive, processFate
<1>4. Listed(n)'
  BY <1>2 DEF Listed
<1>5. /\ jobView' = [jobView EXCEPT ![p] = "ST"]
      /\ jobView[p] = job_list[n].state
  BY <1>2, <1>4, OneSlotView
<1>6. jobView[p] # "none"
  BY <1>2, <1>5 DEF ShellInv, TypeOK, JobListTypeOK, Job, JobState
<1>7. QED
  BY <1>3, <1>5, <1>6 DEF JC!NoticeStop

(* A step of a child is Happens, or unseen.                                *)
LEMMA ChildStepHappens ==
    ASSUME ShellInv, NEW p \in Pid, ChildStep(p)
    PROVE  JC!Happens(p) \/ UNCHANGED <<jobView, processFate>>
<1> USE DEF Scheduled, Alive, processFate
<1>1. proc \in [Pid -> Process] /\ TypeOK /\ ControlConsistent
  BY DEF ShellInv, TypeOK, ProcessesTypeOK
<1>2. jobView' = jobView
  BY SameView DEF ChildStep, listVars
<1>3. /\ \A q \in Pid \ {p} : proc'[q] = proc[q]
      /\ processFate' = [processFate EXCEPT ![p] = processFate'[p]]
      /\ processFate = [processFate EXCEPT ![p] = processFate[p]]
  BY <1>1, ChildStepFacts, FateSteps
<1>4. \/ processFate'[p] = processFate[p]
      \/ processFate[p] = "running" /\ processFate'[p] = "stopped"
      \/ processFate[p] = "stopped" /\ processFate'[p] = "running"
      \/ processFate[p] \in {"running", "stopped"} /\ processFate'[p] = "ended"
  <2>1. CASE ChildExecFails(p) \/ ProgramEnds(p) \/ OtherKills(p)
    <3>1. Alive(p) /\ proc'[p].stage = "zombie"
      BY <1>1, <2>1 DEF ChildExecFails, ProgramEnds, OtherKills, Zombie, NoProcess
    <3>2. QED
      BY <3>1
  <2>2. CASE OtherContinues(p)
    <3>1. Alive(p) /\ proc[p].stopped /\ proc'[p] = Continued(proc[p])
      BY <1>1, <2>2 DEF OtherContinues
    <3>2. proc'[p].stage = proc[p].stage /\ ~proc'[p].stopped
      BY <1>1, <3>1 DEF Continued, Process
    <3>3. QED
      BY <3>1, <3>2
  <2>3. CASE ChildSetpgid(p) \/ ChildExec(p)
    BY <1>1, <2>3 DEF ChildSetpgid, ChildExec, Process
  <2>4. CASE ChildStops(p)
    BY <1>1, <2>4 DEF ChildStops, Process
  <2>5. CASE \E s \in KeyboardSignal : ProgramHandles(p, s)
    BY <1>1, <2>5 DEF ProgramHandles, Process
  <2>6. QED
    BY <2>1, <2>2, <2>3, <2>4, <2>5 DEF ChildStep
<1>5. QED
  <2> HIDE DEF processFate
  <2>1. QED
    BY <1>2, <1>3, <1>4 DEF JC!Happens

(* The end of the shell is ShellGone.                                      *)
LEMMA EndsIsShellGone ==
    ASSUME NEW how, NEW why, Ends(how, why)
    PROVE  JC!ShellGone
<1>1. /\ \A j \in Jid : job_list'[j].state = "UNDEF"
      /\ \A p \in Pid : proc'[p].stage = "none"
  BY EndsEffect
<1>2. jobView' = [p \in Pid |-> "none"]
  BY <1>1 DEF jobView, Listed
<1>3. processFate' = [p \in Pid |-> "none"]
  BY <1>1 DEF processFate
<1>4. QED
  BY <1>2, <1>3 DEF JC!ShellGone

(* Every step of the shell is a step that JobControl allows, or shows the  *)
(* user nothing.                                                           *)
LEMMA RefinementStep ==
    ShellInv /\ [Next]_vars => [JC!JCNext]_(JC!jcVars)
<1> SUFFICES ASSUME ShellInv, [Next]_vars PROVE [JC!JCNext]_(JC!jcVars)
  OBVIOUS
<1>1. ShellInv'
  BY ShellInvStep
<1>2. ASSUME NEW how, NEW why, Ends(how, why) PROVE JC!JCNext
  BY <1>2, EndsIsShellGone DEF JC!JCNext
<1>3. CASE UNCHANGED <<listVars, proc>>
  BY <1>3, SameView, FateSteps DEF listVars, JC!jcVars
<1>4. ASSUME NEW p \in Pid, NEW s \in {"FG", "BG"}, EvalFork(p, s) PROVE JC!JCNext
  BY <1>4, EvalForkIsLaunch DEF JC!JCNext
<1>5. CASE Adds
  BY <1>1, <1>5, AddsIsRecord DEF JC!JCNext
<1>6. ASSUME NEW jid \in Jid, NEW s \in {"FG", "BG"}, Continues(jid, s) PROVE JC!JCNext
  BY <1>1, <1>6, ContinuesIsResume DEF JC!JCNext
<1>7. ASSUME NEW s \in KeyboardSignal, KeyboardHandler(s) PROVE UNCHANGED JC!jcVars
  <2>1. \A q \in Pid : /\ proc'[q].stage = proc[q].stage
                       /\ proc'[q].stopped = proc[q].stopped
    BY <1>7, KeyboardHandlerFacts DEF ShellInv
  <2>2. job_list' = job_list
    BY <1>7 DEF KeyboardHandler, Deliver, listVars
  <2>3. QED
    BY <2>1, <2>2, SameView, FateSteps DEF JC!jcVars
<1>8. ASSUME NEW p \in Pid, ReapEnded(p) PROVE JC!JCNext
  BY <1>1, <1>8, ReapEndedIsNoticeEnd DEF JC!JCNext
<1>9. ASSUME NEW p \in Pid, MarksStopped(p) PROVE JC!JCNext
  BY <1>1, <1>9, MarksStoppedIsNoticeStop DEF JC!JCNext
<1>10. ASSUME NEW p \in Pid, ChildStep(p) PROVE [JC!JCNext]_(JC!jcVars)
  BY <1>10, ChildStepHappens DEF JC!JCNext, JC!jcVars
<1>11. QED
  BY <1>2, <1>3, <1>4, <1>5, <1>6, <1>7, <1>8, <1>9, <1>10, StepKinds

(* The shell starts as JobControl does.                                    *)
LEMMA RefinementInit == Init => JC!JCInit
<1> SUFFICES ASSUME Init PROVE JC!JCInit
  OBVIOUS
<1>1. \A j \in Jid : ~Listed(j)
  BY DEF Init, init_job_list, NoJob, Listed
<1>2. \A p \in Pid : proc[p].stage = "none"
  BY DEF Init, ProcessesInit, NoProcess
<1>3. QED
  BY <1>1, <1>2 DEF JC!JCInit, jobView, processFate

(* eval, the built-ins and the handlers together show the user the job     *)
(* control that JobControl promises.                                       *)
THEOREM ShellRefines == Spec => ImplementsJobControl
<1>1. Spec => JC!JCSpec
  BY RefinementInit, RefinementStep, ShellInvariant, PTL DEF Spec, JC!JCSpec
<1>2. QED
  BY <1>1 DEF ImplementsJobControl

=============================================================================
