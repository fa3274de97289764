------------------------------ MODULE JobList ------------------------------
(***************************************************************************)
(* The job list of the tiny shell, shelllab/tsh_helper.c: a static array   *)
(* of MAXJOBS slots and the next job ID to hand out.  Slot j is job ID j.  *)
(*                                                                         *)
(* The operators below are the routines of that file with their own names. *)
(* Those that read are state functions; those that write are actions over  *)
(* job_list and nextjid alone, whose fatal checks (abort, sio_assert) are  *)
(* operators of their own, for the caller decides what an abort means.     *)
(*                                                                         *)
(* Left out: the command line kept with a job (a private copy that only    *)
(* the printing reads) and the jid field (it repeats the slot's index).    *)
(***************************************************************************)
EXTENDS Integers

CONSTANTS
    Pid,        \* process IDs the kernel may hand out, all positive
    NoPid,      \* an integer that is no process ID: 0, -1, a cleared pid field
    MAXJOBS     \* number of slots; 64 in tsh_helper.h

ASSUME PidAssumption == NoPid \notin Pid
ASSUME MaxJobsAssumption == MAXJOBS \in Nat \ {0}

VARIABLES
    job_list,   \* the array of slots
    nextjid     \* next job ID to allocate

listVars == <<job_list, nextjid>>

Jid == 1..MAXJOBS
JobState == {"UNDEF", "FG", "BG", "ST"}
Job == [pid : Pid \cup {NoPid}, state : JobState]

JobListTypeOK ==
    /\ job_list \in [Jid -> Job]
    /\ nextjid \in 1..(MAXJOBS + 1)

-----------------------------------------------------------------------------

NoJob == [pid |-> NoPid, state |-> "UNDEF"]

init_job_list ==
    /\ job_list = [j \in Jid |-> NoJob]
    /\ nextjid = 1

destroy_job_list ==
    /\ job_list' = [j \in Jid |-> NoJob]
    /\ nextjid' = 1

job_exists(jid) == jid \in Jid /\ job_list[jid].state # "UNDEF"

(* The first of a set of slots, as a scan in slot order finds it; 0 if none. *)
FirstSlot(Slots) ==
    IF Slots = {} THEN 0
    ELSE CHOOSE j \in Slots : \A k \in Slots : j <= k

(* A bug: any job for the foreground job.                                  *)
fg_job_AnyState == FirstSlot({j \in Jid : job_list[j].state # "UNDEF"})

fg_job == FirstSlot({j \in Jid : job_list[j].state = "FG"})

job_from_pid(pid) ==
    FirstSlot({j \in Jid : job_list[j].state # "UNDEF" /\ job_list[j].pid = pid})

(* Largest allocated job ID of a given list, 0 when every slot is free.    *)
maxjid(list) ==
    LET Used == {j \in Jid : list[j].state # "UNDEF"}
    IN  IF Used = {} THEN 0
        ELSE CHOOSE j \in Used : \A k \in Used : k <= j

-----------------------------------------------------------------------------
(* add_job aborts on a second foreground job, and asserts that the slot of *)
(* nextjid is free.  With nextjid past the last slot it returns 0 and the  *)
(* process goes unrecorded.                                                *)

add_job_full == nextjid > MAXJOBS

add_job_slot_free == add_job_full \/ job_list[nextjid].state = "UNDEF"

(* A bug: no test for the end of the array.                                *)
add_job_NoLimit(pid, state) ==
    /\ job_list' = [job_list EXCEPT ![nextjid] = [pid |-> pid, state |-> state]]
    /\ nextjid' = nextjid + 1

add_job(pid, state) ==
    IF add_job_full
    THEN UNCHANGED listVars
    ELSE /\ job_list' = [job_list EXCEPT ![nextjid] =
                            [pid |-> pid, state |-> state]]
         /\ nextjid' = nextjid + 1

(* A bug: nextjid is stepped back instead of recomputed.                   *)
delete_job_StepsBack(jid) ==
    IF job_exists(jid)
    THEN /\ job_list' = [job_list EXCEPT ![jid] = NoJob]
         /\ nextjid' = nextjid - 1
    ELSE UNCHANGED listVars

(* delete_job of a job ID that does not exist returns false.               *)
delete_job(jid) ==
    IF job_exists(jid)
    THEN /\ job_list' = [job_list EXCEPT ![jid] = NoJob]
         /\ nextjid' = maxjid([job_list EXCEPT ![jid] = NoJob]) + 1
    ELSE UNCHANGED listVars

(* job_set_state aborts unless the job exists (require_job_exists) and,    *)
(* for FG, no job is in the foreground (require_valid_state).              *)
require_job_exists(jid) == job_exists(jid)

require_valid_state(state) == state = "FG" => fg_job = 0

job_set_state(jid, state) ==
    /\ job_list' = [job_list EXCEPT ![jid].state = state]
    /\ UNCHANGED nextjid

-----------------------------------------------------------------------------

Listed(jid) == job_list[jid].state # "UNDEF"

(* nextjid is one past the largest job ID in use, so that add_job always   *)
(* takes a free slot whatever jobs ended in whatever order (add_job's      *)
(* sio_assert and delete_job, tsh_helper.c).                               *)
NextJidIsOnePastLargest ==
    /\ nextjid > 1 => Listed(nextjid - 1)
    /\ \A j \in Jid : Listed(j) => j < nextjid

=============================================================================
