------------------------------ MODULE Harness -------------------------------
(***************************************************************************)
(* The test harness of the queue lab, cprogramminglab-handout/harness.c:   *)
(* its malloc and free with their checks, the mode in which neither may be *)
(* called, and the exceptions that take the tester out of a risky          *)
(* operation.                                                              *)
(*                                                                         *)
(* The operators describe one call; a routine that makes several calls     *)
(* combines them.  The list of allocated blocks is the set of addresses    *)
(* that hold a block.  Left out: the magic numbers around a block (nothing *)
(* here writes past one) and the byte that fills a new one.                *)
(***************************************************************************)
EXTENDS Integers, FiniteSets

CONSTANTS
    Addr,       \* addresses that malloc may return
    NULL,       \* the null pointer
    Nearest     \* bound: malloc returns one of so many lowest free addresses

ASSUME AddrAssumption == Addr \subseteq Nat /\ IsFiniteSet(Addr) /\ NULL \notin Addr
ASSUME NearestAssumption == Nearest \in Nat \ {0}

VARIABLES
    heap,           \* the block at each address
    error_occurred, \* a check failed since the last error_check
    noallocate_mode,\* calls to malloc and free are disallowed
    jmp_ready,      \* exception_setup was called and not cancelled
    time_limited,   \* it set the alarm
    alarm,          \* the kernel's alarm is set
    ended           \* how the tester's process ended, or "no"

modeVars == <<noallocate_mode, jmp_ready, time_limited, alarm>>
harnessVars == <<heap, error_occurred, modeVars, ended>>

FreeBlock == [kind |-> "free"]

allocated == {p \in Addr : heap[p].kind # "free"}

HarnessInit ==
    /\ heap = [p \in Addr |-> FreeBlock]
    /\ error_occurred = FALSE
    /\ noallocate_mode = FALSE
    /\ jmp_ready = FALSE /\ time_limited = FALSE /\ alarm = FALSE
    /\ ended = "no"

-----------------------------------------------------------------------------

(* Addresses that n calls of test_malloc may return, in order.  A call in  *)
(* noallocate_mode ends the tester, which is an action of its own.         *)
CanAllocate(Ptrs) ==
    /\ ~noallocate_mode
    /\ Ptrs \cap allocated = {}
    /\ \A p \in Ptrs :
          Cardinality({r \in Addr \ (allocated \cup Ptrs) : r < p}) < Nearest

(* What test_free of each of some pointers asks: each must be the        *)
(* address of an allocated block (find_header, in cautious mode).  NULL is *)
(* ignored.                                                                *)
FreeIsLegal(Ptrs) == Ptrs \ {NULL} \subseteq allocated

HeapWithout(h, Ptrs) == [p \in Addr |-> IF p \in Ptrs THEN FreeBlock ELSE h[p]]

test_free(Ptrs, faults) ==
    /\ heap' = HeapWithout(heap, Ptrs)
    /\ error_occurred' = (error_occurred \/ ~FreeIsLegal(Ptrs))
    /\ ended' = IF noallocate_mode THEN "fatal" ELSE IF faults THEN "segv" ELSE ended

error_check == error_occurred' = FALSE

set_noallocate_mode(on) == noallocate_mode' = on

-----------------------------------------------------------------------------
(* Exceptions.  The alarm's handler is the tester's: it calls              *)
(* trigger_exception, which jumps back into exception_setup or, when no    *)
(* operation is set up, ends the process.                                  *)

exception_setup(limit_time) ==
    /\ jmp_ready' = TRUE
    /\ time_limited' = (time_limited \/ limit_time)
    /\ alarm' = (alarm \/ limit_time)

(* A bug: the alarm stays set.                                             *)
cancel_alarm_LeavesAlarm == time_limited' = FALSE /\ UNCHANGED alarm

(* exception_cancel, in the order of its statements: first the alarm ...   *)
cancel_alarm ==
    /\ alarm' = IF time_limited THEN FALSE ELSE alarm
    /\ time_limited' = FALSE

(* ... then the place to jump to.                                          *)
cancel_jump == jmp_ready' = FALSE

trigger_exception ==
    /\ error_occurred' = TRUE
    /\ IF jmp_ready
       THEN /\ jmp_ready' = FALSE
            /\ time_limited' = FALSE
            /\ alarm' = FALSE
            /\ UNCHANGED ended
       ELSE /\ ended' = "exit"
            /\ alarm' = FALSE
            /\ UNCHANGED <<jmp_ready, time_limited>>

=============================================================================
