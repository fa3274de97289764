----------------------------- MODULE QueueTest ------------------------------
(***************************************************************************)
(* A test of the queue under the harness, as the trace files of the lab    *)
(* describe it: any sequence of new, ih, it, rh, reverse and free, with    *)
(* malloc failing now and then (option fail).  reverse runs with           *)
(* allocation disallowed and under the time limit, which may expire.       *)
(***************************************************************************)
EXTENDS Queue

CONSTANT HeadAfterEmptying  \* the test may insert at the head of a queue
                            \* that removals have emptied

ASSUME TestAssumption == HeadAfterEmptying \in BOOLEAN

VARIABLES
    at,         \* where the tester is in the call of q_reverse, or "idle"
    emptied     \* q_remove_head has emptied the queue, and nothing was
                \* inserted since

testVars == <<vars, at, emptied>>

TestInit ==
    /\ HarnessInit /\ QueueInit
    /\ at = "idle" /\ emptied = FALSE

(* The tester reports the errors of a command before the next one.  The    *)
(* test ends when the alarm has broken q_reverse off: rev stays as it was, *)
(* and the list is in pieces.                                              *)
Ready == ended = "no" /\ at = "idle" /\ ~Reversing /\ ~error_occurred

Strings1 == 0..MaxString

New ==
    /\ Ready /\ q = NULL
    /\ q_new_fails \/ \E p \in Addr : q_new(p)
    /\ emptied' = FALSE
    /\ UNCHANGED at

Free ==
    /\ Ready /\ q # NULL
    /\ q_free
    /\ UNCHANGED <<at, emptied>>

(* q is NULL, or one of the two calls of malloc returns NULL.              *)
InsertFails ==
    /\ Ready
    /\ \/ returns_false
       \/ q # NULL /\ \E p \in Addr : insert_NoString(p)
    /\ UNCHANGED <<at, emptied>>

InsertHead ==
    /\ Ready /\ q # NULL /\ heap[q].size < MaxSize
    /\ emptied => HeadAfterEmptying
    /\ \E s \in Strings1, p, v \in Addr : q_insert_head(s, p, v)
    /\ emptied' = FALSE
    /\ UNCHANGED at

InsertTail ==
    /\ Ready /\ q # NULL /\ heap[q].size < MaxSize
    /\ \E s \in Strings1, p, v \in Addr : q_insert_tail(s, p, v)
    /\ emptied' = FALSE
    /\ UNCHANGED at

RemoveHead ==
    /\ Ready
    /\ \/ q_remove_head_empty /\ UNCHANGED emptied
       \/ /\ q # NULL
          /\ \E bufsize \in 0..(MaxString + 1) : q_remove_head(bufsize)
          /\ emptied' = (heap'[q].head = NULL)
    /\ UNCHANGED at

-----------------------------------------------------------------------------
(* The tester disallows allocation and sets the time limit, calls          *)
(* q_reverse, and undoes both.                                             *)

Moves(from, to) == ended = "no" /\ at = from /\ at' = to

Disallow ==
    /\ Ready /\ q # NULL
    /\ at' = "setup"
    /\ set_noallocate_mode(TRUE)
    /\ exception_setup(TRUE)
    /\ copied' = NothingCopied
    /\ UNCHANGED <<heap, error_occurred, ended, q, rev, result, emptied>>

ReverseCall ==
    /\ IF ReverseHasNoEffect
       THEN Moves("setup", "returned") /\ UNCHANGED <<heap, rev>>
       ELSE Moves("setup", "looping") /\ reverse_start
    /\ UNCHANGED <<error_occurred, modeVars, ended, q, result, copied, emptied>>

ReverseTurn ==
    /\ Moves("looping", "looping")
    /\ reverse_turn
    /\ UNCHANGED <<error_occurred, modeVars, ended, q, result, copied, emptied>>

ReverseReturn ==
    /\ Moves("looping", "returned")
    /\ reverse_end
    /\ result' = TRUE
    /\ UNCHANGED <<error_occurred, modeVars, ended, q, copied, emptied>>

CancelAlarm ==
    /\ Moves("returned", "cancelling")
    /\ cancel_alarm
    /\ UNCHANGED <<heap, error_occurred, noallocate_mode, jmp_ready, ended,
                   queueVars, emptied>>

CancelJump ==
    /\ Moves("cancelling", "idle")
    /\ cancel_jump
    /\ set_noallocate_mode(FALSE)
    /\ UNCHANGED <<heap, error_occurred, time_limited, alarm, ended,
                   queueVars, emptied>>

(* The alarm goes off: the tester jumps out of the call, if it is in one.  *)
Alarm ==
    /\ ended = "no" /\ alarm
    /\ trigger_exception
    /\ at' = "idle"
    /\ noallocate_mode' = FALSE
    /\ UNCHANGED <<heap, queueVars, emptied>>

(* The tester reports the errors of a command and goes on.                 *)
ErrorCheck ==
    /\ ended = "no" /\ at = "idle" /\ error_occurred
    /\ error_check
    /\ UNCHANGED <<heap, modeVars, ended, queueVars, at, emptied>>

TestNext ==
    \/ New \/ Free \/ InsertFails \/ InsertHead \/ InsertTail \/ RemoveHead
    \/ Disallow \/ ReverseCall \/ ReverseTurn \/ ReverseReturn
    \/ CancelAlarm \/ CancelJump \/ Alarm \/ ErrorCheck

TestSpec == TestInit /\ [][TestNext]_testVars

-----------------------------------------------------------------------------
(* The elements in the order of the links; while q_reverse moves them, as  *)
(* they were.                                                              *)
D == INSTANCE Deque WITH
    Item <- Strings1,
    exists <- q # NULL,
    size <- q_size,
    items <- IF Reversing THEN rev.was ELSE Strings(First)

(* Whatever the order of insertions at both ends, removals and reversals,  *)
(* and whichever call of malloc fails, the linked list behaves as the      *)
(* sequence that the comments of queue.c describe, until the alarm breaks  *)
(* q_reverse off.                                                          *)
ImplementsDeque == D!Spec

(* What is allocated is the header and every element with its string, so   *)
(* a failed insertion, a removal and q_free give back all they should.     *)
OnlyTheQueueIsAllocated ==
    ~Reversing =>
        LET e == Elements(First)
        IN  allocated = ({q} \ {NULL})
                        \cup UNION {{e[i], heap[e[i]].value} : i \in DOMAIN e}

(* The loop of q_reverse runs for the elements between the old head and    *)
(* the old tail, and does not miss the end.                                *)
ReverseTurnsBounded == Reversing => rev.turns <= Len(rev.was) - 2

(* "Copies removed string into sp up to a maximum of (bufsize - 1)         *)
(* characters": q_remove_head stays inside a buffer of at least one byte,  *)
(* and a string that fits is copied whole.                                 *)
RemoveFits ==
    /\ copied.bufsize > 0 => copied.bytes <= copied.bufsize
    /\ copied.bufsize > copied.string => copied.bytes \in {0, copied.string + 1}

(* The tester survives every command: no block is freed that is not        *)
(* allocated, no call of malloc or free is made where none is allowed,     *)
(* nothing is written behind its buffer, and the alarm never finds the     *)
(* tester with nowhere to jump to (harness.c:304): an error is the time    *)
(* limit's.                                                                *)
TesterSurvives ==
    [][/\ ended' = "no"
       /\ RemoveFits'
       /\ error_occurred' => error_occurred \/ alarm]_testVars

=============================================================================
