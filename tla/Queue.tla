------------------------------- MODULE Queue --------------------------------
(***************************************************************************)
(* The queue of the C programming lab, cprogramminglab-handout/queue.c: a  *)
(* singly linked list on the heap of the harness, with a header that keeps *)
(* the head, the tail and the size.                                        *)
(*                                                                         *)
(* A routine that cannot loop is one action; q_reverse is an action per    *)
(* turn of its loop, for the tester's alarm may strike between two.  A     *)
(* string is its length: strings of a test differ in length.               *)
(***************************************************************************)
EXTENDS Harness, Sequences, SequencesExt

CONSTANTS
    MaxSize,    \* bound: elements of the queue
    MaxString,  \* bound: length of a string
    SIZE_MAX    \* largest size_t

ASSUME SizeMaxAssumption ==
    /\ MaxSize \in Nat /\ MaxString \in Nat
    /\ SIZE_MAX \in Nat /\ MaxString < SIZE_MAX

VARIABLES
    q,          \* the tester's pointer to the queue
    rev,        \* the variables of q_reverse while it runs
    result,     \* what the last routine returned
    copied      \* what the last call wrote, if it was q_remove_head

queueVars == <<q, rev, result, copied>>
vars == <<harnessVars, queueVars>>

NotReversing == [temp |-> NULL, end |-> NULL, turns |-> 0, was |-> <<>>]
NothingCopied == [string |-> 0, bytes |-> 0, bufsize |-> 1]
Reversing == rev # NotReversing

QueueBlock(head, tail, size) ==
    [kind |-> "queue", head |-> head, tail |-> tail, size |-> size]
Element(next, value) == [kind |-> "element", next |-> next, value |-> value]
String(s) == [kind |-> "string", chars |-> s]

QueueInit ==
    /\ q = NULL
    /\ rev = NotReversing
    /\ result = TRUE
    /\ copied = NothingCopied

(* The elements from one on, in order; a walk of bounded length.           *)
Elements(first) ==
    LET walk[n \in 0..MaxSize] ==
            [p \in Addr \cup {NULL} |->
                IF n = 0 \/ p = NULL THEN <<>>
                ELSE IF heap[p].kind # "element" THEN <<>>
                ELSE <<p>> \o walk[n - 1][heap[p].next]]
    IN  walk[MaxSize][first]

Strings(first) ==
    LET e == Elements(first)
    IN  [i \in DOMAIN e |-> heap[heap[e[i]].value].chars]

(* The first element, or NULL if there is no queue or none in it.          *)
First == IF q = NULL THEN NULL ELSE heap[q].head

q_size == IF q = NULL THEN 0 ELSE heap[q].size

Quiet == copied' = NothingCopied /\ UNCHANGED <<modeVars, rev>>

-----------------------------------------------------------------------------

q_new(p) ==
    /\ CanAllocate({p})
    /\ heap' = [heap EXCEPT ![p] = QueueBlock(NULL, NULL, 0)]
    /\ q' = p
    /\ result' = TRUE
    /\ UNCHANGED <<error_occurred, ended>> /\ Quiet

q_new_fails ==
    /\ q' = NULL
    /\ result' = FALSE
    /\ UNCHANGED <<heap, error_occurred, ended>> /\ Quiet

(* From the head to the tail, each with its string, then the header.  A    *)
(* walk that does not meet the tail ends at NULL->next.                    *)
q_free ==
    LET e == Elements(First)
        last == {i \in DOMAIN e : e[i] = heap[q].tail}
        freed == {i \in DOMAIN e : \A l \in last : i <= l}
    IN  /\ test_free({q} \cup UNION {{e[i], heap[e[i]].value} : i \in freed},
                     e # <<>> /\ last = {})
        /\ q' = NULL
        /\ result' = TRUE
        /\ Quiet

-----------------------------------------------------------------------------
returns_false ==
    result' = FALSE /\ UNCHANGED <<heap, error_occurred, ended, q>> /\ Quiet

(* Both insertions allocate an element, then its string.                   *)

(* A bug: the element stays allocated when there is no room for its string.*)
insert_NoString_Leaks(p) ==
    /\ CanAllocate({p})
    /\ heap' = [heap EXCEPT ![p] = Element(NULL, NULL)]
    /\ result' = FALSE
    /\ UNCHANGED <<error_occurred, ended, q>> /\ Quiet

(* The string cannot be allocated: the element at p is freed again.        *)
insert_NoString(p) ==
    /\ CanAllocate({p})
    /\ returns_false

q_insert_head(s, p, v) ==
    LET h == heap[q]
    IN  /\ p # v /\ CanAllocate({p, v})
        /\ heap' = [heap EXCEPT
               ![v] = String(s),
               ![p] = Element(h.head, v),
               ![q] = QueueBlock(p, IF h.tail = NULL THEN p ELSE h.tail, h.size + 1)]
        /\ result' = TRUE
        /\ UNCHANGED <<error_occurred, ended, q>> /\ Quiet

(* The new element follows the one that tail points to.                    *)
q_insert_tail(s, p, v) ==
    LET h == heap[q]
        with == [heap EXCEPT ![v] = String(s), ![p] = Element(NULL, v)]
    IN  /\ p # v /\ CanAllocate({p, v})
        /\ IF h.size = 0
           THEN heap' = [with EXCEPT ![q] = QueueBlock(p, p, 1)]
           ELSE heap' = [a \in Addr |->
                    IF a = q THEN QueueBlock(h.head, p, h.size + 1)
                    ELSE IF a = h.tail /\ with[a].kind = "element"
                    THEN [with[a] EXCEPT !.next = p]
                    ELSE with[a]]
        /\ result' = TRUE
        /\ UNCHANGED <<error_occurred, ended, q>> /\ Quiet

-----------------------------------------------------------------------------

(* Characters copied into a buffer: bufsize - 1 of them, in a size_t, or   *)
(* the whole string.                                                       *)
remove_copies(s, bufsize) ==
    LET room == (bufsize - 1) % (SIZE_MAX + 1)
    IN  IF s < room THEN s ELSE room

q_remove_head(bufsize) ==
    LET h == heap[q]
        e == heap[h.head]
        s == heap[e.value].chars
        n == remove_copies(s, bufsize)
    IN  /\ h.head # NULL
        /\ heap' = HeapWithout([heap EXCEPT ![q] = QueueBlock(e.next, h.tail, h.size - 1)],
                               {h.head, e.value})
        /\ error_occurred' = (error_occurred \/ ~FreeIsLegal({h.head, e.value}))
        /\ ended' = IF noallocate_mode THEN "fatal" ELSE ended
        /\ copied' = [string |-> s, bytes |-> n + 1, bufsize |-> bufsize]
        /\ result' = TRUE
        /\ UNCHANGED <<q, rev, modeVars>>

q_remove_head_empty == First = NULL /\ returns_false

-----------------------------------------------------------------------------
(* q_reverse: the first element becomes the tail, behind the old tail, and *)
(* then each next one is put between the old tail and what follows it.     *)

ReverseHasNoEffect == First = NULL \/ heap[q].size = 1

reverse_start ==
    LET h == heap[q]
        first == heap[h.head].next
    IN  /\ heap' = [heap EXCEPT
               ![h.tail].next = h.head,
               ![h.head].next = NULL,
               ![q].tail = h.head]
        /\ rev' = [temp |-> first, end |-> h.tail, turns |-> 0,
                   was |-> Strings(h.head)]

(* A bug: the element is put behind the last one, not behind the old tail. *)
reverse_turn_AtTheEnd ==
    /\ rev.temp # rev.end
    /\ heap' = [heap EXCEPT ![heap[q].tail].next = rev.temp,
                            ![q].tail = rev.temp,
                            ![rev.temp].next = NULL]
    /\ rev' = [rev EXCEPT !.temp = heap[rev.temp].next, !.turns = @ + 1]

(* A bug: the next element to move is the one behind the old tail.         *)
reverse_turn_StepsBack ==
    /\ rev.temp # rev.end
    /\ heap' = [heap EXCEPT ![rev.end].next = rev.temp,
                            ![rev.temp].next = heap[rev.end].next]
    /\ rev' = [rev EXCEPT !.temp = heap[rev.end].next, !.turns = @ + 1]

reverse_turn ==
    /\ rev.temp # rev.end
    /\ heap' = [heap EXCEPT ![rev.end].next = rev.temp,
                            ![rev.temp].next = heap[rev.end].next]
    /\ rev' = [rev EXCEPT !.temp = heap[rev.temp].next, !.turns = @ + 1]

reverse_end ==
    /\ rev.temp = rev.end
    /\ heap' = [heap EXCEPT ![q].head = rev.temp]
    /\ rev' = NotReversing

=============================================================================
