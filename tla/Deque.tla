------------------------------- MODULE Deque --------------------------------
(***************************************************************************)
(* What the queue promises (the comments of queue.c): a sequence that is   *)
(* inserted into at both ends, taken from at the head and reversed, whose  *)
(* routines return TRUE exactly when they did so.                          *)
(***************************************************************************)
EXTENDS Sequences, SequencesExt

CONSTANT Item

VARIABLES
    items,      \* the queue's contents
    size,       \* what q_size returns
    exists,     \* there is a queue
    result      \* what the last routine returned

vars == <<items, size, exists, result>>

Init == items = <<>> /\ size = 0 /\ exists = FALSE /\ result = TRUE

Holds(new) == items' = new /\ size' = Len(new) /\ result' = TRUE

Does(new) == Holds(new) /\ UNCHANGED exists

New == ~exists /\ exists' = TRUE /\ Holds(<<>>)

Free == exists /\ exists' = FALSE /\ Holds(<<>>)

InsertHead == exists /\ \E s \in Item : Does(<<s>> \o items)

InsertTail == exists /\ \E s \in Item : Does(Append(items, s))

RemoveHead == exists /\ items # <<>> /\ Does(Tail(items))

DoesReverse == exists /\ Does(Reverse(items))

Fails == result' = FALSE /\ UNCHANGED <<items, size, exists>>

Next == New \/ Free \/ InsertHead \/ InsertTail \/ RemoveHead \/ DoesReverse \/ Fails

Spec == Init /\ [][Next]_vars

=============================================================================
