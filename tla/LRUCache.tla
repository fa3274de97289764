------------------------------ MODULE LRUCache ------------------------------
(***************************************************************************)
(* What a cache with least-recently-used replacement promises: its entries *)
(* in order of use, most recent first, at most one per key.  To make room  *)
(* for a new entry it drops the entry used longest ago, and drops one only *)
(* while there is no room.                                                 *)
(***************************************************************************)
EXTENDS Integers, Sequences, SequencesExt

CONSTANTS
    Key,        \* keys of entries
    Size,       \* sizes of entries
    Capacity,   \* total size the cache may hold
    Nothing     \* no entry is being added

VARIABLES
    entries,    \* sequence of [uri, size], most recently used first
    adding,     \* the entry being added, or Nothing
    last        \* the key asked for last

vars == <<entries, adding, last>>

Used == FoldSeq(LAMBDA e, sum : e.size + sum, 0, entries)

Init == entries = <<>> /\ adding = Nothing /\ last = Nothing

Use(i) ==
    /\ adding = Nothing
    /\ entries' = <<entries[i]>> \o RemoveAt(entries, i)
    /\ last' = entries[i].uri
    /\ UNCHANGED adding

BeginAdd(key, size) ==
    /\ adding = Nothing
    /\ \A i \in 1..Len(entries) : entries[i].uri # key
    /\ adding' = [uri |-> key, size |-> size]
    /\ last' = key
    /\ UNCHANGED entries

Drop ==
    /\ adding # Nothing
    /\ Used + adding.size > Capacity
    /\ entries # <<>>
    /\ entries' = Front(entries)
    /\ UNCHANGED <<adding, last>>

FinishAdd ==
    /\ adding # Nothing
    /\ Used + adding.size <= Capacity
    /\ entries' = <<adding>> \o entries
    /\ adding' = Nothing
    /\ UNCHANGED last

Next ==
    \/ \E i \in 1..Len(entries) : Use(i)
    \/ \E key \in Key, size \in Size : BeginAdd(key, size)
    \/ Drop
    \/ FinishAdd

Spec == Init /\ [][Next]_vars

=============================================================================
