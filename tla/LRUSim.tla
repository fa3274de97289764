------------------------------- MODULE LRUSim -------------------------------
(***************************************************************************)
(* What a simulator of a set-associative, write-back cache with            *)
(* least-recently-used replacement promises.  Each set is a sequence of    *)
(* blocks, the one used last first; there are no lines, times or tags.     *)
(***************************************************************************)
EXTENDS Integers, Sequences, FiniteSets, SequencesExt

CONSTANTS
    Block,      \* block numbers a trace may use
    SetCount,   \* number of sets
    Ways,       \* blocks that fit in a set
    BlockSize   \* bytes of a block

VARIABLES
    recent,     \* the blocks of each set, the one used last first
    tally,      \* hits, misses, evictions and dirty bytes evicted
    report      \* what has been printed

vars == <<recent, tally, report>>

SetOf(blk) == blk % SetCount

Empty == [i \in 0 .. SetCount - 1 |-> <<>>]

Init ==
    /\ recent = Empty
    /\ tally = [hits |-> 0, misses |-> 0, evicts |-> 0, dirtyEvicted |-> 0]
    /\ report = <<>>

Fresh(blk, store) == <<[block |-> blk, dirty |-> store]>>

Hit(blk, store, i) ==
    LET order == recent[SetOf(blk)]
    IN /\ order[i].block = blk
       /\ recent' = [recent EXCEPT ![SetOf(blk)] =
              Fresh(blk, order[i].dirty \/ store) \o RemoveAt(order, i)]
       /\ tally' = [tally EXCEPT !.hits = @ + 1]
       /\ UNCHANGED report

Missing(blk) ==
    \A i \in 1 .. Len(recent[SetOf(blk)]) : recent[SetOf(blk)][i].block # blk

Fill(blk, store) ==
    /\ Missing(blk)
    /\ Len(recent[SetOf(blk)]) < Ways
    /\ recent' = [recent EXCEPT ![SetOf(blk)] = Fresh(blk, store) \o @]
    /\ tally' = [tally EXCEPT !.misses = @ + 1]
    /\ UNCHANGED report

(* A full set gives up the block used longest ago, and writes it back if   *)
(* it is dirty.                                                            *)
Replace(blk, store) ==
    LET order == recent[SetOf(blk)]
    IN /\ Missing(blk)
       /\ Len(order) = Ways
       /\ recent' = [recent EXCEPT ![SetOf(blk)] = Fresh(blk, store) \o Front(@)]
       /\ tally' = [tally EXCEPT
              !.misses = @ + 1, !.evicts = @ + 1,
              !.dirtyEvicted = @ + IF Last(order).dirty THEN BlockSize ELSE 0]
       /\ UNCHANGED report

DirtyPlaces ==
    {p \in (0 .. SetCount - 1) \X (1 .. Ways) :
        p[2] <= Len(recent[p[1]]) /\ recent[p[1]][p[2]].dirty}

DirtyBytes == BlockSize * Cardinality(DirtyPlaces)

Report ==
    /\ report = <<>>
    /\ report' = <<[total |-> tally, dirty |-> DirtyBytes]>>
    /\ recent' = Empty
    /\ UNCHANGED tally

GiveUp ==
    /\ recent' = Empty
    /\ UNCHANGED <<tally, report>>

Next ==
    \/ \E blk \in Block, store \in BOOLEAN :
          \/ \E i \in 1 .. Len(recent[SetOf(blk)]) : Hit(blk, store, i)
          \/ Fill(blk, store)
          \/ Replace(blk, store)
    \/ Report
    \/ GiveUp

Spec == Init /\ [][Next]_vars

=============================================================================
