------------------------------- MODULE Report -------------------------------
(***************************************************************************)
(* The memory accounts of cprogramminglab-handout/report.c.  Every block   *)
(* is counted when it is allocated and again, with the size that the       *)
(* caller gives, when it is freed.  mblimit, which no option sets, is 0:   *)
(* check_exceed lets everything pass.                                      *)
(***************************************************************************)
EXTENDS Integers, Sequences, SequencesExt

NothingAllocated ==
    [allocate_cnt |-> 0, allocate_bytes |-> 0, free_cnt |-> 0, free_bytes |-> 0,
     current_bytes |-> 0, peak_bytes |-> 0, last_peak_bytes |-> 0]

Larger(a, b) == IF a < b THEN b ELSE a

(* The accounts after a call that does not fail; one that does ends the    *)
(* program (fail_fun).                                                     *)
malloc_or_fail(mem, bytes) ==
    LET current == mem.current_bytes + bytes
    IN  [mem EXCEPT !.allocate_cnt = @ + 1,
                    !.allocate_bytes = @ + bytes,
                    !.current_bytes = current,
                    !.peak_bytes = Larger(@, current),
                    !.last_peak_bytes = Larger(@, current)]

calloc_or_fail(mem, cnt, bytes) == malloc_or_fail(mem, cnt * bytes)

strsave_or_fail(mem, len) == malloc_or_fail(mem, len + 1)

free_block(mem, bytes) ==
    [mem EXCEPT !.free_cnt = @ + 1,
                !.free_bytes = @ + bytes,
                !.current_bytes = @ - bytes]

free_array(mem, cnt, bytes) == free_block(mem, cnt * bytes)

free_string(mem, len) == free_block(mem, len + 1)

(* n blocks of one size.                                                   *)
MallocEach(mem, n, bytes) ==
    FoldLeft(LAMBDA m, i : malloc_or_fail(m, bytes), mem, [i \in 1..n |-> i])
FreeEach(mem, n, bytes) ==
    FoldLeft(LAMBDA m, i : free_block(m, bytes), mem, [i \in 1..n |-> i])

(* What was allocated and not freed, in blocks and in bytes.               *)
Outstanding(mem) == mem.allocate_cnt - mem.free_cnt

BooksBalance(mem) ==
    /\ mem.current_bytes = mem.allocate_bytes - mem.free_bytes
    /\ mem.current_bytes \in 0..mem.peak_bytes

=============================================================================
