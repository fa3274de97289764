-------------------------------- MODULE CSim --------------------------------
(***************************************************************************)
(* The cache simulator, cachelab/csim.c: sets of lines with a valid bit, a *)
(* dirty bit, the time of last use and a tag.  One step per instruction of *)
(* the trace: run() as a whole.                                            *)
(*                                                                         *)
(* Left out: the text of options and of the trace (an address is a number, *)
(* an instruction a load, a store or something else).  The trace may end   *)
(* after any instruction, and any of main's early returns may be taken.    *)
(***************************************************************************)
EXTENDS Integers, Sequences, FiniteSets

CONSTANTS
    Address,       \* addresses that occur in a trace
    setBits, numLines, blockBits,   \* the options -s, -E and -b
    MIN,        \* the time of use that evict takes for larger than any
    MaxTime     \* bound: instructions of a trace

ASSUME GeometryAssumption ==
    /\ Address \subseteq Nat
    /\ setBits \in Nat /\ blockBits \in Nat /\ numLines \in Nat \ {0}

(* "Assumes LRU counters are not larger than 100000000", csim.c:75.        *)
ASSUME MinAssumption == MaxTime \in Nat /\ MIN \in Nat /\ MaxTime < MIN

VARIABLES
    sets,       \* the allocated lines: sets[i][j] is line j of set i
    cacheInfo,  \* time and counters
    summary,    \* what printSummary has written
    simAt       \* where main is: "options", "trace" or "exited"

csimVars == <<sets, cacheInfo, summary, simAt>>

numSets == 2^setBits
blockSize == 2^blockBits
SetIndex == 0 .. numSets - 1
Lines == 0 .. numLines - 1

newCache ==
    [i \in SetIndex |-> [j \in Lines |->
        [valid |-> FALSE, dirty |-> FALSE, LRU |-> 0, tag |-> 0]]]

CSimInit ==
    /\ sets = <<>>
    /\ cacheInfo = [time |-> 0, hits |-> 0, misses |-> 0, evicts |-> 0,
                    dirtyEvicted |-> 0]
    /\ summary = <<>>
    /\ simAt = "options"

-----------------------------------------------------------------------------
getTag(addr) == addr \div 2^(setBits + blockBits)

getSetIndex(addr) == (addr \div 2^blockBits) % numSets

(* Strict comparison: of several lines as old, the first; and line 0 if    *)
(* every line is as young as MIN.                                          *)
evict(lines) ==
    LET old == {j \in Lines : lines[j].LRU < MIN}
    IN IF old = {} THEN 0
       ELSE CHOOSE j \in old : \A k \in old \ {j} :
                \/ lines[j].LRU < lines[k].LRU
                \/ lines[j].LRU = lines[k].LRU /\ j < k

dirtyInCache ==
    blockSize * Cardinality({p \in SetIndex \X Lines : sets[p[1]][p[2]].dirty})

(* A bug: a load that hits a dirty line makes it clean.                    *)
Touched_Cleans(line, store) ==
    [line EXCEPT !.LRU = cacheInfo.time + 1, !.dirty = store]

(* The line after a hit: a store makes it dirty, a load leaves it so.      *)
Touched(line, store) ==
    [line EXCEPT !.LRU = cacheInfo.time + 1, !.dirty = @ \/ store]

addLine(addr, j, store) ==
    sets' = [sets EXCEPT ![getSetIndex(addr)][j] =
        [valid |-> TRUE, dirty |-> store, LRU |-> cacheInfo.time + 1,
         tag |-> getTag(addr)]]

-----------------------------------------------------------------------------
(* The loop of run() stops at the first line that is not valid.            *)
Searched(lines) == {j \in Lines : \A k \in 0 .. j : lines[k].valid}

Matches(addr) ==
    LET lines == sets[getSetIndex(addr)]
    IN {j \in Searched(lines) : lines[j].tag = getTag(addr)}

Hit(addr, store) ==
    \E j \in Matches(addr) :
        /\ \A k \in Matches(addr) : j <= k
        /\ sets' = [sets EXCEPT ![getSetIndex(addr)][j] = Touched(@, store)]
        /\ cacheInfo' = [cacheInfo EXCEPT !.time = @ + 1, !.hits = @ + 1]

FillEmpty(addr, store) ==
    LET searched == Searched(sets[getSetIndex(addr)])
    IN /\ Matches(addr) = {}
       /\ searched # Lines
       /\ addLine(addr, Cardinality(searched), store)
       /\ cacheInfo' = [cacheInfo EXCEPT !.time = @ + 1, !.misses = @ + 1]

Replace(addr, store) ==
    LET lines == sets[getSetIndex(addr)]
        victim == evict(lines)
    IN /\ Matches(addr) = {}
       /\ Searched(lines) = Lines
       /\ addLine(addr, victim, store)
       /\ cacheInfo' = [cacheInfo EXCEPT
              !.time = @ + 1, !.misses = @ + 1, !.evicts = @ + 1,
              !.dirtyEvicted = @ + IF lines[victim].dirty THEN blockSize ELSE 0]

run(addr, store) ==
    \/ Hit(addr, store)
    \/ FillEmpty(addr, store)
    \/ Replace(addr, store)

-----------------------------------------------------------------------------
(* Unknown option, no memory, no trace file: main returns 0 all the same.  *)
StartFails ==
    /\ simAt = "options"
    /\ simAt' = "exited"
    /\ UNCHANGED <<sets, cacheInfo, summary>>

OpenTrace ==
    /\ simAt = "options"
    /\ simAt' = "trace"
    /\ sets' = newCache
    /\ UNCHANGED <<cacheInfo, summary>>

(* 'L' runs with sflag 0, 'S' with sflag 1.                                *)
Instruction(addr, store) ==
    /\ simAt = "trace"
    /\ cacheInfo.time < MaxTime
    /\ run(addr, store)
    /\ UNCHANGED <<summary, simAt>>

(* Anything else ends the program at once, without a summary.              *)
InvalidInstruction ==
    /\ simAt = "trace"
    /\ simAt' = "exited"
    /\ sets' = <<>>
    /\ UNCHANGED <<cacheInfo, summary>>

(* The dirty bytes are counted before freeCache.                           *)
EndOfTrace ==
    /\ simAt = "trace"
    /\ summary' = Append(summary, [info |-> cacheInfo, dirty |-> dirtyInCache])
    /\ sets' = <<>>
    /\ simAt' = "exited"
    /\ UNCHANGED cacheInfo

CSimNext ==
    \/ StartFails
    \/ OpenTrace
    \/ \E addr \in Address, store \in BOOLEAN : Instruction(addr, store)
    \/ InvalidInstruction
    \/ EndOfTrace

-----------------------------------------------------------------------------
(* The lines of a set as the abstract simulator has them: those in use,    *)
(* youngest first, under the number of the block they hold.                *)
Recency(i) ==
    LET lines   == sets[i]
        used    == {j \in Lines : lines[j].valid}
        At(n)   == CHOOSE j \in used :
                       Cardinality({k \in used : lines[k].LRU > lines[j].LRU}) = n - 1
        Item(j) == [block |-> lines[j].tag * numSets + i, dirty |-> lines[j].dirty]
    IN [n \in 1 .. Cardinality(used) |-> Item(At(n))]

Recent == [i \in SetIndex |-> IF sets = <<>> THEN <<>> ELSE Recency(i)]

Counters(info) ==
    [hits |-> info.hits, misses |-> info.misses, evicts |-> info.evicts,
     dirtyEvicted |-> info.dirtyEvicted]

Printed ==
    [n \in 1 .. Len(summary) |->
        [total |-> Counters(summary[n].info), dirty |-> summary[n].dirty]]

Simulator == INSTANCE LRUSim WITH
    Block <- {addr \div blockSize : addr \in Address},
    SetCount <- numSets,
    Ways <- numLines,
    BlockSize <- blockSize,
    recent <- Recent,
    tally <- Counters(cacheInfo),
    report <- Printed

(* The simulator of lines, times and tags is one of an LRU cache: every    *)
(* instruction hits, fills or replaces as the order of use demands, with   *)
(* the dirty bytes written back, and the one summary counts what happened  *)
(* and what is left (csim.c:155-218, 297-301).                             *)
ImplementsLRUSim == Simulator!Spec

=============================================================================
