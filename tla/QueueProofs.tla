---------------------------- MODULE QueueProofs -----------------------------
(***************************************************************************)
(* The queue's list under its tester, for every set of addresses, every    *)
(* bound on its elements and on their strings, as long as nothing is       *)
(* inserted at the head of a queue that removals have emptied.             *)
(***************************************************************************)
EXTENDS QueueTest, NaturalsInduction, WellFoundedInduction, SequenceTheorems, TLAPS

(* The m elements s[1], s[2] ... of a queue, linked in whatever order link *)
(* says, with their strings v[i] of length c[i]; beside them and the       *)
(* header nothing is allocated.                                            *)
Cells(s, v, c, link, m) ==
    /\ \A i, j \in 1 .. m : s[i] = s[j] \/ v[i] = v[j] => i = j
    /\ \A i \in 1 .. m : /\ heap[s[i]] = Element(link[i], v[i])
                         /\ heap[v[i]] = String(c[i])
    /\ \A p \in Addr : \/ heap[p].kind = "free" \/ p = q
                       \/ \E i \in 1 .. m : p = s[i] \/ p = v[i]

(* Each element is linked to the next one, the last one to nothing.        *)
InOrder(s, m) == [i \in 1 .. m |-> IF i = m THEN NULL ELSE s[i + 1]]

(* The header, and the elements in order.  The tail of an empty queue is   *)
(* NULL until a removal empties it.                                        *)
Chained(s, v, c, m) ==
    /\ Cells(s, v, c, InOrder(s, m), m)
    /\ heap[q] = QueueBlock(IF m = 0 THEN NULL ELSE s[1], heap[q].tail, m)
    /\ m > 0 => heap[q].tail = s[m]
    /\ m = 0 /\ ~emptied => heap[q].tail = NULL

(* After k turns of q_reverse: the first k + 1 elements are linked         *)
(* backwards behind the old tail, and the ones from there to it forwards.  *)
TurnedRound(s, m, k) ==
    [i \in 1 .. m |-> IF i = m THEN s[k + 1]
                      ELSE IF i > k + 1 THEN s[i + 1]
                      ELSE IF i = 1 THEN NULL ELSE s[i - 1]]

PartlyReversed(s, v, c, m, k) ==
    /\ k \in 0 .. m - 2
    /\ Cells(s, v, c, TurnedRound(s, m, k), m)
    /\ heap[q] = QueueBlock(s[1], s[1], m)
    /\ rev = [temp |-> s[k + 2], end |-> s[m], turns |-> k, was |-> c]

HeapIsWhole == heap = [p \in Addr |-> heap[p]]

Listing(m) == [1 .. m -> Addr]
Lengths(m) == [1 .. m -> Strings1]

(* The strings of the queue, m of them; while q_reverse runs, those that it *)
(* found.                                                                  *)
Queued(c, m) ==
    IF Reversing
    THEN \E s, v \in Listing(m), k \in 0 .. m : PartlyReversed(s, v, c, m, k)
    ELSE \E s, v \in Listing(m) : Chained(s, v, c, m)

QueueIsChained ==
    q # NULL => \E m \in 0 .. MaxSize : \E c \in Lengths(m) : Queued(c, m)

(* The tester disallows allocation, may be jumped to and has set the alarm *)
(* while it calls q_reverse, and at no other time.                         *)
TesterInStep ==
    /\ q \in Addr \cup {NULL} /\ emptied \in BOOLEAN
    /\ error_occurred \in BOOLEAN /\ noallocate_mode \in BOOLEAN
    /\ jmp_ready \in BOOLEAN /\ time_limited \in BOOLEAN /\ alarm \in BOOLEAN
    /\ ended = "no"
    /\ at \in {"idle", "setup", "looping", "returned", "cancelling"}
    /\ noallocate_mode <=> at # "idle"
    /\ jmp_ready <=> at # "idle"
    /\ time_limited <=> alarm
    /\ alarm => at \in {"setup", "looping", "returned"}
    /\ at = "looping" => Reversing
    /\ at \in {"setup", "returned", "cancelling"} => ~Reversing
    /\ at # "idle" \/ Reversing => q # NULL
    /\ q = NULL => allocated = {}

QueueInv == HeapIsWhole /\ TesterInStep /\ QueueIsChained /\ RemoveFits

-----------------------------------------------------------------------------
(* A non-empty set of naturals has a smallest element.                     *)
LEMMA LeastExists ==
    ASSUME NEW T \in SUBSET Nat, T # {}
    PROVE  \E x \in T : \A y \in T : x <= y
<1>1. PICK x \in T : \A y \in T : ~(<<y, x>> \in OpToRel(<, Nat))
  BY NatLessThanWellFounded, WFMin
<1>2. \A y \in T : ~(y < x)
  BY <1>1 DEF OpToRel
<1>3. QED
  BY <1>2

(* What the cells hold, part by part.                                      *)
LEMMA CellsHold ==
    ASSUME NEW m, NEW s, NEW v, NEW c, NEW link, Cells(s, v, c, link, m),
           NEW i \in 1 .. m
    PROVE  /\ heap[s[i]].kind = "element" /\ heap[s[i]].next = link[i]
           /\ heap[s[i]].value = v[i]
           /\ heap[v[i]].kind = "string" /\ heap[v[i]].chars = c[i]
<1>1. heap[s[i]] = Element(link[i], v[i]) /\ heap[v[i]] = String(c[i])
  BY DEF Cells
<1>2. QED
  BY <1>1 DEF Element, String

-----------------------------------------------------------------------------
(* What the walk of a queue yields.                                        *)

(* The elements from the i-th on, at most n of them.                       *)
Part(s, m, i, n) == [j \in 1 .. (IF n < m - i + 1 THEN n ELSE m - i + 1) |-> s[i + j - 1]]

(* Those behind the i-th of them.                                          *)
Behind(s, m, i, n) == IF i = m THEN <<>> ELSE Part(s, m, i + 1, n - 1)

(* A part is its first element and the part behind it.                     *)
LEMMA PartUnfolds ==
    ASSUME NEW m \in Nat, NEW s \in Listing(m), NEW i \in 1 .. m, NEW n \in Nat \ {0}
    PROVE  /\ <<s[i]>> \o Behind(s, m, i, n) = Part(s, m, i, n)
           /\ Part(s, m, i, 0) = <<>>
<1> DEFINE rest == Behind(s, m, i, n)
           k == IF n < m - i + 1 THEN n ELSE m - i + 1
<1>0. s \in [1 .. m -> Addr]
  BY DEF Listing
<1>1. /\ k \in Nat \ {0}
      /\ k - 1 = IF n - 1 < m - (i + 1) + 1 THEN n - 1 ELSE m - (i + 1) + 1
      /\ i = m => k = 1
      /\ i + k - 1 <= m
  OBVIOUS
<1>2. rest = [j \in 1 .. k - 1 |-> s[i + 1 + j - 1]]
  <2>1. CASE i = m
    BY <1>1, <2>1 DEF Behind
  <2>2. CASE i # m
    BY <1>1, <2>2 DEF Part, Behind
  <2>3. QED
    BY <2>1, <2>2
<1>3. Part(s, m, i, n) = [j \in 1 .. k |-> s[i + j - 1]]
  BY DEF Part
<1> HIDE DEF rest, k
<1>4. \A j \in 1 .. k - 1 : i + 1 + j - 1 \in 1 .. m /\ i + 1 + j - 1 = i + (j + 1) - 1
  BY <1>1
<1>5. rest \in Seq(Addr) /\ Len(rest) = k - 1
  <2>1. rest \in [1 .. k - 1 -> Addr] /\ k - 1 \in Nat
    BY <1>0, <1>1, <1>2, <1>4
  <2>2. QED
    BY <2>1, SeqDef
<1>6. Part(s, m, i, n) \in Seq(Addr) /\ Len(Part(s, m, i, n)) = k
  <2>1. \A j \in 1 .. k : i + j - 1 \in 1 .. m
    BY <1>1
  <2>2. Part(s, m, i, n) \in [1 .. k -> Addr] /\ k \in Nat
    BY <1>0, <1>1, <1>3, <2>1
  <2>3. QED
    BY <2>2, SeqDef
<1>7. <<s[i]>> \in Seq(Addr) /\ Len(<<s[i]>>) = 1 /\ <<s[i]>>[1] = s[i]
  BY <1>0
<1>8. /\ <<s[i]>> \o rest \in Seq(Addr) /\ Len(<<s[i]>> \o rest) = 1 + (k - 1)
      /\ \A j \in 1 .. 1 + (k - 1) :
            (<<s[i]>> \o rest)[j] = IF j <= 1 THEN <<s[i]>>[j] ELSE rest[j - 1]
  BY <1>5, <1>7, ConcatProperties
<1>9. \A j \in 1 .. k : (<<s[i]>> \o rest)[j] = Part(s, m, i, n)[j]
  <2> TAKE j \in 1 .. k
  <2>1. (<<s[i]>> \o rest)[j] = IF j <= 1 THEN <<s[i]>>[j] ELSE rest[j - 1]
    BY <1>1, <1>8
  <2>2. Part(s, m, i, n)[j] = s[i + j - 1]
    BY <1>3
  <2>3. CASE j = 1
    BY <1>7, <2>1, <2>2, <2>3
  <2>4. CASE j # 1
    <3>1. j - 1 \in 1 .. k - 1 /\ i + 1 + (j - 1) - 1 = i + j - 1
      BY <1>1, <2>4
    <3>2. rest[j - 1] = s[i + 1 + (j - 1) - 1]
      BY <1>2, <3>1
    <3>3. ~(j <= 1)
      BY <1>1, <2>4
    <3>4. (<<s[i]>> \o rest)[j] = rest[j - 1]
      BY <2>1, <3>3
    <3>5. QED
      BY <2>2, <3>1, <3>2, <3>4
  <2>5. QED
    BY <2>3, <2>4
<1>10. <<s[i]>> \o rest = Part(s, m, i, n)
  <2>1. Len(<<s[i]>> \o rest) = Len(Part(s, m, i, n)) /\ Len(<<s[i]>> \o rest) = k
    BY <1>1, <1>6, <1>8
  <2>2. QED
    BY <1>6, <1>8, <1>9, <2>1, SeqEqual
<1>11. Part(s, m, i, 0) = <<>>
  BY DEF Part
<1>12. QED
  BY <1>10, <1>11 DEF rest

(* The elements there are, linked in order.                                *)
Linked(s, m) ==
    /\ \A i, j \in 1 .. m : s[i] = s[j] => i = j
    /\ \A p \in Addr : heap[p].kind = "element" <=> \E i \in 1 .. m : s[i] = p
    /\ \A i \in 1 .. m : heap[s[i]].next = IF i = m THEN NULL ELSE s[i + 1]

(* The walk from the first of them: all of them, whatever the bound.       *)
LEMMA WalkInOrder ==
    ASSUME NEW m \in 0 .. MaxSize, NEW s \in Listing(m), NEW first,
           Linked(s, m), first = IF m = 0 THEN NULL ELSE s[1]
    PROVE  Elements(first) = s
<1> DEFINE Body(w) == [n \in 0 .. MaxSize |->
                         [p \in Addr \cup {NULL} |->
                            IF n = 0 \/ p = NULL THEN <<>>
                            ELSE IF heap[p].kind # "element" THEN <<>>
                            ELSE <<p>> \o w[n - 1][heap[p].next]]]
           walk == CHOOSE w : w = Body(w)
<1>1. m \in Nat /\ MaxSize \in Nat /\ m <= MaxSize /\ NULL \notin Addr
      /\ s \in [1 .. m -> Addr]
  BY SizeMaxAssumption, AddrAssumption DEF Listing
<1>1a. m \in Nat /\ s \in Listing(m)
  BY <1>1
<1>1b. \A i \in 1 .. m, n \in Nat \ {0} : <<s[i]>> \o Behind(s, m, i, n) = Part(s, m, i, n)
  BY ONLY <1>1a, PartUnfolds
<1>2. PICK pos \in [Addr -> Nat] : \A i \in 1 .. m : pos[s[i]] = i
  <2> DEFINE at0(p) == CHOOSE i \in Nat : i \in 1 .. m /\ s[i] = p
             f == [p \in Addr |-> IF \E i \in 1 .. m : s[i] = p THEN at0(p) ELSE 0]
  <2>1. \A i \in 1 .. m : s[i] \in Addr /\ at0(s[i]) = i /\ i \in Nat
    <3> TAKE i \in 1 .. m
    <3>1. i \in Nat /\ s[i] \in Addr
      BY <1>1
    <3>2. \A j \in Nat : j \in 1 .. m /\ s[j] = s[i] => j = i
      BY DEF Linked
    <3>3. QED
      BY <3>1, <3>2
  <2> HIDE DEF at0
  <2>2. f \in [Addr -> Nat] /\ \A i \in 1 .. m : f[s[i]] = i
    <3>1. \A p \in Addr : (\E i \in 1 .. m : s[i] = p) => at0(p) \in Nat
      BY <2>1
    <3>2. f \in [Addr -> Nat]
      BY <3>1
    <3>3. QED
      BY <2>1, <3>2
  <2> HIDE DEF f
  <2>3. QED
    BY <2>2
<1> DEFINE w0 == [n \in 0 .. MaxSize |->
                    [p \in Addr \cup {NULL} |->
                       IF \E i \in 1 .. m : s[i] = p THEN Part(s, m, pos[p], n) ELSE <<>>]]
<1>3. \A p \in Addr : heap[p].kind = "element" <=> \E i \in 1 .. m : s[i] = p
  BY DEF Linked
<1>4. \A i \in 1 .. m : heap[s[i]].next = IF i = m THEN NULL ELSE s[i + 1]
  BY DEF Linked
<1>5. ASSUME NEW n \in 0 .. MaxSize, NEW p \in Addr \cup {NULL}
      PROVE  w0[n][p] = IF n = 0 \/ p = NULL THEN <<>>
                        ELSE IF heap[p].kind # "element" THEN <<>>
                        ELSE <<p>> \o w0[n - 1][heap[p].next]
  <2>1. CASE ~\E i \in 1 .. m : s[i] = p
    BY <1>1, <1>3, <2>1
  <2>2. ASSUME NEW i \in 1 .. m, s[i] = p
        PROVE  w0[n][p] = IF n = 0 THEN <<>> ELSE <<p>> \o w0[n - 1][heap[p].next]
    <3>1. w0[n][p] = Part(s, m, i, n)
      BY <1>2, <2>2
    <3>2. CASE n = 0
      BY <1>1, <3>1, <3>2 DEF Part
    <3>3. CASE n # 0
      <4>1. n - 1 \in 0 .. MaxSize /\ n \in Nat \ {0} /\ i + 1 \in Nat
        BY <1>1, <3>3
      <4>2. w0[n - 1][heap[p].next] = Behind(s, m, i, n)
        <5>1. CASE i = m
          <6>1. heap[p].next = NULL /\ ~\E j \in 1 .. m : s[j] = NULL
            BY <1>1, <1>4, <2>2, <5>1
          <6>2. QED
            BY <4>1, <5>1, <6>1 DEF Behind
        <5>2. CASE i # m
          <6>1. i + 1 \in 1 .. m /\ heap[p].next = s[i + 1] /\ s[i + 1] \in Addr
            BY <1>1, <1>4, <2>2, <5>2
          <6>2. pos[s[i + 1]] = i + 1
            BY <1>2, <6>1
          <6>3. QED
            BY <4>1, <5>2, <6>1, <6>2 DEF Behind
        <5>3. QED
          BY <5>1, <5>2
      <4>3. <<s[i]>> \o Behind(s, m, i, n) = Part(s, m, i, n)
        BY <1>1b, <4>1
      <4>4. QED
        BY <2>2, <3>1, <3>3, <4>2, <4>3
    <3>4. QED
      BY <3>2, <3>3
  <2>3. CASE \E i \in 1 .. m : s[i] = p
    <3>1. p # NULL /\ p \in Addr /\ heap[p].kind = "element"
      BY <1>1, <1>3, <2>3
    <3>2. w0[n][p] = IF n = 0 THEN <<>> ELSE <<p>> \o w0[n - 1][heap[p].next]
      BY <2>2, <2>3
    <3> HIDE DEF w0
    <3>3. QED
      BY <3>1, <3>2
  <2>4. QED
    BY <2>1, <2>3
<1>6. w0 = Body(w0)
  <2>1. \A n \in 0 .. MaxSize : w0[n] = Body(w0)[n]
    <3> TAKE n \in 0 .. MaxSize
    <3> DEFINE f == [p \in Addr \cup {NULL} |->
                      IF n = 0 \/ p = NULL THEN <<>>
                      ELSE IF heap[p].kind # "element" THEN <<>>
                      ELSE <<p>> \o w0[n - 1][heap[p].next]]
               g == [p \in Addr \cup {NULL} |->
                       IF \E i \in 1 .. m : s[i] = p THEN Part(s, m, pos[p], n) ELSE <<>>]
    <3>1. w0[n] = g /\ Body(w0)[n] = f
      OBVIOUS
    <3>2. \A p \in Addr \cup {NULL} : g[p] = f[p]
      <4> TAKE p \in Addr \cup {NULL}
      <4>1. w0[n][p] = f[p]
        <5> HIDE DEF w0
        <5>1. QED
          BY <1>5
      <4>2. w0[n][p] = g[p]
        <5> HIDE DEF w0, g
        <5>1. QED
          BY <3>1
      <4>3. QED
        BY <4>1, <4>2
    <3>3. f = g
      <4>1. \A p \in Addr \cup {NULL} : f[p] = g[p]
        BY <3>2
      <4>2. /\ f = [p \in Addr \cup {NULL} |-> f[p]] /\ g = [p \in Addr \cup {NULL} |-> g[p]]
        OBVIOUS
      <4> HIDE DEF f, g
      <4>3. QED
        BY ONLY <4>1, <4>2
    <3>4. QED
      BY <3>1, <3>3
  <2>2. /\ w0 = [n \in 0 .. MaxSize |-> w0[n]]
        /\ Body(w0) = [n \in 0 .. MaxSize |-> Body(w0)[n]]
    OBVIOUS
  <2> HIDE DEF w0, Body
  <2>3. QED
    BY ONLY <2>1, <2>2
<1>7. walk = Body(walk)
  <2> HIDE DEF w0, Body
  <2>1. QED
    BY <1>6
<1>8. Elements(first) = walk[MaxSize][first]
  BY DEF Elements
<1>9. \A n \in 0 .. MaxSize : walk[n] = w0[n]
  <2> DEFINE Bad == {n \in 0 .. MaxSize : walk[n] # w0[n]}
  <2> SUFFICES ASSUME Bad # {} PROVE FALSE
    OBVIOUS
  <2>1. PICK n \in Bad : \A k \in Bad : n <= k
    <3>1. Bad \in SUBSET Nat
      <4>1. 0 .. MaxSize \subseteq Nat
        BY <1>1
      <4> HIDE DEF walk, w0
      <4>2. QED
        BY <4>1
    <3>2. QED
      <4> HIDE DEF Bad
      <4>1. QED
        BY <3>1, LeastExists
  <2>2. n \in 0 .. MaxSize /\ walk[n] # w0[n]
    OBVIOUS
  <2>3. n # 0 => walk[n - 1] = w0[n - 1]
    <3>0. \A k \in 0 .. MaxSize : k \notin Bad => walk[k] = w0[k]
      OBVIOUS
    <3> HIDE DEF Bad, walk, w0
    <3>1. n \in 0 .. MaxSize /\ MaxSize \in Nat
      BY <1>1, <2>2
    <3>2. ASSUME n # 0 PROVE n - 1 \in 0 .. MaxSize /\ ~(n <= n - 1)
      BY ONLY <3>1, <3>2
    <3>3. QED
      BY <2>1, <3>0, <3>2
  <2> HIDE DEF Bad
  <2>4. walk[n] = Body(walk)[n] /\ w0[n] = Body(w0)[n]
    <3> HIDE DEF walk, w0, Body
    <3>1. QED
      BY <1>6, <1>7
  <2> HIDE DEF walk, w0
  <2>5. Body(walk)[n] = Body(w0)[n]
    BY <2>2, <2>3
  <2>6. QED
    BY <2>2, <2>4, <2>5
<1>10. w0[MaxSize][first] = s
  <2>1. first = IF m = 0 THEN NULL ELSE s[1]
    OBVIOUS
  <2>2. CASE m = 0
    <3>1. s = <<>>
      BY <1>1, <2>2
    <3>2. QED
      BY <1>1, <2>1, <2>2, <3>1
  <2>3. CASE m # 0
    <3>1. 1 \in 1 .. m /\ pos[s[1]] = 1
      BY <1>1, <1>2, <2>3
    <3>2. w0[MaxSize][first] = Part(s, m, 1, MaxSize)
      BY <1>1, <2>1, <2>3, <3>1
    <3>3. Part(s, m, 1, MaxSize) = [j \in 1 .. m |-> s[j]]
      BY <1>1 DEF Part
    <3>4. QED
      BY <1>1, <3>2, <3>3
  <2>4. QED
    BY <2>2, <2>3
<1>11. QED
  <2> HIDE DEF walk, w0
  <2>1. QED
    BY <1>1, <1>8, <1>9, <1>10

(* The cells of a queue and its header are apart from each other.          *)
LEMMA CellsApart ==
    ASSUME NEW m, NEW s, NEW v, NEW c, NEW link, Cells(s, v, c, link, m),
           heap[q].kind = "queue"
    PROVE  /\ \A i \in 1 .. m : s[i] # q /\ v[i] # q
           /\ \A i, j \in 1 .. m : s[i] # v[j]
<1>1. \A i \in 1 .. m : heap[s[i]].kind = "element" /\ heap[v[i]].kind = "string"
  BY CellsHold
<1>2. QED
  BY <1>1

(* The elements of a queue are the listed ones in order.                   *)
LEMMA ElementsInOrder ==
    ASSUME NEW m \in 0 .. MaxSize, NEW s \in Listing(m), NEW v \in Listing(m),
           NEW c \in Lengths(m), q \in Addr, Chained(s, v, c, m)
    PROVE  Elements(First) = s
<1>1. heap[q].kind = "queue" /\ First = IF m = 0 THEN NULL ELSE s[1]
  BY AddrAssumption DEF First, Chained, QueueBlock
<1>2. \A i, j \in 1 .. m : s[i] = s[j] => i = j
  BY DEF Chained, Cells
<1>3. \A p \in Addr : heap[p].kind = "element" <=> \E i \in 1 .. m : s[i] = p
  <2> TAKE p \in Addr
  <2>1. \A i \in 1 .. m : heap[s[i]].kind = "element" /\ heap[v[i]].kind = "string"
    BY CellsHold DEF Chained
  <2>2. \/ heap[p].kind = "free" \/ p = q
        \/ \E i \in 1 .. m : p = s[i] \/ p = v[i]
    BY DEF Chained, Cells
  <2>3. QED
    BY <1>1, <2>1, <2>2
<1>4. \A i \in 1 .. m : heap[s[i]].next = IF i = m THEN NULL ELSE s[i + 1]
  BY CellsHold DEF Chained, InOrder
<1>5. QED
  BY <1>1, <1>2, <1>3, <1>4, WalkInOrder DEF Linked

(* Without a queue there are none.                                         *)
LEMMA ElementsOfNone ==
    ASSUME q = NULL, allocated = {}
    PROVE  Elements(First) = <<>> /\ Strings(First) = <<>>
<1>1. \A p \in Addr : heap[p].kind # "element"
  BY DEF allocated
<1>2. 0 \in 0 .. MaxSize /\ <<>> \in Listing(0) /\ First = NULL
  BY SizeMaxAssumption DEF Listing, First
<1>3. Elements(First) = <<>>
  BY <1>1, <1>2, WalkInOrder DEF Linked
<1>4. Strings(First) = <<>>
  BY <1>3 DEF Strings
<1>5. QED
  BY <1>3, <1>4

(* The strings of a queue are the lengths in order.                        *)
LEMMA StringsInOrder ==
    ASSUME NEW m \in 0 .. MaxSize, NEW s \in Listing(m), NEW v \in Listing(m),
           NEW c \in Lengths(m), q \in Addr, Chained(s, v, c, m)
    PROVE  Strings(First) = c
<1>1. Elements(First) = s
  BY ElementsInOrder
<1>2. DOMAIN s = 1 .. m /\ c = [i \in 1 .. m |-> c[i]]
  BY DEF Listing, Lengths
<1>3. \A i \in 1 .. m : heap[heap[s[i]].value].chars = c[i]
  BY CellsHold DEF Chained
<1>4. Strings(First) = [i \in 1 .. m |-> heap[heap[s[i]].value].chars]
  BY <1>1, <1>2 DEF Strings
<1>5. QED
  BY <1>2, <1>3, <1>4

-----------------------------------------------------------------------------
(* Sequences as functions.                                                 *)

LEMMA Prepended ==
    ASSUME NEW S, NEW m \in Nat, NEW c \in [1 .. m -> S], NEW x \in S
    PROVE  /\ <<x>> \o c \in [1 .. m + 1 -> S]
           /\ \A i \in 1 .. m + 1 : (<<x>> \o c)[i] = IF i = 1 THEN x ELSE c[i - 1]
<1> DEFINE d == [i \in 1 .. m + 1 |-> IF i = 1 THEN x ELSE c[i - 1]]
<1>1. \A i \in 1 .. m + 1 : i = 1 \/ i - 1 \in 1 .. m
  OBVIOUS
<1>2. d \in [1 .. m + 1 -> S] /\ m + 1 \in Nat
  BY <1>1
<1>3. c \in Seq(S) /\ Len(c) = m /\ d \in Seq(S) /\ Len(d) = m + 1
  BY <1>2, SeqDef
<1>4. <<x>> \in Seq(S) /\ Len(<<x>>) = 1 /\ <<x>>[1] = x
  OBVIOUS
<1>5. /\ <<x>> \o c \in Seq(S) /\ Len(<<x>> \o c) = 1 + m
      /\ \A i \in 1 .. 1 + m : (<<x>> \o c)[i] = IF i <= 1 THEN <<x>>[i] ELSE c[i - 1]
  BY <1>3, <1>4, ConcatProperties
<1>6. \A i \in 1 .. m + 1 : (<<x>> \o c)[i] = d[i]
  <2> TAKE i \in 1 .. m + 1
  <2>1. i \in 1 .. 1 + m /\ (i <= 1 => i = 1)
    OBVIOUS
  <2>2. (<<x>> \o c)[i] = IF i <= 1 THEN <<x>>[i] ELSE c[i - 1]
    BY <1>5, <2>1
  <2>3. QED
    BY <1>4, <2>1, <2>2
<1> HIDE DEF d
<1>7. <<x>> \o c = d
  BY <1>3, <1>5, <1>6, SeqEqual
<1>8. QED
  BY <1>2, <1>7 DEF d

LEMMA Appended ==
    ASSUME NEW S, NEW m \in Nat, NEW c \in [1 .. m -> S], NEW x \in S
    PROVE  /\ Append(c, x) \in [1 .. m + 1 -> S]
           /\ \A i \in 1 .. m + 1 : Append(c, x)[i] = IF i = m + 1 THEN x ELSE c[i]
<1>1. c \in Seq(S) /\ Len(c) = m
  BY SeqDef
<1>2. \A i \in 1 .. m + 1 : i = m + 1 \/ i \in 1 .. m
  OBVIOUS
<1>3. Append(c, x) = [i \in 1 .. m + 1 |-> IF i = m + 1 THEN x ELSE c[i]]
  <2> DEFINE d == [i \in 1 .. m + 1 |-> IF i = m + 1 THEN x ELSE c[i]]
  <2>1. d \in [1 .. m + 1 -> S] /\ m + 1 \in Nat
    BY <1>2
  <2>2. d \in Seq(S) /\ Len(d) = m + 1
    BY <2>1, SeqDef
  <2>3. /\ Append(c, x) \in Seq(S) /\ Len(Append(c, x)) = m + 1
        /\ \A i \in 1 .. m : Append(c, x)[i] = c[i]
        /\ Append(c, x)[m + 1] = x
    BY <1>1, AppendProperties
  <2>4. \A i \in 1 .. m + 1 : Append(c, x)[i] = d[i]
    BY <1>2, <2>3
  <2> HIDE DEF d
  <2>5. QED
    BY <2>2, <2>3, <2>4, SeqEqual DEF d
<1>4. QED
  BY <1>2, <1>3

LEMMA Behead ==
    ASSUME NEW S, NEW m \in Nat \ {0}, NEW c \in [1 .. m -> S]
    PROVE  /\ Tail(c) \in [1 .. m - 1 -> S] /\ c # <<>>
           /\ \A i \in 1 .. m - 1 : Tail(c)[i] = c[i + 1]
<1>1. c \in Seq(S) /\ Len(c) = m
  BY SeqDef
<1>2. \A i \in 1 .. m - 1 : i + 1 \in 1 .. m
  OBVIOUS
<1>3. c # <<>>
  BY <1>1
<1>4. Tail(c) = [i \in 1 .. m - 1 |-> c[i + 1]]
  <2> DEFINE d == [i \in 1 .. m - 1 |-> c[i + 1]]
  <2>1. d \in [1 .. m - 1 -> S] /\ m - 1 \in Nat
    BY <1>2
  <2>2. d \in Seq(S) /\ Len(d) = m - 1
    BY <2>1, SeqDef
  <2>3. /\ Tail(c) \in Seq(S) /\ Len(Tail(c)) = m - 1
        /\ \A i \in 1 .. m - 1 : Tail(c)[i] = c[i + 1]
    BY <1>1, <1>3, HeadTailProperties
  <2>4. \A i \in 1 .. m - 1 : Tail(c)[i] = d[i]
    BY <2>3
  <2> HIDE DEF d
  <2>5. QED
    BY <2>2, <2>3, <2>4, SeqEqual DEF d
<1>5. QED
  BY <1>2, <1>3, <1>4

LEMMA TurnedBack ==
    ASSUME NEW m \in Nat, NEW c \in Lengths(m)
    PROVE  /\ Reverse(c) \in Lengths(m)
           /\ \A i \in 1 .. m : Reverse(c)[i] = c[m - i + 1]
<1>0. c \in [1 .. m -> Strings1]
  BY DEF Lengths
<1>1. c \in Seq(Strings1) /\ Len(c) = m
  BY <1>0, SeqDef
<1>2. \A i \in 1 .. m : m - i + 1 \in 1 .. m
  OBVIOUS
<1>3. Reverse(c) = [i \in 1 .. m |-> c[m - i + 1]]
  BY <1>1 DEF Reverse
<1>4. QED
  BY <1>0, <1>2, <1>3 DEF Lengths

-----------------------------------------------------------------------------
(* What each routine does to the cells.                                    *)

(* What a queue that is chained holds.                                     *)
WellChained(s, v, c, m) ==
    /\ m \in Nat /\ MaxSize \in Nat /\ m <= MaxSize /\ NULL \notin Addr
    /\ s \in [1 .. m -> Addr] /\ v \in [1 .. m -> Addr]
    /\ c \in [1 .. m -> 0 .. MaxString]
    /\ heap[q] = QueueBlock(IF m = 0 THEN NULL ELSE s[1], heap[q].tail, m)
    /\ heap[q].kind = "queue" /\ heap[q].size = m
    /\ heap[q].head = IF m = 0 THEN NULL ELSE s[1]
    /\ m > 0 => heap[q].tail = s[m]
    /\ \A i \in 1 .. m : /\ s[i] \in Addr \ {q} /\ v[i] \in Addr \ {q}
                         /\ heap[s[i]] = Element(IF i = m THEN NULL ELSE s[i + 1], v[i])
                         /\ heap[v[i]] = String(c[i])
    /\ \A i, j \in 1 .. m : s[i] # v[j]
    /\ \A i, j \in 1 .. m : s[i] = s[j] \/ v[i] = v[j] => i = j
    /\ \A p \in Addr : \/ heap[p].kind = "free" \/ p = q
                       \/ \E i \in 1 .. m : p = s[i] \/ p = v[i]

LEMMA ChainHolds ==
    ASSUME NEW m \in 0 .. MaxSize, NEW s \in Listing(m), NEW v \in Listing(m),
           NEW c \in Lengths(m), q \in Addr, Chained(s, v, c, m)
    PROVE  WellChained(s, v, c, m)
<1>1. m \in Nat /\ MaxSize \in Nat /\ m <= MaxSize /\ NULL \notin Addr
  BY SizeMaxAssumption, AddrAssumption
<1>2. /\ s \in [1 .. m -> Addr] /\ v \in [1 .. m -> Addr]
      /\ c \in [1 .. m -> 0 .. MaxString]
  BY DEF Listing, Lengths, Strings1
<1>3. heap[q] = QueueBlock(IF m = 0 THEN NULL ELSE s[1], heap[q].tail, m)
  BY DEF Chained
<1>4. /\ heap[q].kind = "queue" /\ heap[q].size = m
      /\ heap[q].head = IF m = 0 THEN NULL ELSE s[1]
  BY <1>3 DEF QueueBlock
<1>5. m > 0 => heap[q].tail = s[m]
  BY DEF Chained
<1>6. Cells(s, v, c, InOrder(s, m), m)
  BY DEF Chained
<1>7. /\ \A i \in 1 .. m : s[i] # q /\ v[i] # q
      /\ \A i, j \in 1 .. m : s[i] # v[j]
  BY <1>4, <1>6, CellsApart
<1>8. \A i \in 1 .. m : InOrder(s, m)[i] = IF i = m THEN NULL ELSE s[i + 1]
  BY DEF InOrder
<1>9. \A i \in 1 .. m : /\ heap[s[i]] = Element(IF i = m THEN NULL ELSE s[i + 1], v[i])
                        /\ heap[v[i]] = String(c[i])
  BY <1>6, <1>8 DEF Cells
<1>10. \A i, j \in 1 .. m : s[i] = s[j] \/ v[i] = v[j] => i = j
  BY <1>6 DEF Cells
<1>11. \A p \in Addr : \/ heap[p].kind = "free" \/ p = q
                       \/ \E i \in 1 .. m : p = s[i] \/ p = v[i]
  BY <1>6 DEF Cells
<1>12. QED
  BY <1>1, <1>2, <1>3, <1>4, <1>5, <1>7, <1>9, <1>10, <1>11 DEF WellChained

(* An element in front.                                                    *)
LEMMA InsertHeadKeeps ==
    ASSUME NEW m \in 0 .. MaxSize, NEW s \in Listing(m), NEW v \in Listing(m),
           NEW c \in Lengths(m), q \in Addr, HeapIsWhole, Chained(s, v, c, m),
           heap[q].size < MaxSize, m = 0 => heap[q].tail = NULL,
           NEW str \in Strings1, NEW p \in Addr, NEW w \in Addr, q_insert_head(str, p, w)
    PROVE  /\ m + 1 \in 0 .. MaxSize /\ HeapIsWhole'
           /\ \E s2, v2 \in Listing(m + 1), c2 \in Lengths(m + 1) :
                 Chained(s2, v2, c2, m + 1)' /\ c2 = <<str>> \o c
<1> DEFINE s2 == [i \in 1 .. m + 1 |-> IF i = 1 THEN p ELSE s[i - 1]]
           v2 == [i \in 1 .. m + 1 |-> IF i = 1 THEN w ELSE v[i - 1]]
           c2 == <<str>> \o c
<1>0. WellChained(s, v, c, m)
  BY ChainHolds
<1>1. /\ m \in Nat /\ MaxSize \in Nat /\ m <= MaxSize /\ NULL \notin Addr
      /\ s \in [1 .. m -> Addr] /\ v \in [1 .. m -> Addr]
      /\ c \in [1 .. m -> 0 .. MaxString]
      /\ heap[q].kind = "queue" /\ heap[q].size = m
      /\ heap[q].head = IF m = 0 THEN NULL ELSE s[1]
      /\ m > 0 => heap[q].tail = s[m]
  BY <1>0 DEF WellChained
<1>2. m + 1 \in 0 .. MaxSize
  BY <1>1
<1>3. p # w /\ heap[p].kind = "free" /\ heap[w].kind = "free" /\ q' = q
  BY DEF q_insert_head, CanAllocate, allocated
<1>4. p # q /\ w # q
  BY <1>1, <1>3
<1>5. \A i \in 1 .. m : /\ s[i] \in Addr \ {q, p, w} /\ v[i] \in Addr \ {q, p, w}
                        /\ heap[s[i]] = Element(IF i = m THEN NULL ELSE s[i + 1], v[i])
                        /\ heap[v[i]] = String(c[i])
  <2> TAKE i \in 1 .. m
  <2>1. /\ s[i] \in Addr \ {q} /\ v[i] \in Addr \ {q}
        /\ heap[s[i]] = Element(IF i = m THEN NULL ELSE s[i + 1], v[i])
        /\ heap[v[i]] = String(c[i])
    BY <1>0 DEF WellChained
  <2>2. heap[s[i]].kind = "element" /\ heap[v[i]].kind = "string"
    BY <2>1 DEF Element, String
  <2>3. QED
    BY <1>3, <2>1, <2>2
<1>6. \A i, j \in 1 .. m : s[i] = s[j] \/ v[i] = v[j] => i = j
  BY <1>0 DEF WellChained
<1>7. \A a \in Addr : \/ heap[a].kind = "free" \/ a = q
                      \/ \E i \in 1 .. m : a = s[i] \/ a = v[i]
  BY <1>0 DEF WellChained
<1>8. /\ heap' = [a \in Addr |-> heap'[a]]
      /\ \A a \in Addr : heap'[a] =
            IF a = q THEN QueueBlock(p, IF heap[q].tail = NULL THEN p ELSE heap[q].tail,
                                     heap[q].size + 1)
            ELSE IF a = p THEN Element(heap[q].head, w)
            ELSE IF a = w THEN String(str) ELSE heap[a]
  BY <1>3, <1>4 DEF q_insert_head, HeapIsWhole
<1>9. \A i \in 1 .. m + 1 : i # 1 => i - 1 \in 1 .. m
  BY <1>1
<1>10. \A i \in 1 .. m : i + 1 \in 1 .. m + 1 /\ i + 1 # 1 /\ (i + 1) - 1 = i
  BY <1>1
<1>11. /\ s2 \in [1 .. m + 1 -> Addr] /\ v2 \in [1 .. m + 1 -> Addr]
  BY <1>1, <1>9
<1>11a. /\ c2 \in [1 .. m + 1 -> Strings1] /\ c2 = <<str>> \o c
      /\ \A i \in 1 .. m + 1 : c2[i] = IF i = 1 THEN str ELSE c[i - 1]
  <2>1. m \in Nat /\ c \in [1 .. m -> Strings1] /\ str \in Strings1
    BY <1>1 DEF Strings1
  <2>2. <<str>> \o c \in [1 .. m + 1 -> Strings1]
    BY ONLY <2>1, Prepended
  <2>3. \A i \in 1 .. m + 1 : (<<str>> \o c)[i] = IF i = 1 THEN str ELSE c[i - 1]
    BY ONLY <2>1, Prepended
  <2>4. QED
    BY <2>2, <2>3
<1> HIDE DEF c2
<1>12. \A i, j \in 1 .. m + 1 : s2[i] = s2[j] \/ v2[i] = v2[j] => i = j
  BY <1>1, <1>5, <1>6, <1>9
<1>13. \A i \in 1 .. m + 1 : /\ heap'[s2[i]] = Element(InOrder(s2, m + 1)[i], v2[i])
                             /\ heap'[v2[i]] = String(c2[i])
  <2> TAKE i \in 1 .. m + 1
  <2>1. InOrder(s2, m + 1)[i] = IF i = m + 1 THEN NULL ELSE s2[i + 1]
    BY DEF InOrder
  <2>2. CASE i = 1
    <3>1. s2[1] = p /\ v2[1] = w /\ c2[1] = str /\ (m # 0 => s2[1 + 1] = s[1])
      BY <1>1, <1>11a
    <3>2. heap'[p] = Element(heap[q].head, w) /\ heap'[w] = String(str)
      BY <1>3, <1>4, <1>8
    <3> HIDE DEF s2, v2
    <3>3. QED
      BY <1>1, <2>1, <2>2, <3>1, <3>2
  <2>3. CASE i # 1
    <3>1. PICK k \in 1 .. m : k = i - 1
      BY <1>9, <2>3
    <3>2. s2[i] = s[k] /\ v2[i] = v[k] /\ c2[i] = c[k] /\ (i # m + 1 => s2[i + 1] = s[k + 1])
      BY <1>1, <1>11a, <2>3, <3>1
    <3>3. /\ heap'[s[k]] = Element(IF k = m THEN NULL ELSE s[k + 1], v[k])
          /\ heap'[v[k]] = String(c[k])
      BY <1>5, <1>8
    <3>4. (k = m) = (i = m + 1)
      BY <1>1, <3>1
    <3> HIDE DEF s2, v2
    <3>5. QED
      BY <2>1, <3>2, <3>3, <3>4
  <2>4. QED
    BY <2>2, <2>3
<1>14. \A a \in Addr : \/ heap'[a].kind = "free" \/ a = q
                       \/ \E i \in 1 .. m + 1 : a = s2[i] \/ a = v2[i]
  <2> TAKE a \in Addr
  <2>1. CASE a = q \/ a = p \/ a = w
    <3>1. 1 \in 1 .. m + 1 /\ s2[1] = p /\ v2[1] = w
      BY <1>1
    <3> HIDE DEF s2, v2
    <3>2. QED
      BY <2>1, <3>1
  <2>2. CASE ~(a = q \/ a = p \/ a = w)
    <3>1. heap'[a] = heap[a]
      BY <1>8, <2>2
    <3>2. CASE heap[a].kind = "free"
      BY <3>1, <3>2
    <3>3. ASSUME NEW i \in 1 .. m, a = s[i] \/ a = v[i]
          PROVE  \E j \in 1 .. m + 1 : a = s2[j] \/ a = v2[j]
      <4>1. s2[i + 1] = s[i] /\ v2[i + 1] = v[i] /\ i + 1 \in 1 .. m + 1
        BY <1>10
      <4> HIDE DEF s2, v2
      <4>2. QED
        BY <3>3, <4>1
    <3> HIDE DEF s2, v2
    <3>4. QED
      BY <1>7, <2>2, <3>2, <3>3
  <2>3. QED
    BY <2>1, <2>2
<1>15. /\ s2[1] = p /\ (m > 0 => s2[m + 1] = s[m]) /\ (m = 0 => s2[m + 1] = p)
  BY <1>1
<1>16. heap'[q] = QueueBlock(s2[1], s2[m + 1], m + 1) /\ heap'[q].tail = s2[m + 1]
  <2>1. heap'[q] = QueueBlock(p, IF heap[q].tail = NULL THEN p ELSE heap[q].tail, m + 1)
    BY <1>1, <1>8
  <2>2. (IF heap[q].tail = NULL THEN p ELSE heap[q].tail) = s2[m + 1]
    <3>1. m > 0 => s[m] # NULL
      BY <1>1
    <3> HIDE DEF s2
    <3>2. QED
      BY <1>1, <1>15, <3>1
  <2> HIDE DEF s2
  <2>3. QED
    BY <1>15, <2>1, <2>2 DEF QueueBlock
<1> HIDE DEF s2, v2
<1>18. Chained(s2, v2, c2, m + 1)'
  BY <1>1, <1>3, <1>12, <1>13, <1>14, <1>15, <1>16 DEF Chained, Cells
<1>19. QED
  BY <1>2, <1>8, <1>11, <1>11a, <1>18 DEF Listing, Lengths, HeapIsWhole

(* An element behind.                                                      *)
LEMMA InsertTailKeeps ==
    ASSUME NEW m \in 0 .. MaxSize, NEW s \in Listing(m), NEW v \in Listing(m),
           NEW c \in Lengths(m), q \in Addr, HeapIsWhole, Chained(s, v, c, m),
           heap[q].size < MaxSize,
           NEW str \in Strings1, NEW p \in Addr, NEW w \in Addr, q_insert_tail(str, p, w)
    PROVE  /\ m + 1 \in 0 .. MaxSize /\ HeapIsWhole'
           /\ \E s2, v2 \in Listing(m + 1), c2 \in Lengths(m + 1) :
                 Chained(s2, v2, c2, m + 1)' /\ c2 = Append(c, str)
<1> DEFINE s2 == [i \in 1 .. m + 1 |-> IF i = m + 1 THEN p ELSE s[i]]
           v2 == [i \in 1 .. m + 1 |-> IF i = m + 1 THEN w ELSE v[i]]
           c2 == Append(c, str)
<1>0. WellChained(s, v, c, m)
  BY ChainHolds
<1>1. /\ m \in Nat /\ MaxSize \in Nat /\ m <= MaxSize /\ NULL \notin Addr
      /\ s \in [1 .. m -> Addr] /\ v \in [1 .. m -> Addr]
      /\ c \in [1 .. m -> 0 .. MaxString]
      /\ heap[q].kind = "queue" /\ heap[q].size = m
      /\ heap[q].head = IF m = 0 THEN NULL ELSE s[1]
      /\ m > 0 => heap[q].tail = s[m]
  BY <1>0 DEF WellChained
<1>2. m + 1 \in 0 .. MaxSize
  BY <1>1
<1>3. p # w /\ heap[p].kind = "free" /\ heap[w].kind = "free" /\ q' = q
  BY DEF q_insert_tail, CanAllocate, allocated
<1>4. p # q /\ w # q
  BY <1>1, <1>3
<1>5. \A i \in 1 .. m : /\ s[i] \in Addr \ {q, p, w} /\ v[i] \in Addr \ {q, p, w}
                        /\ heap[s[i]] = Element(IF i = m THEN NULL ELSE s[i + 1], v[i])
                        /\ heap[v[i]] = String(c[i])
  <2> TAKE i \in 1 .. m
  <2>1. /\ s[i] \in Addr \ {q} /\ v[i] \in Addr \ {q}
        /\ heap[s[i]] = Element(IF i = m THEN NULL ELSE s[i + 1], v[i])
        /\ heap[v[i]] = String(c[i])
    BY <1>0 DEF WellChained
  <2>2. heap[s[i]].kind = "element" /\ heap[v[i]].kind = "string"
    BY <2>1 DEF Element, String
  <2>3. QED
    BY <1>3, <2>1, <2>2
<1>6. /\ \A i, j \in 1 .. m : s[i] = s[j] \/ v[i] = v[j] => i = j
      /\ \A i, j \in 1 .. m : s[i] # v[j]
  BY <1>0 DEF WellChained
<1>7. \A a \in Addr : \/ heap[a].kind = "free" \/ a = q
                      \/ \E i \in 1 .. m : a = s[i] \/ a = v[i]
  BY <1>0 DEF WellChained
<1>8. /\ heap' = [a \in Addr |-> heap'[a]]
      /\ heap'[q] = QueueBlock(IF m = 0 THEN p ELSE s[1], p, m + 1)
      /\ heap'[p] = Element(NULL, w) /\ heap'[w] = String(str)
      /\ m > 0 => heap'[s[m]] = Element(p, v[m])
      /\ \A a \in Addr \ {q, p, w} : m = 0 \/ a # s[m] => heap'[a] = heap[a]
  <2> DEFINE with == [heap EXCEPT ![w] = String(str), ![p] = Element(NULL, w)]
  <2>1. /\ with = [a \in Addr |-> with[a]]
        /\ \A a \in Addr : with[a] = IF a = p THEN Element(NULL, w)
                                     ELSE IF a = w THEN String(str) ELSE heap[a]
    BY <1>3 DEF HeapIsWhole
  <2>2. IF m = 0
        THEN heap' = [with EXCEPT ![q] = QueueBlock(p, p, 1)]
        ELSE heap' = [a \in Addr |->
                 IF a = q THEN QueueBlock(s[1], p, m + 1)
                 ELSE IF a = s[m] /\ with[a].kind = "element"
                 THEN [with[a] EXCEPT !.next = p]
                 ELSE with[a]]
    <3>1. CASE m = 0
      BY <1>1, <3>1 DEF q_insert_tail
    <3>2. CASE m # 0
      <4>1. heap[q].size # 0 /\ heap[q].head = s[1] /\ heap[q].tail = s[m] /\ heap[q].size + 1 = m + 1
        BY <1>1, <3>2
      <4>2. heap' = [a \in Addr |->
                 IF a = q THEN QueueBlock(heap[q].head, p, heap[q].size + 1)
                 ELSE IF a = heap[q].tail /\ with[a].kind = "element"
                 THEN [with[a] EXCEPT !.next = p]
                 ELSE with[a]]
        BY <4>1 DEF q_insert_tail
      <4> HIDE DEF with
      <4>3. QED
        BY <3>2, <4>1, <4>2
    <3>3. QED
      BY <3>1, <3>2
  <2> HIDE DEF with
  <2>3. CASE m = 0
    BY <1>1, <1>3, <1>4, <2>1, <2>2, <2>3
  <2>4. CASE m # 0
    <3>1. m \in 1 .. m /\ s[m] \in Addr \ {q, p, w} /\ heap[s[m]] = Element(NULL, v[m])
      BY <1>1, <1>5, <2>4
    <3>2. with[s[m]] = Element(NULL, v[m])
      BY <2>1, <3>1
    <3>3. with[s[m]].kind = "element" /\ [with[s[m]] EXCEPT !.next = p] = Element(p, v[m])
      BY <3>2 DEF Element
    <3>4. heap'[s[m]] = Element(p, v[m])
      BY <2>2, <2>4, <3>1, <3>3
    <3>5. \A a \in Addr \ {q} : a # s[m] => heap'[a] = with[a]
      BY <2>2, <2>4
    <3>6. heap'[p] = Element(NULL, w) /\ heap'[w] = String(str)
      BY <1>3, <1>4, <2>1, <3>1, <3>5
    <3>7. heap'[q] = QueueBlock(s[1], p, m + 1) /\ heap' = [a \in Addr |-> heap'[a]]
      BY <2>2, <2>4
    <3>8. QED
      BY <2>1, <2>4, <3>4, <3>5, <3>6, <3>7
  <2>5. QED
    BY <2>3, <2>4
<1>9. \A i \in 1 .. m + 1 : i # m + 1 => i \in 1 .. m
  BY <1>1
<1>10. \A i \in 1 .. m : i \in 1 .. m + 1 /\ i # m + 1 /\ i + 1 \in 1 .. m + 1
  BY <1>1
<1>11. /\ s2 \in [1 .. m + 1 -> Addr] /\ v2 \in [1 .. m + 1 -> Addr]
  BY <1>1, <1>9
<1>11a. /\ c2 \in [1 .. m + 1 -> Strings1] /\ c2 = Append(c, str)
      /\ \A i \in 1 .. m + 1 : c2[i] = IF i = m + 1 THEN str ELSE c[i]
  <2>1. m \in Nat /\ c \in [1 .. m -> Strings1] /\ str \in Strings1
    BY <1>1 DEF Strings1
  <2>2. Append(c, str) \in [1 .. m + 1 -> Strings1]
    BY ONLY <2>1, Appended
  <2>3. \A i \in 1 .. m + 1 : Append(c, str)[i] = IF i = m + 1 THEN str ELSE c[i]
    BY ONLY <2>1, Appended
  <2>4. QED
    BY <2>2, <2>3
<1> HIDE DEF c2
<1>12. \A i, j \in 1 .. m + 1 : s2[i] = s2[j] \/ v2[i] = v2[j] => i = j
  BY <1>1, <1>5, <1>6, <1>9
<1>13. \A i \in 1 .. m + 1 : /\ heap'[s2[i]] = Element(InOrder(s2, m + 1)[i], v2[i])
                             /\ heap'[v2[i]] = String(c2[i])
  <2> TAKE i \in 1 .. m + 1
  <2>1. InOrder(s2, m + 1)[i] = IF i = m + 1 THEN NULL ELSE s2[i + 1]
    BY DEF InOrder
  <2>2. CASE i = m + 1
    <3>1. s2[i] = p /\ v2[i] = w /\ c2[i] = str
      BY <1>11a, <2>2
    <3> HIDE DEF s2, v2
    <3>2. QED
      BY <1>8, <2>1, <2>2, <3>1
  <2>3. CASE i # m + 1
    <3>1. i \in 1 .. m /\ s2[i] = s[i] /\ v2[i] = v[i] /\ c2[i] = c[i]
      BY <1>9, <1>11a, <2>3
    <3>2. heap'[v[i]] = String(c[i])
      <4>1. m \in 1 .. m /\ v[i] # s[m] /\ v[i] \in Addr \ {q, p, w}
        BY <1>1, <1>5, <1>6, <3>1
      <4>2. QED
        BY <1>5, <1>8, <3>1, <4>1
    <3>3. CASE i = m
      <4>1. s2[i + 1] = p
        BY <3>3
      <4>2. m > 0
        BY <3>1
      <4> HIDE DEF s2, v2
      <4>3. QED
        BY <1>8, <2>1, <2>3, <3>1, <3>2, <3>3, <4>1, <4>2
    <3>4. CASE i # m
      <4>1. i + 1 \in 1 .. m /\ s2[i + 1] = s[i + 1]
        BY <1>1, <3>1, <3>4
      <4>2. m \in 1 .. m /\ s[i] # s[m] /\ s[i] \in Addr \ {q, p, w}
        BY <1>1, <1>5, <1>6, <3>1, <3>4
      <4>3. heap'[s[i]] = Element(s[i + 1], v[i])
        BY <1>5, <1>8, <3>1, <3>4, <4>2
      <4> HIDE DEF s2, v2
      <4>4. QED
        BY <2>1, <2>3, <3>1, <3>2, <4>1, <4>3
    <3>5. QED
      BY <3>3, <3>4
  <2>4. QED
    BY <2>2, <2>3
<1>14. \A a \in Addr : \/ heap'[a].kind = "free" \/ a = q
                       \/ \E i \in 1 .. m + 1 : a = s2[i] \/ a = v2[i]
  <2> TAKE a \in Addr
  <2>1. CASE a = q \/ a = p \/ a = w
    <3>1. m + 1 \in 1 .. m + 1 /\ s2[m + 1] = p /\ v2[m + 1] = w
      BY <1>1
    <3> HIDE DEF s2, v2
    <3>2. QED
      BY <2>1, <3>1
  <2>2. ASSUME NEW i \in 1 .. m, a = s[i] \/ a = v[i]
        PROVE  \E j \in 1 .. m + 1 : a = s2[j] \/ a = v2[j]
    <3>1. s2[i] = s[i] /\ v2[i] = v[i] /\ i \in 1 .. m + 1
      BY <1>10
    <3> HIDE DEF s2, v2
    <3>2. QED
      BY <2>2, <3>1
  <2>3. CASE /\ ~(a = q \/ a = p \/ a = w)
             /\ ~\E i \in 1 .. m : a = s[i] \/ a = v[i]
    <3>1. m = 0 \/ a # s[m]
      BY <1>1, <2>3
    <3>2. heap'[a] = heap[a] /\ heap[a].kind = "free"
      BY <1>7, <1>8, <2>3, <3>1
    <3>3. QED
      BY <3>2
  <2> HIDE DEF s2, v2
  <2>4. QED
    BY <2>1, <2>2, <2>3
<1>15. s2[m + 1] = p /\ s2[1] = (IF m = 0 THEN p ELSE s[1])
  BY <1>1
<1>16. heap'[q] = QueueBlock(s2[1], s2[m + 1], m + 1) /\ heap'[q].tail = s2[m + 1]
  <2> HIDE DEF s2
  <2>1. QED
    BY <1>8, <1>15 DEF QueueBlock
<1> HIDE DEF s2, v2
<1>18. Chained(s2, v2, c2, m + 1)'
  BY <1>1, <1>3, <1>12, <1>13, <1>14, <1>15, <1>16 DEF Chained, Cells
<1>19. QED
  BY <1>2, <1>8, <1>11, <1>11a, <1>18 DEF Listing, Lengths, HeapIsWhole

(* The first element taken: it was allocated with its string.              *)
LEMMA RemoveHeadKeeps ==
    ASSUME NEW m \in 0 .. MaxSize, NEW s \in Listing(m), NEW v \in Listing(m),
           NEW c \in Lengths(m), q \in Addr, HeapIsWhole, Chained(s, v, c, m),
           NEW bufsize, q_remove_head(bufsize), emptied' = (heap'[q].head = NULL)
    PROVE  /\ m # 0 /\ m - 1 \in 0 .. MaxSize /\ HeapIsWhole'
           /\ FreeIsLegal({heap[q].head, heap[heap[q].head].value})
           /\ heap[heap[heap[q].head].value].chars = c[1] /\ c[1] \in 0 .. MaxString
           /\ \E s2, v2 \in Listing(m - 1), c2 \in Lengths(m - 1) :
                 Chained(s2, v2, c2, m - 1)' /\ c2 = Tail(c)
<1> DEFINE s2 == [i \in 1 .. m - 1 |-> s[i + 1]]
           v2 == [i \in 1 .. m - 1 |-> v[i + 1]]
           c2 == Tail(c)
<1>0. WellChained(s, v, c, m)
  BY ChainHolds
<1>1. /\ m \in Nat /\ MaxSize \in Nat /\ m <= MaxSize /\ NULL \notin Addr
      /\ s \in [1 .. m -> Addr] /\ v \in [1 .. m -> Addr]
      /\ c \in [1 .. m -> 0 .. MaxString]
      /\ heap[q].kind = "queue" /\ heap[q].size = m
      /\ heap[q].head = IF m = 0 THEN NULL ELSE s[1]
      /\ m > 0 => heap[q].tail = s[m]
  BY <1>0 DEF WellChained
<1>2. /\ m # 0 /\ m - 1 \in 0 .. MaxSize /\ m > 0 /\ m - 1 \in Nat
      /\ 1 \in 1 .. m /\ m \in 1 .. m
  BY <1>1 DEF q_remove_head
<1>3. \A i \in 1 .. m : /\ s[i] \in Addr \ {q} /\ v[i] \in Addr \ {q}
                        /\ heap[s[i]] = Element(IF i = m THEN NULL ELSE s[i + 1], v[i])
                        /\ heap[v[i]] = String(c[i])
  BY <1>0 DEF WellChained
<1>4. /\ \A i, j \in 1 .. m : s[i] = s[j] \/ v[i] = v[j] => i = j
      /\ \A i, j \in 1 .. m : s[i] # v[j]
  BY <1>0 DEF WellChained
<1>5. \A a \in Addr : \/ heap[a].kind = "free" \/ a = q
                      \/ \E i \in 1 .. m : a = s[i] \/ a = v[i]
  BY <1>0 DEF WellChained
<1>6. /\ heap[q].head = s[1] /\ heap[s[1]].value = v[1]
      /\ heap[s[1]].next = (IF m = 1 THEN NULL ELSE s[1 + 1])
      /\ heap[v[1]].chars = c[1] /\ c[1] \in 0 .. MaxString
      /\ heap[s[1]].kind = "element" /\ heap[v[1]].kind = "string"
  <2>1. /\ heap[q].head = s[1] /\ heap[s[1]] = Element(IF m = 1 THEN NULL ELSE s[1 + 1], v[1])
        /\ heap[v[1]] = String(c[1]) /\ c[1] \in 0 .. MaxString
    <3>1. 1 = m <=> m = 1
      OBVIOUS
    <3>2. QED
      BY <1>1, <1>2, <1>3, <3>1
  <2>2. QED
    BY <2>1 DEF Element, String
<1>7. FreeIsLegal({s[1], v[1]})
  BY <1>2, <1>3, <1>6 DEF FreeIsLegal, allocated
<1>8. /\ heap' = [a \in Addr |-> heap'[a]] /\ q' = q
      /\ heap'[q] = QueueBlock(IF m = 1 THEN NULL ELSE s[1 + 1], s[m], m - 1)
      /\ heap'[s[1]] = FreeBlock /\ heap'[v[1]] = FreeBlock
      /\ \A a \in Addr \ {q, s[1], v[1]} : heap'[a] = heap[a]
  <2> DEFINE h == [heap EXCEPT ![q] = QueueBlock(IF m = 1 THEN NULL ELSE s[1 + 1], s[m], m - 1)]
  <2>1. heap' = HeapWithout(h, {s[1], v[1]}) /\ q' = q
    BY <1>1, <1>2, <1>6 DEF q_remove_head
  <2>2. /\ h[q] = QueueBlock(IF m = 1 THEN NULL ELSE s[1 + 1], s[m], m - 1)
        /\ \A a \in Addr \ {q} : h[a] = heap[a]
    BY DEF HeapIsWhole
  <2> HIDE DEF h
  <2>3. QED
    BY <1>2, <1>3, <2>1, <2>2 DEF HeapWithout
<1>9. \A i \in 1 .. m - 1 : i + 1 \in 1 .. m /\ i + 1 # 1 /\ i \in 1 .. m
  BY <1>1, <1>2
<1>10. /\ s2 \in [1 .. m - 1 -> Addr] /\ v2 \in [1 .. m - 1 -> Addr]
  BY <1>1, <1>9
<1>11a. /\ c2 \in [1 .. m - 1 -> Strings1] /\ c2 = Tail(c)
      /\ \A i \in 1 .. m - 1 : c2[i] = c[i + 1]
  <2>1. c \in [1 .. m -> Strings1]
    BY <1>1 DEF Strings1
  <2>2. m \in Nat \ {0}
    BY <1>1, <1>2
  <2>3. QED
    BY <2>2, <2>1, Behead
<1> HIDE DEF c2
<1>11. \A i, j \in 1 .. m - 1 : s2[i] = s2[j] \/ v2[i] = v2[j] => i = j
  <2> TAKE i, j \in 1 .. m - 1
  <2>1. s2[i] = s[i + 1] /\ s2[j] = s[j + 1] /\ v2[i] = v[i + 1] /\ v2[j] = v[j + 1]
    OBVIOUS
  <2>2. s[i + 1] = s[j + 1] \/ v[i + 1] = v[j + 1] => i + 1 = j + 1
    BY <1>4, <1>9
  <2>3. i + 1 = j + 1 => i = j
    BY <1>2
  <2> HIDE DEF s2, v2
  <2>4. QED
    BY <2>1, <2>2, <2>3
<1>12. \A i \in 1 .. m - 1 : /\ heap'[s2[i]] = Element(InOrder(s2, m - 1)[i], v2[i])
                             /\ heap'[v2[i]] = String(c2[i])
  <2> TAKE i \in 1 .. m - 1
  <2>1. InOrder(s2, m - 1)[i] = IF i = m - 1 THEN NULL ELSE s2[i + 1]
    BY DEF InOrder
  <2>2. PICK k \in 1 .. m : k = i + 1 /\ k # 1
    BY <1>9
  <2>3. s2[i] = s[k] /\ v2[i] = v[k] /\ c2[i] = c[k] /\ (i # m - 1 => s2[i + 1] = s[k + 1])
    BY <1>2, <1>11a, <2>2
  <2>4. (k = m) = (i = m - 1)
    BY <1>2, <2>2
  <2>5. s[k] \in Addr \ {q, s[1], v[1]} /\ v[k] \in Addr \ {q, s[1], v[1]}
    BY <1>2, <1>3, <1>4, <2>2
  <2>6. /\ heap'[s[k]] = Element(IF k = m THEN NULL ELSE s[k + 1], v[k])
        /\ heap'[v[k]] = String(c[k])
    BY <1>3, <1>8, <2>5
  <2> HIDE DEF s2, v2
  <2>7. QED
    BY <2>1, <2>3, <2>4, <2>6
<1>13. \A a \in Addr : \/ heap'[a].kind = "free" \/ a = q
                       \/ \E i \in 1 .. m - 1 : a = s2[i] \/ a = v2[i]
  <2> TAKE a \in Addr
  <2>1. CASE a = q
    BY <2>1
  <2>2. CASE a = s[1] \/ a = v[1]
    BY <1>8, <2>2 DEF FreeBlock
  <2>3. ASSUME NEW k \in 1 .. m, a = s[k] \/ a = v[k], k # 1
        PROVE  \E i \in 1 .. m - 1 : a = s2[i] \/ a = v2[i]
    <3>1. k - 1 \in 1 .. m - 1 /\ (k - 1) + 1 = k
      BY <1>2, <2>3
    <3>2. s2[k - 1] = s[k] /\ v2[k - 1] = v[k]
      BY <3>1
    <3> HIDE DEF s2, v2
    <3>3. QED
      BY <2>3, <3>1, <3>2
  <2>4. CASE /\ ~(a = q \/ a = s[1] \/ a = v[1])
             /\ ~\E k \in 1 .. m : a = s[k] \/ a = v[k]
    BY <1>5, <1>8, <2>4
  <2> HIDE DEF s2, v2
  <2>5. QED
    BY <2>1, <2>2, <2>3, <2>4
<1>14. m - 1 # 0 => /\ s2[1] = s[1 + 1] /\ s2[m - 1] = s[m]
  BY <1>2
<1>15. /\ heap'[q] = QueueBlock(IF m - 1 = 0 THEN NULL ELSE s2[1], heap'[q].tail, m - 1)
       /\ m - 1 > 0 => heap'[q].tail = s2[m - 1]
       /\ heap'[q].head = IF m - 1 = 0 THEN NULL ELSE s2[1]
  <2>1. (m = 1) = (m - 1 = 0) /\ (m - 1 > 0 => m - 1 # 0)
    BY <1>2
  <2>2. heap'[q].tail = s[m] /\ heap'[q].head = IF m = 1 THEN NULL ELSE s[1 + 1]
    BY <1>8 DEF QueueBlock
  <2> HIDE DEF s2
  <2>3. QED
    BY <1>8, <1>14, <2>1, <2>2
<1>16. m - 1 = 0 => emptied'
  BY <1>8, <1>15
<1> HIDE DEF s2, v2
<1>18. Chained(s2, v2, c2, m - 1)'
  BY <1>8, <1>11, <1>12, <1>13, <1>15, <1>16 DEF Chained, Cells
<1>19. QED
  BY <1>2, <1>6, <1>7, <1>8, <1>10, <1>11a, <1>18 DEF Listing, Lengths, HeapIsWhole

(* A queue of no elements.                                                 *)
LEMMA NewChains ==
    ASSUME HeapIsWhole, allocated = {}, NEW p \in Addr, q_new(p)
    PROVE  /\ q' \in Addr /\ HeapIsWhole' /\ <<>> \in Listing(0) /\ <<>> \in Lengths(0)
           /\ Chained(<<>>, <<>>, <<>>, 0)'
<1>1. /\ q' = p /\ heap' = [a \in Addr |-> heap'[a]]
      /\ heap'[p] = QueueBlock(NULL, NULL, 0)
      /\ \A a \in Addr \ {p} : heap'[a] = heap[a]
  BY DEF q_new, HeapIsWhole
<1>2. \A a \in Addr : heap[a].kind = "free"
  BY DEF allocated
<1>3. heap'[p].tail = NULL
  BY <1>1 DEF QueueBlock
<1>4. Cells(<<>>, <<>>, <<>>, InOrder(<<>>, 0), 0)'
  BY <1>1, <1>2 DEF Cells
<1>5. Chained(<<>>, <<>>, <<>>, 0)'
  BY <1>1, <1>3, <1>4 DEF Chained
<1>6. QED
  BY <1>1, <1>5 DEF HeapIsWhole, Listing, Lengths

(* The header and every element with its string are given back, and they   *)
(* were allocated.                                                         *)
LEMMA FreeFreesAll ==
    ASSUME NEW m \in 0 .. MaxSize, NEW s \in Listing(m), NEW v \in Listing(m),
           NEW c \in Lengths(m), q \in Addr, Chained(s, v, c, m),
           ~noallocate_mode, q_free
    PROVE  /\ HeapIsWhole' /\ q' = NULL /\ allocated' = {} /\ result' = TRUE
           /\ error_occurred' \in BOOLEAN /\ (error_occurred' => error_occurred)
           /\ ended' = ended
<1>0. WellChained(s, v, c, m) /\ Elements(First) = s
  BY ChainHolds, ElementsInOrder
<1> DEFINE last == {i \in DOMAIN s : s[i] = heap[q].tail}
           freed == {i \in DOMAIN s : \A l \in last : i <= l}
           blocks == {q} \cup UNION {{s[i], heap[s[i]].value} : i \in freed}
<1>1. /\ test_free(blocks, s # <<>> /\ last = {})
      /\ q' = NULL /\ result' = TRUE
  BY <1>0 DEF q_free
<1>2. /\ m \in Nat /\ NULL \notin Addr /\ DOMAIN s = 1 .. m /\ s \in [1 .. m -> Addr]
      /\ heap[q].kind = "queue"
      /\ m > 0 => heap[q].tail = s[m]
      /\ \A i \in 1 .. m : /\ s[i] \in Addr /\ v[i] \in Addr
                           /\ heap[s[i]] = Element(IF i = m THEN NULL ELSE s[i + 1], v[i])
                           /\ heap[v[i]] = String(c[i])
  BY <1>0 DEF WellChained
<1>3. \A i \in 1 .. m : /\ heap[s[i]].value = v[i] /\ heap[s[i]].kind = "element"
                        /\ heap[v[i]].kind = "string"
  BY CellsHold DEF Chained
<1>4. m > 0 => last = {m}
  <2>1. \A i, j \in 1 .. m : s[i] = s[j] => i = j
    BY <1>0 DEF WellChained
  <2>2. QED
    BY <1>2, <2>1
<1>5. freed = 1 .. m
  <2>1. CASE m = 0
    BY <1>2, <2>1
  <2>2. CASE m # 0
    BY <1>2, <1>4, <2>2
  <2>3. QED
    BY <2>1, <2>2
<1>6. ~(s # <<>> /\ last = {})
  <2>1. CASE m = 0
    BY <1>2, <2>1
  <2>2. CASE m # 0
    BY <1>2, <1>4, <2>2
  <2>3. QED
    BY <2>1, <2>2
<1> HIDE DEF last, freed
<1>7. blocks = {q} \cup UNION {{s[i], v[i]} : i \in 1 .. m}
  BY <1>3, <1>5
<1> HIDE DEF blocks
<1>8. FreeIsLegal(blocks)
  BY <1>2, <1>3, <1>7 DEF FreeIsLegal, allocated
<1>9. heap' = [a \in Addr |-> IF a \in blocks THEN FreeBlock ELSE heap[a]]
  BY <1>1 DEF test_free, HeapWithout
<1>10. \A a \in Addr : a \notin blocks => heap[a].kind = "free"
  <2> TAKE a \in Addr
  <2>1. \/ heap[a].kind = "free" \/ a = q
        \/ \E i \in 1 .. m : a = s[i] \/ a = v[i]
    BY <1>0 DEF WellChained
  <2>2. QED
    BY <1>7, <2>1
<1>11. allocated' = {}
  BY <1>9, <1>10 DEF allocated, FreeBlock
<1>12. /\ error_occurred' \in BOOLEAN /\ (error_occurred' => error_occurred)
       /\ ended' = ended
  BY <1>1, <1>6, <1>8 DEF test_free
<1>13. QED
  BY <1>1, <1>9, <1>11, <1>12 DEF HeapIsWhole

-----------------------------------------------------------------------------
(* q_reverse.                                                              *)

(* What a queue half reversed holds.                                       *)
WellTurned(s, v, c, m, k) ==
    /\ m \in Nat /\ k \in 0 .. m - 2 /\ NULL \notin Addr
    /\ s \in [1 .. m -> Addr] /\ v \in [1 .. m -> Addr]
    /\ heap[q] = QueueBlock(s[1], s[1], m) /\ heap[q].kind = "queue"
    /\ rev = [temp |-> s[k + 2], end |-> s[m], turns |-> k, was |-> c]
    /\ \A i \in 1 .. m : /\ s[i] \in Addr \ {q} /\ v[i] \in Addr \ {q}
                         /\ heap[s[i]] = Element(TurnedRound(s, m, k)[i], v[i])
                         /\ heap[v[i]] = String(c[i])
    /\ \A i, j \in 1 .. m : s[i] # v[j]
    /\ \A i, j \in 1 .. m : s[i] = s[j] \/ v[i] = v[j] => i = j
    /\ \A p \in Addr : \/ heap[p].kind = "free" \/ p = q
                       \/ \E i \in 1 .. m : p = s[i] \/ p = v[i]

LEMMA TurnedHolds ==
    ASSUME NEW m \in 0 .. MaxSize, NEW s \in Listing(m), NEW v \in Listing(m),
           NEW c \in Lengths(m), NEW k, q \in Addr, PartlyReversed(s, v, c, m, k)
    PROVE  WellTurned(s, v, c, m, k)
<1>1. m \in Nat /\ NULL \notin Addr
  BY SizeMaxAssumption, AddrAssumption
<1>2. s \in [1 .. m -> Addr] /\ v \in [1 .. m -> Addr]
  BY DEF Listing
<1>3. /\ k \in 0 .. m - 2 /\ heap[q] = QueueBlock(s[1], s[1], m)
      /\ rev = [temp |-> s[k + 2], end |-> s[m], turns |-> k, was |-> c]
      /\ Cells(s, v, c, TurnedRound(s, m, k), m)
  BY DEF PartlyReversed
<1>4. heap[q].kind = "queue"
  BY <1>3 DEF QueueBlock
<1>5. /\ \A i \in 1 .. m : s[i] # q /\ v[i] # q
      /\ \A i, j \in 1 .. m : s[i] # v[j]
  BY <1>3, <1>4, CellsApart
<1>6. /\ \A i \in 1 .. m : /\ heap[s[i]] = Element(TurnedRound(s, m, k)[i], v[i])
                           /\ heap[v[i]] = String(c[i])
      /\ \A i, j \in 1 .. m : s[i] = s[j] \/ v[i] = v[j] => i = j
      /\ \A p \in Addr : \/ heap[p].kind = "free" \/ p = q
                         \/ \E i \in 1 .. m : p = s[i] \/ p = v[i]
  BY <1>3 DEF Cells
<1>7. QED
  BY <1>1, <1>2, <1>3, <1>4, <1>5, <1>6 DEF WellTurned

(* The first element put behind the old tail.                              *)
LEMMA StartTurns ==
    ASSUME NEW m \in 0 .. MaxSize, NEW s \in Listing(m), NEW v \in Listing(m),
           NEW c \in Lengths(m), q \in Addr, HeapIsWhole, Chained(s, v, c, m),
           ~ReverseHasNoEffect, reverse_start, q' = q
    PROVE  HeapIsWhole' /\ PartlyReversed(s, v, c, m, 0)'
<1>0. WellChained(s, v, c, m) /\ Strings(First) = c
  BY ChainHolds, StringsInOrder
<1>1. /\ m \in Nat /\ NULL \notin Addr /\ s \in [1 .. m -> Addr]
      /\ heap[q] = QueueBlock(IF m = 0 THEN NULL ELSE s[1], heap[q].tail, m)
      /\ heap[q].size = m
      /\ heap[q].head = IF m = 0 THEN NULL ELSE s[1]
      /\ m > 0 => heap[q].tail = s[m]
  BY <1>0 DEF WellChained
<1>2. /\ First = IF m = 0 THEN NULL ELSE s[1]
      /\ q # NULL
  BY <1>1 DEF First
<1>3. m # 0 /\ m # 1 /\ m > 0 /\ 0 \in 0 .. m - 2 /\ {1, 2, m} \subseteq 1 .. m
  <2>1. m # 0 /\ m # 1
    BY <1>1, <1>2 DEF ReverseHasNoEffect
  <2>2. QED
    BY <1>1, <2>1
<1>4. /\ \A i \in 1 .. m : /\ s[i] \in Addr \ {q} /\ v[i] \in Addr \ {q}
                           /\ heap[s[i]] = Element(IF i = m THEN NULL ELSE s[i + 1], v[i])
                           /\ heap[v[i]] = String(c[i])
      /\ \A i, j \in 1 .. m : s[i] # v[j]
      /\ \A i, j \in 1 .. m : s[i] = s[j] \/ v[i] = v[j] => i = j
  BY <1>0 DEF WellChained
<1>5. /\ heap[s[1]] = Element(s[2], v[1]) /\ heap[s[m]] = Element(NULL, v[m])
      /\ s[1] # s[m] /\ s[1] \in Addr \ {q} /\ s[m] \in Addr \ {q}
      /\ heap[q] = QueueBlock(s[1], s[m], m)
      /\ heap[q].head = s[1] /\ heap[q].tail = s[m] /\ First = s[1]
  <2>1. 1 + 1 = 2
    OBVIOUS
  <2>2. QED
    BY <1>1, <1>2, <1>3, <1>4, <2>1
<1>6. /\ heap' = [a \in Addr |-> heap'[a]]
      /\ heap'[s[m]] = [heap[s[m]] EXCEPT !.next = s[1]]
      /\ heap'[s[1]] = [heap[s[1]] EXCEPT !.next = NULL]
      /\ heap'[q] = [heap[q] EXCEPT !.tail = s[1]]
      /\ \A a \in Addr \ {q, s[1], s[m]} : heap'[a] = heap[a]
  <2>1. heap' = [heap EXCEPT ![s[m]].next = s[1], ![s[1]].next = NULL, ![q].tail = s[1]]
    BY <1>5 DEF reverse_start
  <2>2. QED
    BY <1>5, <2>1 DEF HeapIsWhole
<1>7. /\ heap'[s[m]] = Element(s[1], v[m]) /\ heap'[s[1]] = Element(NULL, v[1])
      /\ heap'[q] = QueueBlock(s[1], s[1], m)
  BY <1>5, <1>6 DEF Element, QueueBlock
<1>8. rev' = [temp |-> s[0 + 2], end |-> s[m], turns |-> 0, was |-> c]
  <2>1. heap[s[1]].next = s[2] /\ 0 + 2 = 2
    BY <1>5 DEF Element
  <2>2. QED
    BY <1>0, <1>5, <2>1 DEF reverse_start
<1>9. \A i \in 1 .. m : /\ heap'[s[i]] = Element(TurnedRound(s, m, 0)[i], v[i])
                        /\ heap'[v[i]] = String(c[i])
  <2> TAKE i \in 1 .. m
  <2>1. TurnedRound(s, m, 0)[i] =
           IF i = m THEN s[1] ELSE IF i = 1 THEN NULL ELSE s[i + 1]
    <3>1. 0 + 1 = 1 /\ (i > 1 \/ i = 1)
      BY <1>1
    <3>2. QED
      BY <3>1 DEF TurnedRound
  <2>2. v[i] \in Addr \ {q, s[1], s[m]}
    BY <1>3, <1>4
  <2>3. CASE i = m
    BY <1>3, <1>4, <1>6, <1>7, <2>1, <2>2, <2>3
  <2>4. CASE i = 1
    BY <1>3, <1>4, <1>6, <1>7, <2>1, <2>2, <2>4
  <2>5. CASE i # m /\ i # 1
    <3>1. s[i] \in Addr \ {q, s[1], s[m]}
      BY <1>3, <1>4, <2>5
    <3>2. QED
      BY <1>4, <1>6, <2>1, <2>2, <2>5, <3>1
  <2>6. QED
    BY <2>3, <2>4, <2>5
<1>10. \A a \in Addr : \/ heap'[a].kind = "free" \/ a = q
                       \/ \E i \in 1 .. m : a = s[i] \/ a = v[i]
  <2>1. \A a \in Addr : \/ heap[a].kind = "free" \/ a = q
                        \/ \E i \in 1 .. m : a = s[i] \/ a = v[i]
    BY <1>0 DEF WellChained
  <2>2. QED
    BY <1>3, <1>6, <2>1
<1>11. Cells(s, v, c, TurnedRound(s, m, 0), m)'
  BY <1>4, <1>9, <1>10 DEF Cells
<1>12. QED
  BY <1>3, <1>6, <1>7, <1>8, <1>11 DEF PartlyReversed, HeapIsWhole

(* One more element put behind the old tail.                               *)
LEMMA TurnTurns ==
    ASSUME NEW m \in 0 .. MaxSize, NEW s \in Listing(m), NEW v \in Listing(m),
           NEW c \in Lengths(m), NEW k, q \in Addr, HeapIsWhole,
           PartlyReversed(s, v, c, m, k), reverse_turn, q' = q
    PROVE  HeapIsWhole' /\ PartlyReversed(s, v, c, m, k + 1)'
<1>0. WellTurned(s, v, c, m, k)
  BY TurnedHolds
<1>1. /\ m \in Nat /\ k \in 0 .. m - 2 /\ s \in [1 .. m -> Addr]
      /\ heap[q] = QueueBlock(s[1], s[1], m)
      /\ rev = [temp |-> s[k + 2], end |-> s[m], turns |-> k, was |-> c]
  BY <1>0 DEF WellTurned
<1>2. k + 2 # m
  BY <1>1 DEF reverse_turn
<1>3. /\ k \in Nat /\ k + 1 \in 0 .. m - 2 /\ k + 2 \in 1 .. m /\ m \in 1 .. m
      /\ k + 2 > k + 1 /\ (k + 1) + 1 = k + 2 /\ (k + 2) + 1 = (k + 1) + 2
      /\ k + 2 # 1 /\ (k + 2) - 1 = k + 1
  BY <1>1, <1>2
<1>4. /\ \A i \in 1 .. m : /\ s[i] \in Addr \ {q} /\ v[i] \in Addr \ {q}
                           /\ heap[s[i]] = Element(TurnedRound(s, m, k)[i], v[i])
                           /\ heap[v[i]] = String(c[i])
      /\ \A i, j \in 1 .. m : s[i] # v[j]
      /\ \A i, j \in 1 .. m : s[i] = s[j] \/ v[i] = v[j] => i = j
  BY <1>0 DEF WellTurned
<1>5. /\ TurnedRound(s, m, k)[m] = s[k + 1]
      /\ TurnedRound(s, m, k)[k + 2] = s[(k + 1) + 2]
  BY <1>2, <1>3 DEF TurnedRound
<1>6. /\ heap[s[m]] = Element(s[k + 1], v[m])
      /\ heap[s[k + 2]] = Element(s[(k + 1) + 2], v[k + 2])
      /\ s[m] # s[k + 2] /\ s[m] \in Addr \ {q} /\ s[k + 2] \in Addr \ {q}
  BY <1>2, <1>3, <1>4, <1>5
<1>7. /\ heap[s[m]].next = s[k + 1] /\ heap[s[k + 2]].next = s[(k + 1) + 2]
  BY <1>6 DEF Element
<1>8. /\ heap' = [a \in Addr |-> heap'[a]]
      /\ heap'[s[m]] = [heap[s[m]] EXCEPT !.next = s[k + 2]]
      /\ heap'[s[k + 2]] = [heap[s[k + 2]] EXCEPT !.next = s[k + 1]]
      /\ \A a \in Addr \ {s[k + 2], s[m]} : heap'[a] = heap[a]
  <2>1. heap' = [heap EXCEPT ![s[m]].next = s[k + 2], ![s[k + 2]].next = s[k + 1]]
    BY <1>1, <1>7 DEF reverse_turn
  <2>2. QED
    BY <1>6, <2>1 DEF HeapIsWhole
<1>9. /\ heap'[s[m]] = Element(s[k + 2], v[m])
      /\ heap'[s[k + 2]] = Element(s[k + 1], v[k + 2])
  BY <1>6, <1>8 DEF Element
<1>10. rev' = [temp |-> s[(k + 1) + 2], end |-> s[m], turns |-> k + 1, was |-> c]
  BY <1>1, <1>7 DEF reverse_turn
<1>11. heap'[q] = QueueBlock(s[1], s[1], m)
  BY <1>1, <1>6, <1>8
<1>12. \A i \in 1 .. m : /\ heap'[s[i]] = Element(TurnedRound(s, m, k + 1)[i], v[i])
                         /\ heap'[v[i]] = String(c[i])
  <2> TAKE i \in 1 .. m
  <2>1. TurnedRound(s, m, k + 1)[i] =
           IF i = m THEN s[k + 2] ELSE IF i = k + 2 THEN s[k + 1] ELSE TurnedRound(s, m, k)[i]
    <3>1. CASE i = m
      BY <1>3, <3>1 DEF TurnedRound
    <3>2. CASE i # m /\ i > k + 2
      <4>1. i > (k + 1) + 1 /\ i > k + 1 /\ i # k + 2
        BY <1>3, <3>2
      <4>2. QED
        BY <3>2, <4>1 DEF TurnedRound
    <3>3. CASE i # m /\ i = k + 2
      <4>1. ~(i > (k + 1) + 1)
        BY <1>3, <3>3
      <4>2. QED
        BY <1>3, <3>3, <4>1 DEF TurnedRound
    <3>4. CASE i # m /\ i <= k + 1
      <4>1. ~(i > (k + 1) + 1) /\ ~(i > k + 1) /\ i # k + 2
        BY <1>3, <3>4
      <4>2. QED
        BY <3>4, <4>1 DEF TurnedRound
    <3>5. i > k + 2 \/ i = k + 2 \/ i <= k + 1
      BY <1>3
    <3>6. QED
      BY <3>1, <3>2, <3>3, <3>4, <3>5
  <2>2. v[i] \in Addr \ {q, s[k + 2], s[m]}
    BY <1>3, <1>4
  <2>3. CASE i = m
    BY <1>4, <1>8, <1>9, <2>1, <2>2, <2>3
  <2>4. CASE i = k + 2
    BY <1>2, <1>4, <1>8, <1>9, <2>1, <2>2, <2>4
  <2>5. CASE i # m /\ i # k + 2
    <3>1. s[i] \in Addr \ {q, s[k + 2], s[m]}
      BY <1>3, <1>4, <2>5
    <3>2. QED
      BY <1>4, <1>8, <2>1, <2>2, <2>5, <3>1
  <2>6. QED
    BY <2>3, <2>4, <2>5
<1>13. \A a \in Addr : \/ heap'[a].kind = "free" \/ a = q
                       \/ \E i \in 1 .. m : a = s[i] \/ a = v[i]
  <2>1. \A a \in Addr : \/ heap[a].kind = "free" \/ a = q
                        \/ \E i \in 1 .. m : a = s[i] \/ a = v[i]
    BY <1>0 DEF WellTurned
  <2>2. QED
    BY <1>3, <1>8, <2>1
<1>14. Cells(s, v, c, TurnedRound(s, m, k + 1), m)'
  BY <1>4, <1>12, <1>13 DEF Cells
<1>15. QED
  BY <1>3, <1>8, <1>10, <1>11, <1>14 DEF PartlyReversed, HeapIsWhole

(* The old tail made the head: a queue in the opposite order.              *)
LEMMA EndKeeps ==
    ASSUME NEW m \in 0 .. MaxSize, NEW s \in Listing(m), NEW v \in Listing(m),
           NEW c \in Lengths(m), NEW k, q \in Addr, HeapIsWhole,
           PartlyReversed(s, v, c, m, k), reverse_end, q' = q
    PROVE  /\ HeapIsWhole' /\ rev' = NotReversing /\ rev.was = c
           /\ \E s2, v2 \in Listing(m), c2 \in Lengths(m) :
                 Chained(s2, v2, c2, m)' /\ c2 = Reverse(c)
<1> DEFINE s2 == [i \in 1 .. m |-> s[m - i + 1]]
           v2 == [i \in 1 .. m |-> v[m - i + 1]]
           c2 == Reverse(c)
<1>0. WellTurned(s, v, c, m, k)
  BY TurnedHolds
<1>1. /\ m \in Nat /\ k \in 0 .. m - 2 /\ NULL \notin Addr
      /\ s \in [1 .. m -> Addr] /\ v \in [1 .. m -> Addr]
      /\ heap[q] = QueueBlock(s[1], s[1], m)
      /\ rev = [temp |-> s[k + 2], end |-> s[m], turns |-> k, was |-> c]
  BY <1>0 DEF WellTurned
<1>2. /\ \A i \in 1 .. m : /\ s[i] \in Addr \ {q} /\ v[i] \in Addr \ {q}
                           /\ heap[s[i]] = Element(TurnedRound(s, m, k)[i], v[i])
                           /\ heap[v[i]] = String(c[i])
      /\ \A i, j \in 1 .. m : s[i] = s[j] \/ v[i] = v[j] => i = j
      /\ \A p \in Addr : \/ heap[p].kind = "free" \/ p = q
                         \/ \E i \in 1 .. m : p = s[i] \/ p = v[i]
  BY <1>0 DEF WellTurned
<1>3. k + 2 = m
  <2>1. k + 2 \in 1 .. m /\ m \in 1 .. m
    BY <1>1
  <2>2. s[k + 2] = s[m]
    BY <1>1 DEF reverse_end
  <2>3. QED
    BY <1>2, <2>1, <2>2
<1>4. /\ m > 0 /\ m # 0 /\ k + 1 = m - 1 /\ 1 \in 1 .. m /\ m \in 1 .. m
      /\ m - 1 + 1 = m /\ m - m + 1 = 1
  BY <1>1, <1>3
<1>5. \A i \in 1 .. m : TurnedRound(s, m, k)[i] = IF i = 1 THEN NULL ELSE s[i - 1]
  <2> TAKE i \in 1 .. m
  <2>1. ~(i # m /\ i > k + 1) /\ m # 1
    BY <1>1, <1>4
  <2>2. CASE i = m
    BY <1>4, <2>1, <2>2 DEF TurnedRound
  <2>3. CASE i # m
    BY <2>1, <2>3 DEF TurnedRound
  <2>4. QED
    BY <2>2, <2>3
<1>6. /\ heap' = [a \in Addr |-> heap'[a]] /\ rev' = NotReversing
      /\ heap'[q] = [heap[q] EXCEPT !.head = s[m]]
      /\ \A a \in Addr \ {q} : heap'[a] = heap[a]
  <2>1. heap' = [heap EXCEPT ![q].head = s[m]] /\ rev' = NotReversing
    <3>1. rev.temp = s[m]
      BY <1>1, <1>3
    <3>2. QED
      BY <3>1 DEF reverse_end
  <2>2. QED
    BY <2>1 DEF HeapIsWhole
<1>7. heap'[q] = QueueBlock(s[m], s[1], m) /\ heap'[q].tail = s[1]
  BY <1>1, <1>6 DEF QueueBlock
<1>8. \A i \in 1 .. m : m - i + 1 \in 1 .. m /\ m - (m - i + 1) + 1 = i
  BY <1>1
<1>9. s2 \in [1 .. m -> Addr] /\ v2 \in [1 .. m -> Addr]
  BY <1>1, <1>8
<1>10. c2 \in Lengths(m) /\ \A i \in 1 .. m : c2[i] = c[m - i + 1]
  BY <1>1, TurnedBack
<1> HIDE DEF c2
<1>11. \A i, j \in 1 .. m : s2[i] = s2[j] \/ v2[i] = v2[j] => i = j
  <2> TAKE i, j \in 1 .. m
  <2>1. /\ s2[i] = s[m - i + 1] /\ s2[j] = s[m - j + 1]
        /\ v2[i] = v[m - i + 1] /\ v2[j] = v[m - j + 1]
    OBVIOUS
  <2>2. /\ s[m - i + 1] = s[m - j + 1] \/ v[m - i + 1] = v[m - j + 1]
           => m - i + 1 = m - j + 1
    BY <1>2, <1>8
  <2>3. m - i + 1 = m - j + 1 => i = j
    BY <1>1
  <2> HIDE DEF s2, v2
  <2>4. QED
    BY <2>1, <2>2, <2>3
<1>12. \A i \in 1 .. m : /\ heap'[s2[i]] = Element(InOrder(s2, m)[i], v2[i])
                         /\ heap'[v2[i]] = String(c2[i])
  <2> TAKE i \in 1 .. m
  <2>1. InOrder(s2, m)[i] = IF i = m THEN NULL ELSE s2[i + 1]
    BY DEF InOrder
  <2>2. PICK j \in 1 .. m : j = m - i + 1
    BY <1>8
  <2>3. s2[i] = s[j] /\ v2[i] = v[j] /\ c2[i] = c[j]
    BY <1>10, <2>2
  <2>4. (i = m) = (j = 1) /\ (i # m => s2[i + 1] = s[j - 1])
    <3>1. (i = m) = (j = 1)
      BY <1>1, <2>2
    <3>2. ASSUME i # m PROVE i + 1 \in 1 .. m /\ m - (i + 1) + 1 = j - 1
      BY <1>1, <2>2, <3>2
    <3>3. QED
      BY <3>1, <3>2
  <2>5. /\ heap'[s[j]] = Element(IF j = 1 THEN NULL ELSE s[j - 1], v[j])
        /\ heap'[v[j]] = String(c[j])
    BY <1>2, <1>5, <1>6
  <2> HIDE DEF s2, v2
  <2>6. QED
    BY <2>1, <2>3, <2>4, <2>5
<1>13. \A a \in Addr : \/ heap'[a].kind = "free" \/ a = q
                       \/ \E i \in 1 .. m : a = s2[i] \/ a = v2[i]
  <2> TAKE a \in Addr
  <2>1. ASSUME NEW j \in 1 .. m, a = s[j] \/ a = v[j]
        PROVE  \E i \in 1 .. m : a = s2[i] \/ a = v2[i]
    <3>1. m - j + 1 \in 1 .. m /\ s2[m - j + 1] = s[j] /\ v2[m - j + 1] = v[j]
      BY <1>8
    <3> HIDE DEF s2, v2
    <3>2. QED
      BY <2>1, <3>1
  <2> HIDE DEF s2, v2
  <2>2. QED
    BY <1>2, <1>6, <2>1
<1>14. s2[1] = s[m] /\ s2[m] = s[1]
  BY <1>4
<1> HIDE DEF s2, v2
<1>15. Cells(s2, v2, c2, InOrder(s2, m), m)'
  BY <1>11, <1>12, <1>13 DEF Cells
<1>16. Chained(s2, v2, c2, m)'
  BY <1>4, <1>7, <1>14, <1>15 DEF Chained
<1>17. c2 = Reverse(c) /\ rev.was = c
  BY <1>1 DEF c2
<1>18. QED
  BY <1>6, <1>9, <1>10, <1>16, <1>17 DEF Listing, Lengths, HeapIsWhole

-----------------------------------------------------------------------------
(* What each action does to the contents.                                  *)

(* A queue that held c holds c2.                                           *)
Becomes(c, m, c2, m2) ==
    /\ q \in Addr /\ q' = q /\ HeapIsWhole'
    /\ c \in Lengths(m) /\ Queued(c, m)
    /\ m2 \in 0 .. MaxSize /\ c2 \in Lengths(m2) /\ Queued(c2, m2)'

(* The queue that is there when the tester is ready.                       *)
LEMMA ReadyIsChained ==
    ASSUME QueueInv, ~Reversing, q # NULL
    PROVE  \E m \in 0 .. MaxSize : \E s, v \in Listing(m), c \in Lengths(m) :
              Chained(s, v, c, m) /\ Queued(c, m) /\ q \in Addr /\ HeapIsWhole
<1>1. PICK m \in 0 .. MaxSize : \E c \in Lengths(m) : Queued(c, m)
  BY DEF QueueInv, QueueIsChained
<1>2. PICK c \in Lengths(m) : Queued(c, m)
  BY <1>1
<1>3. \E s, v \in Listing(m) : Chained(s, v, c, m)
  BY <1>2 DEF Queued
<1>4. q \in Addr /\ HeapIsWhole
  BY DEF QueueInv, TesterInStep
<1>5. QED
  BY <1>2, <1>3, <1>4

LEMMA InsertHeadEffect ==
    ASSUME ~HeadAfterEmptying, QueueInv, InsertHead
    PROVE  \E m \in 0 .. MaxSize : \E c \in Lengths(m), str \in Strings1 :
              Becomes(c, m, <<str>> \o c, m + 1)
<1>1. /\ ~Reversing /\ rev' = rev /\ q # NULL /\ heap[q].size < MaxSize /\ ~emptied
  BY DEF InsertHead, Ready, q_insert_head, Quiet
<1>2. PICK m \in 0 .. MaxSize : \E s, v \in Listing(m), c \in Lengths(m) :
              Chained(s, v, c, m) /\ Queued(c, m) /\ q \in Addr /\ HeapIsWhole
  BY <1>1, ReadyIsChained
<1>3. PICK s \in Listing(m), v \in Listing(m), c \in Lengths(m) :
              Chained(s, v, c, m) /\ Queued(c, m) /\ q \in Addr /\ HeapIsWhole
  BY <1>2
<1>4. PICK str \in Strings1, p \in Addr, w \in Addr : q_insert_head(str, p, w)
  BY DEF InsertHead
<1>5. m = 0 => heap[q].tail = NULL
  BY <1>1, <1>3 DEF Chained
<1>6. /\ m + 1 \in 0 .. MaxSize /\ HeapIsWhole'
      /\ \E s2, v2 \in Listing(m + 1), c2 \in Lengths(m + 1) :
            Chained(s2, v2, c2, m + 1)' /\ c2 = <<str>> \o c
  BY <1>1, <1>3, <1>4, <1>5, InsertHeadKeeps
<1>7. ~Reversing' /\ q' = q
  BY <1>1, <1>4 DEF Reversing, q_insert_head
<1>8. Queued(<<str>> \o c, m + 1)' /\ <<str>> \o c \in Lengths(m + 1)
  BY <1>6, <1>7 DEF Queued
<1>9. QED
  BY <1>3, <1>6, <1>7, <1>8 DEF Becomes

LEMMA InsertTailEffect ==
    ASSUME QueueInv, InsertTail
    PROVE  \E m \in 0 .. MaxSize : \E c \in Lengths(m), str \in Strings1 :
              Becomes(c, m, Append(c, str), m + 1)
<1>1. ~Reversing /\ rev' = rev /\ q # NULL /\ heap[q].size < MaxSize
  BY DEF InsertTail, Ready, q_insert_tail, Quiet
<1>2. PICK m \in 0 .. MaxSize : \E s, v \in Listing(m), c \in Lengths(m) :
              Chained(s, v, c, m) /\ Queued(c, m) /\ q \in Addr /\ HeapIsWhole
  BY <1>1, ReadyIsChained
<1>3. PICK s \in Listing(m), v \in Listing(m), c \in Lengths(m) :
              Chained(s, v, c, m) /\ Queued(c, m) /\ q \in Addr /\ HeapIsWhole
  BY <1>2
<1>4. PICK str \in Strings1, p \in Addr, w \in Addr : q_insert_tail(str, p, w)
  BY DEF InsertTail
<1>5. /\ m + 1 \in 0 .. MaxSize /\ HeapIsWhole'
      /\ \E s2, v2 \in Listing(m + 1), c2 \in Lengths(m + 1) :
            Chained(s2, v2, c2, m + 1)' /\ c2 = Append(c, str)
  BY <1>1, <1>3, <1>4, InsertTailKeeps
<1>6. ~Reversing' /\ q' = q
  BY <1>1, <1>4 DEF Reversing, q_insert_tail
<1>7. Queued(Append(c, str), m + 1)' /\ Append(c, str) \in Lengths(m + 1)
  BY <1>5, <1>6 DEF Queued
<1>8. QED
  BY <1>3, <1>5, <1>6, <1>7 DEF Becomes

(* A removal: the contents without the first, nothing freed that was not   *)
(* allocated, and no byte behind the buffer.                               *)
LEMMA RemoveHeadEffect ==
    ASSUME QueueInv, Ready, q # NULL, NEW bufsize \in 0 .. MaxString + 1,
           q_remove_head(bufsize), emptied' = (heap'[q].head = NULL)
    PROVE  /\ \E m \in 1 .. MaxSize : \E c \in Lengths(m) :
                 Becomes(c, m, Tail(c), m - 1)
           /\ error_occurred' = FALSE /\ ended' = "no" /\ RemoveFits'
<1>1. ~Reversing /\ rev' = rev /\ q # NULL /\ q' = q
  BY DEF Ready, q_remove_head
<1>2. PICK m \in 0 .. MaxSize : \E s, v \in Listing(m), c \in Lengths(m) :
              Chained(s, v, c, m) /\ Queued(c, m) /\ q \in Addr /\ HeapIsWhole
  BY <1>1, ReadyIsChained
<1>3. PICK s \in Listing(m), v \in Listing(m), c \in Lengths(m) :
              Chained(s, v, c, m) /\ Queued(c, m) /\ q \in Addr /\ HeapIsWhole
  BY <1>2
<1>4. /\ m # 0 /\ m - 1 \in 0 .. MaxSize /\ HeapIsWhole'
      /\ FreeIsLegal({heap[q].head, heap[heap[q].head].value})
      /\ heap[heap[heap[q].head].value].chars = c[1] /\ c[1] \in 0 .. MaxString
      /\ \E s2, v2 \in Listing(m - 1), c2 \in Lengths(m - 1) :
            Chained(s2, v2, c2, m - 1)' /\ c2 = Tail(c)
  BY <1>3, RemoveHeadKeeps
<1>5. ~Reversing' /\ m \in 1 .. MaxSize
  BY <1>1, <1>4, SizeMaxAssumption DEF Reversing
<1>6. Queued(Tail(c), m - 1)' /\ Tail(c) \in Lengths(m - 1)
  BY <1>4, <1>5 DEF Queued
<1>7. Becomes(c, m, Tail(c), m - 1)
  BY <1>1, <1>3, <1>4, <1>6 DEF Becomes
<1>8. error_occurred' = FALSE /\ ended' = "no"
  <2>1. ~error_occurred /\ ~noallocate_mode /\ ended = "no"
    BY DEF Ready, QueueInv, TesterInStep
  <2>2. QED
    BY <1>4, <2>1 DEF q_remove_head
<1>9. RemoveFits'
  <2>1. PICK l \in 0 .. MaxString : l = c[1]
    BY <1>4
  <2>2. PICK room \in Int : room = (bufsize - 1) % (SIZE_MAX + 1)
    BY SizeMaxAssumption
  <2>3. bufsize > 0 => room = bufsize - 1
    <3>1. bufsize > 0 => bufsize - 1 \in 0 .. SIZE_MAX
      BY SizeMaxAssumption
    <3>2. \A b \in 0 .. SIZE_MAX : b % (SIZE_MAX + 1) = b
      BY SizeMaxAssumption
    <3>3. QED
      BY <2>2, <3>1, <3>2
  <2>4. copied' = [string |-> l, bytes |-> (IF l < room THEN l ELSE room) + 1,
                   bufsize |-> bufsize]
    BY <1>4, <2>1, <2>2 DEF q_remove_head, remove_copies
  <2>5. /\ bufsize > 0 => (IF l < room THEN l ELSE room) + 1 <= bufsize
        /\ bufsize > l => (IF l < room THEN l ELSE room) + 1 \in {0, l + 1}
    BY <2>3, SizeMaxAssumption
  <2>6. QED
    BY <2>4, <2>5 DEF RemoveFits
<1>10. QED
  BY <1>5, <1>7, <1>8, <1>9

(* The queue reversed, in three kinds of step.                             *)
LEMMA ReverseCallEffect ==
    ASSUME QueueInv, ReverseCall
    PROVE  /\ \E m \in 0 .. MaxSize : \E c \in Lengths(m) : Becomes(c, m, c, m)
           /\ at' = "looping" => Reversing'
           /\ at' = "returned" => ~Reversing'
<1>1. /\ ~Reversing /\ q # NULL /\ q' = q /\ emptied' = emptied
      /\ at = "setup"
  BY DEF ReverseCall, Moves, QueueInv, TesterInStep
<1>2. PICK m \in 0 .. MaxSize : \E s, v \in Listing(m), c \in Lengths(m) :
              Chained(s, v, c, m) /\ Queued(c, m) /\ q \in Addr /\ HeapIsWhole
  BY <1>1, ReadyIsChained
<1>3. PICK s \in Listing(m), v \in Listing(m), c \in Lengths(m) :
              Chained(s, v, c, m) /\ Queued(c, m) /\ q \in Addr /\ HeapIsWhole
  BY <1>2
<1>4. CASE ReverseHasNoEffect
  <2>1. UNCHANGED <<heap, rev>> /\ at' = "returned"
    BY <1>4 DEF ReverseCall, Moves
  <2>2. ~Reversing' /\ Chained(s, v, c, m)' /\ HeapIsWhole'
    <3>1. ~Reversing'
      BY <1>1, <2>1 DEF Reversing
    <3>2. Chained(s, v, c, m)'
      BY <1>1, <1>3, <2>1 DEF Chained, Cells
    <3>3. HeapIsWhole'
      BY <1>3, <2>1 DEF HeapIsWhole
    <3>4. QED
      BY <3>1, <3>2, <3>3
  <2>3. Queued(c, m)'
    BY <2>2 DEF Queued
  <2>4. QED
    BY <1>1, <1>3, <2>1, <2>2, <2>3 DEF Becomes
<1>5. CASE ~ReverseHasNoEffect
  <2>1. reverse_start /\ at' = "looping"
    BY <1>5 DEF ReverseCall, Moves
  <2>2. HeapIsWhole' /\ PartlyReversed(s, v, c, m, 0)'
    BY <1>1, <1>3, <1>5, <2>1, StartTurns
  <2>3. Reversing' /\ 0 \in 0 .. m
    <3>1. rev' = [temp |-> s[0 + 2], end |-> s[m], turns |-> 0, was |-> c] /\ 0 \in 0 .. m - 2
      BY <2>2 DEF PartlyReversed
    <3>2. s[0 + 2] # NULL
      <4>1. m \in Nat /\ 0 + 2 \in 1 .. m
        BY <3>1, SizeMaxAssumption
      <4>2. s[0 + 2] \in Addr
        BY <4>1 DEF Listing
      <4>3. QED
        BY <4>2, AddrAssumption
    <3>3. QED
      BY <3>1, <3>2 DEF Reversing, NotReversing
  <2>4. Queued(c, m)'
    BY <2>2, <2>3 DEF Queued
  <2>5. QED
    BY <1>1, <1>3, <2>1, <2>2, <2>3, <2>4 DEF Becomes
<1>6. QED
  BY <1>4, <1>5

(* The queue that is there while q_reverse runs.                           *)
LEMMA LoopingIsTurned ==
    ASSUME QueueInv, at = "looping"
    PROVE  \E m \in 0 .. MaxSize : \E s, v \in Listing(m), c \in Lengths(m), k \in 0 .. m :
              /\ PartlyReversed(s, v, c, m, k) /\ Queued(c, m)
              /\ q \in Addr /\ HeapIsWhole /\ Reversing
<1>1. Reversing /\ q \in Addr /\ HeapIsWhole /\ q # NULL
  BY AddrAssumption DEF QueueInv, TesterInStep
<1>2. PICK m \in 0 .. MaxSize : \E c \in Lengths(m) : Queued(c, m)
  BY <1>1 DEF QueueInv, QueueIsChained
<1>3. PICK c \in Lengths(m) : Queued(c, m)
  BY <1>2
<1>4. \E s, v \in Listing(m), k \in 0 .. m : PartlyReversed(s, v, c, m, k)
  BY <1>1, <1>3 DEF Queued
<1>5. QED
  BY <1>1, <1>3, <1>4

LEMMA ReverseTurnEffect ==
    ASSUME QueueInv, ReverseTurn
    PROVE  /\ \E m \in 0 .. MaxSize : \E c \in Lengths(m) : Becomes(c, m, c, m)
           /\ Reversing'
<1>1. at = "looping" /\ q' = q /\ reverse_turn
  BY DEF ReverseTurn, Moves
<1>2. PICK m \in 0 .. MaxSize :
         \E s, v \in Listing(m), c \in Lengths(m), k \in 0 .. m :
              /\ PartlyReversed(s, v, c, m, k) /\ Queued(c, m)
              /\ q \in Addr /\ HeapIsWhole /\ Reversing
  BY <1>1, LoopingIsTurned
<1>3. PICK s \in Listing(m), v \in Listing(m), c \in Lengths(m), k \in 0 .. m :
              /\ PartlyReversed(s, v, c, m, k) /\ Queued(c, m)
              /\ q \in Addr /\ HeapIsWhole /\ Reversing
  BY <1>2
<1>4. HeapIsWhole' /\ PartlyReversed(s, v, c, m, k + 1)'
  BY <1>1, <1>3, TurnTurns
<1>5. Reversing' /\ k + 1 \in 0 .. m
  <2>1. /\ k + 1 \in 0 .. m - 2
        /\ rev' = [temp |-> s[(k + 1) + 2], end |-> s[m], turns |-> k + 1, was |-> c]
    BY <1>4 DEF PartlyReversed
  <2>2. m \in Nat /\ k + 1 # 0 /\ k + 1 \in 0 .. m
    BY <2>1, SizeMaxAssumption
  <2>3. QED
    BY <2>1, <2>2 DEF Reversing, NotReversing
<1>6. Queued(c, m)'
  BY <1>4, <1>5 DEF Queued
<1>7. QED
  BY <1>1, <1>3, <1>4, <1>5, <1>6 DEF Becomes

LEMMA ReverseReturnEffect ==
    ASSUME QueueInv, ReverseReturn
    PROVE  /\ \E m \in 0 .. MaxSize : \E c \in Lengths(m) : Becomes(c, m, Reverse(c), m)
           /\ ~Reversing' /\ Reversing
<1>1. at = "looping" /\ q' = q /\ reverse_end
  BY DEF ReverseReturn, Moves
<1>2. PICK m \in 0 .. MaxSize :
         \E s, v \in Listing(m), c \in Lengths(m), k \in 0 .. m :
              /\ PartlyReversed(s, v, c, m, k) /\ Queued(c, m)
              /\ q \in Addr /\ HeapIsWhole /\ Reversing
  BY <1>1, LoopingIsTurned
<1>3. PICK s \in Listing(m), v \in Listing(m), c \in Lengths(m), k \in 0 .. m :
              /\ PartlyReversed(s, v, c, m, k) /\ Queued(c, m)
              /\ q \in Addr /\ HeapIsWhole /\ Reversing
  BY <1>2
<1>4. /\ HeapIsWhole' /\ rev' = NotReversing
      /\ \E s2, v2 \in Listing(m), c2 \in Lengths(m) :
            Chained(s2, v2, c2, m)' /\ c2 = Reverse(c)
  BY <1>1, <1>3, EndKeeps
<1>5. ~Reversing'
  BY <1>4 DEF Reversing
<1>6. Queued(Reverse(c), m)' /\ Reverse(c) \in Lengths(m)
  BY <1>4, <1>5 DEF Queued
<1>7. QED
  BY <1>1, <1>3, <1>4, <1>5, <1>6 DEF Becomes

(* Where neither the blocks nor the variables of q_reverse change, the     *)
(* contents do not.                                                        *)
LEMMA SameContents ==
    ASSUME QueueInv, q # NULL, UNCHANGED <<heap, q, rev, emptied>>
    PROVE  \E m \in 0 .. MaxSize : \E c \in Lengths(m) : Becomes(c, m, c, m)
<1>1. PICK m \in 0 .. MaxSize : \E c \in Lengths(m) : Queued(c, m)
  BY DEF QueueInv, QueueIsChained
<1>2. PICK c \in Lengths(m) : Queued(c, m)
  BY <1>1
<1>3. /\ Reversing' = Reversing
      /\ q \in Addr /\ q' = q /\ HeapIsWhole'
  BY DEF Reversing, QueueInv, TesterInStep, HeapIsWhole
<1>4. CASE Reversing
  <2>1. PICK s \in Listing(m), v \in Listing(m), k \in 0 .. m : PartlyReversed(s, v, c, m, k)
    BY <1>2, <1>4 DEF Queued
  <2>2. PartlyReversed(s, v, c, m, k)'
    BY <2>1 DEF PartlyReversed, Cells
  <2>3. Queued(c, m)'
    BY <1>3, <1>4, <2>2 DEF Queued
  <2>4. QED
    BY <1>2, <1>3, <2>3 DEF Becomes
<1>5. CASE ~Reversing
  <2>1. PICK s \in Listing(m), v \in Listing(m) : Chained(s, v, c, m)
    BY <1>2, <1>5 DEF Queued
  <2>2. Chained(s, v, c, m)'
    BY <2>1 DEF Chained, Cells
  <2>3. Queued(c, m)'
    BY <1>3, <1>5, <2>2 DEF Queued
  <2>4. QED
    BY <1>2, <1>3, <2>3 DEF Becomes
<1>6. QED
  BY <1>4, <1>5

-----------------------------------------------------------------------------
(* The invariant.                                                          *)

LEMMA QueueInvInit == TestInit => QueueInv
<1> SUFFICES ASSUME TestInit PROVE QueueInv
  OBVIOUS
<1> USE DEF TestInit, HarnessInit, QueueInit
<1>1. HeapIsWhole /\ allocated = {}
  BY DEF HeapIsWhole, allocated, FreeBlock
<1>2. ~Reversing /\ q = NULL
  BY DEF Reversing
<1>3. TesterInStep
  BY <1>1, <1>2 DEF TesterInStep
<1>4. QueueIsChained
  BY <1>2 DEF QueueIsChained
<1>5. RemoveFits
  BY DEF RemoveFits, NothingCopied
<1>6. QED
  BY <1>1, <1>3, <1>4, <1>5 DEF QueueInv

LEMMA BecomesChained ==
    ASSUME \E m \in 0 .. MaxSize : \E c \in Lengths(m) : Becomes(c, m, c, m)
    PROVE  HeapIsWhole' /\ QueueIsChained' /\ q' = q /\ q \in Addr
BY DEF Becomes, QueueIsChained

(* Where no block moves, the list stays as it is.                          *)
LEMMA NothingMoves ==
    ASSUME QueueInv, UNCHANGED <<heap, q, rev, emptied>>
    PROVE  HeapIsWhole' /\ QueueIsChained' /\ allocated' = allocated /\ Reversing' = Reversing
<1>1. HeapIsWhole' /\ allocated' = allocated /\ Reversing' = Reversing
  BY DEF QueueInv, HeapIsWhole, allocated, Reversing
<1>2. CASE q = NULL
  BY <1>1, <1>2 DEF QueueIsChained
<1>3. CASE q # NULL
  BY <1>1, <1>3, SameContents, BecomesChained
<1>4. QED
  BY <1>2, <1>3

LEMMA NothingCopiedFits ==
    ASSUME copied' = NothingCopied
    PROVE  RemoveFits'
BY DEF RemoveFits, NothingCopied

(* Every step keeps the invariant, and an error is the time limit's.       *)
LEMMA QueueInvStep ==
    ASSUME ~HeadAfterEmptying, QueueInv, [TestNext]_testVars
    PROVE  QueueInv' /\ (error_occurred' => error_occurred \/ alarm)
<1> DEFINE Goal == QueueInv' /\ (error_occurred' => error_occurred \/ alarm)
<1>0. /\ TesterInStep /\ HeapIsWhole /\ QueueIsChained /\ RemoveFits
      /\ NULL \notin Addr /\ q \in Addr \cup {NULL}
      /\ Ready => at = "idle" /\ ~noallocate_mode /\ ~jmp_ready /\ ~alarm
                  /\ ~time_limited /\ ~Reversing /\ ~error_occurred /\ ended = "no"
  BY AddrAssumption DEF QueueInv, TesterInStep, Ready
<1>1. CASE New
  <2>1. /\ Ready /\ q = NULL /\ emptied' = FALSE /\ at' = at /\ copied' = NothingCopied
        /\ error_occurred' = error_occurred /\ ended' = ended
        /\ UNCHANGED <<modeVars, rev>>
    BY <1>1 DEF New, q_new, q_new_fails, Quiet
  <2>2. allocated = {} /\ Reversing' = Reversing
    BY <1>0, <2>1 DEF TesterInStep, Reversing
  <2>3. CASE q_new_fails
    <3>1. q' = NULL /\ heap' = heap
      BY <2>3 DEF q_new_fails
    <3>2. HeapIsWhole' /\ QueueIsChained' /\ allocated' = {}
      BY <1>0, <2>2, <3>1 DEF HeapIsWhole, QueueIsChained, allocated
    <3>3. TesterInStep'
      BY <1>0, <2>1, <2>2, <3>1, <3>2 DEF TesterInStep, modeVars
    <3>4. QED
      BY <2>1, <3>2, <3>3, NothingCopiedFits DEF QueueInv
  <2>4. ASSUME NEW p \in Addr, q_new(p) PROVE Goal
    <3>1. /\ q' \in Addr /\ HeapIsWhole' /\ <<>> \in Listing(0) /\ <<>> \in Lengths(0)
          /\ Chained(<<>>, <<>>, <<>>, 0)'
      BY <1>0, <2>2, <2>4, NewChains
    <3>2. ~Reversing' /\ 0 \in 0 .. MaxSize /\ q' # NULL
      BY <1>0, <2>1, <2>2, <3>1, SizeMaxAssumption
    <3>3. QueueIsChained'
      BY <3>1, <3>2 DEF QueueIsChained, Queued
    <3>4. TesterInStep'
      BY <1>0, <2>1, <3>1, <3>2 DEF TesterInStep, modeVars
    <3>5. QED
      BY <2>1, <3>1, <3>3, <3>4, NothingCopiedFits DEF QueueInv
  <2>5. QED
    BY <1>1, <2>3, <2>4 DEF New
<1>2. CASE Free
  <2>1. /\ Ready /\ q # NULL /\ q_free /\ at' = at /\ emptied' = emptied
        /\ copied' = NothingCopied /\ UNCHANGED <<modeVars, rev>>
    BY <1>2 DEF Free, q_free, Quiet
  <2>2. PICK m \in 0 .. MaxSize : \E s, v \in Listing(m), c \in Lengths(m) :
                Chained(s, v, c, m) /\ Queued(c, m) /\ q \in Addr /\ HeapIsWhole
    BY <1>0, <2>1, ReadyIsChained
  <2>3. /\ HeapIsWhole' /\ q' = NULL /\ allocated' = {}
        /\ error_occurred' \in BOOLEAN /\ (error_occurred' => error_occurred)
        /\ ended' = ended
    BY <1>0, <2>1, <2>2, FreeFreesAll
  <2>4. ~Reversing' /\ QueueIsChained'
    BY <1>0, <2>1, <2>3 DEF Reversing, QueueIsChained
  <2>5. TesterInStep'
    BY <1>0, <2>1, <2>3, <2>4 DEF TesterInStep, modeVars
  <2>6. QED
    BY <2>1, <2>3, <2>4, <2>5, NothingCopiedFits DEF QueueInv
<1>3. CASE InsertFails
  <2>1. /\ UNCHANGED <<heap, q, rev, emptied>>
        /\ UNCHANGED <<modeVars, error_occurred, ended, at>> /\ copied' = NothingCopied
    BY <1>3 DEF InsertFails, insert_NoString, returns_false, Quiet
  <2>2. HeapIsWhole' /\ QueueIsChained' /\ allocated' = allocated /\ Reversing' = Reversing
    BY <2>1, NothingMoves
  <2>3. TesterInStep'
    BY <1>0, <2>1, <2>2 DEF TesterInStep, modeVars
  <2>4. QED
    BY <2>1, <2>2, <2>3, NothingCopiedFits DEF QueueInv
<1>4. CASE InsertHead
  <2>1. /\ Ready /\ emptied' = FALSE /\ at' = at /\ rev' = rev /\ copied' = NothingCopied
        /\ UNCHANGED <<modeVars, error_occurred, ended>> /\ q # NULL
    BY <1>4 DEF InsertHead, q_insert_head, Quiet
  <2>2. HeapIsWhole' /\ QueueIsChained' /\ q' = q /\ q \in Addr
    BY <1>4, InsertHeadEffect DEF Becomes, QueueIsChained
  <2>3. Reversing' = Reversing
    BY <2>1 DEF Reversing
  <2>4. TesterInStep'
    BY <1>0, <2>1, <2>2, <2>3 DEF TesterInStep, modeVars
  <2>5. QED
    BY <2>1, <2>2, <2>4, NothingCopiedFits DEF QueueInv
<1>5. CASE InsertTail
  <2>1. /\ Ready /\ emptied' = FALSE /\ at' = at /\ rev' = rev /\ copied' = NothingCopied
        /\ UNCHANGED <<modeVars, error_occurred, ended>> /\ q # NULL
    BY <1>5 DEF InsertTail, q_insert_tail, Quiet
  <2>2. HeapIsWhole' /\ QueueIsChained' /\ q' = q /\ q \in Addr
    BY <1>5, InsertTailEffect DEF Becomes, QueueIsChained
  <2>3. Reversing' = Reversing
    BY <2>1 DEF Reversing
  <2>4. TesterInStep'
    BY <1>0, <2>1, <2>2, <2>3 DEF TesterInStep, modeVars
  <2>5. QED
    BY <2>1, <2>2, <2>4, NothingCopiedFits DEF QueueInv
<1>6. CASE RemoveHead
  <2>1. Ready /\ at' = at
    BY <1>6 DEF RemoveHead
  <2>2. CASE q_remove_head_empty /\ UNCHANGED emptied
    <3>1. /\ UNCHANGED <<heap, q, rev, emptied>>
          /\ UNCHANGED <<modeVars, error_occurred, ended, at>> /\ copied' = NothingCopied
      BY <2>1, <2>2 DEF q_remove_head_empty, returns_false, Quiet
    <3>2. HeapIsWhole' /\ QueueIsChained' /\ allocated' = allocated /\ Reversing' = Reversing
      BY <3>1, NothingMoves
    <3>3. TesterInStep'
      BY <1>0, <3>1, <3>2 DEF TesterInStep, modeVars
    <3>4. QED
      BY <3>1, <3>2, <3>3, NothingCopiedFits DEF QueueInv
  <2>3. ASSUME q # NULL, NEW bufsize \in 0 .. MaxString + 1, q_remove_head(bufsize),
               emptied' = (heap'[q].head = NULL)
        PROVE  Goal
    <3>1. /\ \E m \in 1 .. MaxSize : \E c \in Lengths(m) : Becomes(c, m, Tail(c), m - 1)
          /\ error_occurred' = FALSE /\ ended' = "no" /\ RemoveFits'
      BY <2>1, <2>3, RemoveHeadEffect
    <3>2. HeapIsWhole' /\ QueueIsChained' /\ q' = q /\ q \in Addr
      BY <3>1 DEF Becomes, QueueIsChained
    <3>3. UNCHANGED <<modeVars, rev>> /\ Reversing' = Reversing
      BY <2>3 DEF q_remove_head, Reversing
    <3>4. emptied' \in BOOLEAN
      BY <2>3
    <3>5. TesterInStep'
      BY <1>0, <2>1, <2>3, <3>1, <3>2, <3>3, <3>4 DEF TesterInStep, modeVars
    <3>6. QED
      BY <3>1, <3>2, <3>5 DEF QueueInv
  <2>4. QED
    BY <1>6, <2>2, <2>3 DEF RemoveHead
<1>7. CASE Disallow
  <2>1. /\ UNCHANGED <<heap, q, rev, emptied>> /\ copied' = NothingCopied
        /\ Ready /\ q # NULL /\ at' = "setup" /\ noallocate_mode' = TRUE /\ jmp_ready' = TRUE
        /\ time_limited' = TRUE /\ alarm' = TRUE /\ UNCHANGED <<error_occurred, ended>>
    BY <1>7 DEF Disallow, set_noallocate_mode, exception_setup
  <2>2. HeapIsWhole' /\ QueueIsChained' /\ allocated' = allocated /\ Reversing' = Reversing
    BY <2>1, NothingMoves
  <2>3. TesterInStep'
    BY <1>0, <2>1, <2>2 DEF TesterInStep
  <2>4. QED
    BY <2>1, <2>2, <2>3, NothingCopiedFits DEF QueueInv
<1>8. CASE ReverseCall
  <2>1. /\ \E m \in 0 .. MaxSize : \E c \in Lengths(m) : Becomes(c, m, c, m)
        /\ at' = "looping" => Reversing'
        /\ at' = "returned" => ~Reversing'
    BY <1>8, ReverseCallEffect
  <2>2. HeapIsWhole' /\ QueueIsChained' /\ q' = q /\ q \in Addr
    BY <2>1, BecomesChained
  <2>3. /\ at = "setup" /\ at' \in {"looping", "returned"} /\ copied' = copied
        /\ UNCHANGED <<modeVars, error_occurred, ended, emptied>>
    BY <1>8 DEF ReverseCall, Moves
  <2>4. TesterInStep'
    BY <1>0, <2>1, <2>2, <2>3 DEF TesterInStep, modeVars
  <2>5. RemoveFits'
    BY <1>0, <2>3 DEF RemoveFits
  <2>6. QED
    BY <2>2, <2>3, <2>4, <2>5 DEF QueueInv
<1>9. CASE ReverseTurn
  <2>1. /\ \E m \in 0 .. MaxSize : \E c \in Lengths(m) : Becomes(c, m, c, m)
        /\ Reversing'
    BY <1>9, ReverseTurnEffect
  <2>2. HeapIsWhole' /\ QueueIsChained' /\ q' = q /\ q \in Addr
    BY <2>1, BecomesChained
  <2>3. /\ at = "looping" /\ at' = "looping" /\ copied' = copied
        /\ UNCHANGED <<modeVars, error_occurred, ended, emptied>>
    BY <1>9 DEF ReverseTurn, Moves
  <2>4. TesterInStep'
    BY <1>0, <2>1, <2>2, <2>3 DEF TesterInStep, modeVars
  <2>5. RemoveFits'
    BY <1>0, <2>3 DEF RemoveFits
  <2>6. QED
    BY <2>2, <2>3, <2>4, <2>5 DEF QueueInv
<1>10. CASE ReverseReturn
  <2>1. /\ \E m \in 0 .. MaxSize : \E c \in Lengths(m) : Becomes(c, m, Reverse(c), m)
        /\ ~Reversing' /\ Reversing
    BY <1>10, ReverseReturnEffect
  <2>2. HeapIsWhole' /\ QueueIsChained' /\ q' = q /\ q \in Addr
    BY <2>1 DEF Becomes, QueueIsChained
  <2>3. /\ at = "looping" /\ at' = "returned" /\ copied' = copied
        /\ UNCHANGED <<modeVars, error_occurred, ended, emptied>>
    BY <1>10 DEF ReverseReturn, Moves
  <2>4. TesterInStep'
    BY <1>0, <2>1, <2>2, <2>3 DEF TesterInStep, modeVars
  <2>5. RemoveFits'
    BY <1>0, <2>3 DEF RemoveFits
  <2>6. QED
    BY <2>2, <2>3, <2>4, <2>5 DEF QueueInv
<1>11. ASSUME UNCHANGED <<heap, q, rev, emptied>>, copied' = copied, TesterInStep',
              error_occurred' => error_occurred \/ alarm
       PROVE  Goal
  <2>1. HeapIsWhole' /\ QueueIsChained'
    BY <1>11, NothingMoves
  <2>2. RemoveFits'
    BY <1>0, <1>11 DEF RemoveFits
  <2>3. QED
    BY <1>11, <2>1, <2>2 DEF QueueInv
<1>12. UNCHANGED <<heap, q, rev, emptied>> =>
          allocated' = allocated /\ Reversing' = Reversing
  BY DEF allocated, Reversing
<1> USE DEF queueVars, modeVars
<1>13. CASE CancelAlarm
  <2>1. UNCHANGED <<heap, q, rev, emptied>> /\ copied' = copied /\ error_occurred' = error_occurred
    BY <1>13 DEF CancelAlarm
  <2>2. /\ at = "returned" /\ at' = "cancelling" /\ ended' = ended
        /\ UNCHANGED <<noallocate_mode, jmp_ready>> /\ time_limited' = FALSE
        /\ alarm' = IF time_limited THEN FALSE ELSE alarm
    BY <1>13 DEF CancelAlarm, Moves, cancel_alarm
  <2>3. alarm' = FALSE
    BY <1>0, <2>2 DEF TesterInStep
  <2>4. TesterInStep'
    <3>1. TesterInStep /\ allocated' = allocated /\ Reversing' = Reversing
      BY <1>0, <1>12, <2>1
    <3>2. QED
      BY ONLY <2>1, <2>2, <2>3, <3>1 DEF TesterInStep
  <2>5. QED
    BY <1>11, <2>1, <2>4
<1>14. CASE CancelJump
  <2>1. UNCHANGED <<heap, q, rev, emptied>> /\ copied' = copied /\ error_occurred' = error_occurred
    BY <1>14 DEF CancelJump
  <2>2. TesterInStep'
    BY <1>0, <1>12, <1>14, <2>1
       DEF TesterInStep, CancelJump, Moves, cancel_jump, set_noallocate_mode
  <2>3. QED
    BY <1>11, <2>1, <2>2
<1>15. CASE Alarm
  <2>1. UNCHANGED <<heap, q, rev, emptied>> /\ copied' = copied /\ alarm
    BY <1>15 DEF Alarm
  <2>2. /\ at' = "idle" /\ noallocate_mode' = FALSE /\ error_occurred' = TRUE /\ ended' = ended
        /\ jmp_ready' = FALSE /\ time_limited' = FALSE /\ alarm' = FALSE
    BY <1>0, <1>15, <2>1 DEF TesterInStep, Alarm, trigger_exception
  <2>3. TesterInStep'
    <3>1. TesterInStep /\ allocated' = allocated /\ Reversing' = Reversing
      BY <1>0, <1>12, <2>1
    <3>2. QED
      BY ONLY <2>1, <2>2, <3>1 DEF TesterInStep
  <2>4. QED
    BY <1>11, <2>1, <2>3
<1>16. CASE ErrorCheck
  <2>1. UNCHANGED <<heap, q, rev, emptied>> /\ copied' = copied /\ error_occurred' = FALSE
    BY <1>16 DEF ErrorCheck, error_check
  <2>2. UNCHANGED <<noallocate_mode, jmp_ready, time_limited, alarm, ended, at>>
    BY <1>16 DEF ErrorCheck
  <2>3. TesterInStep'
    <3>1. TesterInStep /\ allocated' = allocated /\ Reversing' = Reversing
      BY <1>0, <1>12, <2>1
    <3>2. QED
      BY ONLY <2>1, <2>2, <3>1 DEF TesterInStep
  <2>4. QED
    BY <1>11, <2>1, <2>3
<1>17. CASE UNCHANGED testVars
  <2>1. UNCHANGED <<heap, q, rev, emptied>> /\ copied' = copied /\ error_occurred' = error_occurred
    BY <1>17 DEF testVars, vars, harnessVars
  <2>2. TesterInStep'
    BY <1>0, <1>12, <1>17, <2>1 DEF TesterInStep, testVars, vars, harnessVars
  <2>3. QED
    BY <1>11, <2>1, <2>2
<1>18. QED
  BY <1>1, <1>2, <1>3, <1>4, <1>5, <1>6, <1>7, <1>8, <1>9, <1>10, <1>13, <1>14, <1>15,
     <1>16, <1>17 DEF TestNext

(* As long as nothing is inserted at the head of a queue that removals     *)
(* have emptied, the elements are a list of so many as the header says, in *)
(* every state of a test.                                                  *)
THEOREM QueueInvariant ==
    ASSUME ~HeadAfterEmptying
    PROVE  TestSpec => []QueueInv
<1>1. QueueInv /\ [TestNext]_testVars => QueueInv'
  BY QueueInvStep
<1>2. QED
  BY <1>1, QueueInvInit, PTL DEF TestSpec

-----------------------------------------------------------------------------
(* What follows from the invariant.                                        *)

(* What is allocated is the header and every element with its string: a    *)
(* failed insertion, a removal and q_free give back all they should.       *)
THEOREM NothingIsLost ==
    ASSUME ~HeadAfterEmptying
    PROVE  TestSpec => []OnlyTheQueueIsAllocated
<1>1. ASSUME QueueInv PROVE OnlyTheQueueIsAllocated
  <2> SUFFICES ASSUME ~Reversing
               PROVE  allocated = ({q} \ {NULL})
                         \cup UNION {{Elements(First)[i], heap[Elements(First)[i]].value} :
                                        i \in DOMAIN Elements(First)}
    BY DEF OnlyTheQueueIsAllocated
  <2>1. CASE q = NULL
    <3>1. allocated = {}
      BY <1>1, <2>1 DEF QueueInv, TesterInStep
    <3>2. Elements(First) = <<>>
      BY <2>1, <3>1, ElementsOfNone
    <3>3. DOMAIN Elements(First) = {}
      BY <3>2
    <3>4. QED
      BY <2>1, <3>1, <3>3
  <2>2. CASE q # NULL
    <3>1. PICK m \in 0 .. MaxSize : \E s, v \in Listing(m), c \in Lengths(m) :
                  Chained(s, v, c, m) /\ Queued(c, m) /\ q \in Addr /\ HeapIsWhole
      BY <1>1, <2>2, ReadyIsChained
    <3>2. PICK s \in Listing(m), v \in Listing(m), c \in Lengths(m) :
                  Chained(s, v, c, m) /\ Queued(c, m) /\ q \in Addr /\ HeapIsWhole
      BY <3>1
    <3>3. Elements(First) = s /\ DOMAIN s = 1 .. m
      BY <3>2, ElementsInOrder DEF Listing
    <3>4. WellChained(s, v, c, m)
      BY <3>2, ChainHolds
    <3>5. \A i \in 1 .. m : /\ heap[s[i]].value = v[i] /\ heap[s[i]].kind = "element"
                            /\ heap[v[i]].kind = "string"
      BY <3>2, CellsHold DEF Chained
    <3>6. allocated = {q} \cup UNION {{s[i], v[i]} : i \in 1 .. m}
      <4>1. heap[q].kind = "queue" /\ \A i \in 1 .. m : s[i] \in Addr /\ v[i] \in Addr
        BY <3>4 DEF WellChained
      <4>2. \A p \in Addr : \/ heap[p].kind = "free" \/ p = q
                            \/ \E i \in 1 .. m : p = s[i] \/ p = v[i]
        BY <3>4 DEF WellChained
      <4>3. QED
        BY <3>2, <3>5, <4>1, <4>2 DEF allocated
    <3>7. UNION {{s[i], v[i]} : i \in 1 .. m} = UNION {{s[i], heap[s[i]].value} : i \in DOMAIN s}
      BY <3>3, <3>5
    <3>8. QED
      BY <2>2, <3>3, <3>6, <3>7
  <2>3. QED
    BY <2>1, <2>2
<1>2. QED
  BY <1>1, QueueInvariant, PTL

(* The loop of q_reverse does not run past the old tail, whatever the      *)
(* length of the queue.                                                    *)
THEOREM ReverseEnds ==
    ASSUME ~HeadAfterEmptying
    PROVE  TestSpec => []ReverseTurnsBounded
<1>1. ASSUME QueueInv PROVE ReverseTurnsBounded
  <2> SUFFICES ASSUME Reversing PROVE rev.turns <= Len(rev.was) - 2
    BY DEF ReverseTurnsBounded
  <2>1. q # NULL
    BY <1>1 DEF QueueInv, TesterInStep
  <2>2. PICK m \in 0 .. MaxSize : \E c \in Lengths(m) : Queued(c, m)
    BY <1>1, <2>1 DEF QueueInv, QueueIsChained
  <2>3. PICK c \in Lengths(m) : Queued(c, m)
    BY <2>2
  <2>4. PICK s \in Listing(m), v \in Listing(m), k \in 0 .. m : PartlyReversed(s, v, c, m, k)
    BY <2>3 DEF Queued
  <2>5. rev.turns = k /\ rev.was = c /\ k \in 0 .. m - 2
    BY <2>4 DEF PartlyReversed
  <2>6. m \in Nat /\ Len(c) = m
    <3>1. m \in Nat /\ c \in [1 .. m -> Strings1]
      BY SizeMaxAssumption DEF Lengths
    <3>2. c \in Seq(Strings1)
      BY <3>1, SeqDef
    <3>3. QED
      BY <3>1, <3>2
  <2>7. QED
    BY <2>5, <2>6
<1>2. QED
  BY <1>1, QueueInvariant, PTL

(* No command of a test breaks the tester: nothing is freed that is not    *)
(* allocated, malloc and free are not called where they may not be, and    *)
(* nothing is written behind a buffer.                                     *)
THEOREM CommandsAreSurvived ==
    ASSUME ~HeadAfterEmptying
    PROVE  TestSpec => TesterSurvives
<1>1. ASSUME QueueInv, [TestNext]_testVars
      PROVE  [/\ ended' = "no"
              /\ RemoveFits'
              /\ error_occurred' => error_occurred \/ alarm]_testVars
  <2>1. QueueInv' /\ (error_occurred' => error_occurred \/ alarm)
    BY <1>1, QueueInvStep
  <2>2. QED
    BY <2>1 DEF QueueInv, TesterInStep
<1>2. QED
  BY <1>1, QueueInvariant, PTL DEF TestSpec, TesterSurvives

-----------------------------------------------------------------------------
(* The queue behaves as a sequence.                                        *)

(* The contents as the sequence sees them.                                 *)
Items == IF Reversing THEN rev.was ELSE Strings(First)

Seen(c, m) == q # NULL /\ q_size = m /\ Len(c) = m /\ Items = c

NoneSeen == q = NULL /\ q_size = 0 /\ Items = <<>>

LEMMA ContentsSeen ==
    ASSUME NEW m \in 0 .. MaxSize, NEW c \in Lengths(m), q \in Addr, Queued(c, m)
    PROVE  Seen(c, m)
<1>1. m \in Nat /\ Len(c) = m /\ q # NULL
  <2>1. m \in Nat /\ c \in [1 .. m -> Strings1] /\ q # NULL
    BY SizeMaxAssumption, AddrAssumption DEF Lengths
  <2>2. c \in Seq(Strings1)
    BY <2>1, SeqDef
  <2>3. QED
    BY <2>1, <2>2
<1>2. CASE Reversing
  <2>1. PICK s \in Listing(m), v \in Listing(m), k \in 0 .. m : PartlyReversed(s, v, c, m, k)
    BY <1>2 DEF Queued
  <2>2. rev.was = c /\ heap[q].size = m
    BY <2>1 DEF PartlyReversed, QueueBlock
  <2>3. QED
    BY <1>1, <1>2, <2>2 DEF Seen, Items, q_size
<1>3. CASE ~Reversing
  <2>1. PICK s \in Listing(m), v \in Listing(m) : Chained(s, v, c, m)
    BY <1>3 DEF Queued
  <2>2. Strings(First) = c /\ heap[q].size = m
    BY <2>1, StringsInOrder DEF Chained, QueueBlock
  <2>3. QED
    BY <1>1, <1>3, <2>2 DEF Seen, Items, q_size
<1>4. QED
  BY <1>2, <1>3

LEMMA ContentsSeenNext ==
    ASSUME NEW m \in 0 .. MaxSize, NEW c \in Lengths(m)
    PROVE  q' \in Addr /\ Queued(c, m)' => Seen(c, m)'
<1> DEFINE There == q \in Addr /\ Queued(c, m)
           Said == Seen(c, m)
<1>1. There => Said
  BY ContentsSeen
<1> HIDE DEF There, Said
<1>2. There' => Said'
  BY <1>1, PTL
<1>3. QED
  BY <1>2 DEF There, Said

(* A change of the contents, as the sequence sees it.                      *)
LEMMA ChangeSeen ==
    ASSUME NEW m \in 0 .. MaxSize, NEW c, NEW c2, NEW m2, Becomes(c, m, c2, m2)
    PROVE  Seen(c, m) /\ Seen(c2, m2)'
<1>1. /\ q \in Addr /\ q' = q /\ c \in Lengths(m) /\ Queued(c, m)
      /\ m2 \in 0 .. MaxSize /\ c2 \in Lengths(m2) /\ Queued(c2, m2)'
  BY DEF Becomes
<1>2. QED
  BY <1>1, ContentsSeen, ContentsSeenNext

LEMMA NoQueueSeen == QueueInv /\ q = NULL => NoneSeen
<1> SUFFICES ASSUME QueueInv, q = NULL PROVE NoneSeen
  OBVIOUS
<1>1. ~Reversing /\ allocated = {}
  BY DEF QueueInv, TesterInStep
<1>2. QED
  BY <1>1, ElementsOfNone DEF NoneSeen, Items, q_size

LEMMA NoQueueSeenNext == QueueInv' /\ q' = NULL => NoneSeen'
<1> DEFINE There == QueueInv /\ q = NULL
<1>1. There => NoneSeen
  BY NoQueueSeen
<1> HIDE DEF There
<1>2. There' => NoneSeen'
  BY <1>1, PTL
<1>3. QED
  BY <1>2 DEF There

(* Where no block moves, the sequence sees nothing.                        *)
LEMMA SameSeen ==
    ASSUME QueueInv, QueueInv', UNCHANGED <<heap, q, rev, emptied>>
    PROVE  Items' = Items /\ q_size' = q_size /\ q' = q
<1>1. CASE q = NULL
  <2>1. NoneSeen /\ NoneSeen'
    BY <1>1, NoQueueSeen, NoQueueSeenNext
  <2>2. QED
    BY <2>1 DEF NoneSeen
<1>2. CASE q # NULL
  <2>1. PICK m \in 0 .. MaxSize : \E c \in Lengths(m) : Becomes(c, m, c, m)
    BY <1>2, SameContents
  <2>2. PICK c \in Lengths(m) : Becomes(c, m, c, m)
    BY <2>1
  <2>3. Seen(c, m) /\ Seen(c, m)'
    BY <2>2, ChangeSeen
  <2>4. QED
    BY <2>3 DEF Seen
<1>3. QED
  BY <1>1, <1>2

(* The steps of the sequence, in terms of what it sees.                    *)
LEMMA StepsSeen ==
    /\ \A c, m, c2, m2 : /\ Seen(c, m) /\ Seen(c2, m2)' /\ result' = TRUE
                         => D!Does(c2)
    /\ Items' = Items /\ q_size' = q_size /\ q' = q /\ result' = result
         => UNCHANGED D!vars
    /\ Items' = Items /\ q_size' = q_size /\ (q' # NULL) = (q # NULL) /\ result' = FALSE
         => D!Fails
BY DEF Seen, Items, D!Does, D!Holds, D!vars, D!Fails

LEMMA DequeStep ==
    ASSUME ~HeadAfterEmptying, QueueInv, QueueInv', [TestNext]_testVars
    PROVE  [D!Next]_(D!vars)
<1>1. CASE New
  <2>1. q = NULL /\ NoneSeen
    BY <1>1, NoQueueSeen DEF New
  <2>2. CASE q_new_fails
    <3>1. q' = NULL /\ result' = FALSE /\ NoneSeen'
      BY <2>2, NoQueueSeenNext DEF q_new_fails
    <3>2. D!Fails
      BY <2>1, <3>1, StepsSeen DEF NoneSeen
    <3>3. QED
      BY <3>2 DEF D!Next
  <2>3. ASSUME NEW p \in Addr, q_new(p) PROVE D!New
    <3>1. allocated = {} /\ ~Reversing /\ HeapIsWhole
      BY <2>1 DEF QueueInv, TesterInStep
    <3>2. /\ q' \in Addr /\ <<>> \in Listing(0) /\ <<>> \in Lengths(0)
          /\ Chained(<<>>, <<>>, <<>>, 0)'
      BY <2>3, <3>1, NewChains
    <3>3. ~Reversing' /\ result' = TRUE
      BY <2>3, <3>1 DEF q_new, Quiet, Reversing
    <3>4. Queued(<<>>, 0)' /\ 0 \in 0 .. MaxSize
      BY <3>2, <3>3, SizeMaxAssumption DEF Queued
    <3>5. Seen(<<>>, 0)'
      BY <3>2, <3>4, ContentsSeenNext
    <3>6. QED
      BY <2>1, <3>3, <3>5 DEF NoneSeen, Seen, Items, D!New, D!Holds
  <2>4. QED
    BY <1>1, <2>2, <2>3 DEF New, D!Next
<1>2. CASE Free
  <2>1. /\ Ready /\ q # NULL /\ q_free /\ ~noallocate_mode /\ ~Reversing
    BY <1>2 DEF Free, Ready, QueueInv, TesterInStep
  <2>2. PICK m \in 0 .. MaxSize : \E s, v \in Listing(m), c \in Lengths(m) :
                Chained(s, v, c, m) /\ Queued(c, m) /\ q \in Addr /\ HeapIsWhole
    BY <2>1, ReadyIsChained
  <2>3. q' = NULL /\ result' = TRUE
    BY <2>1, <2>2, FreeFreesAll
  <2>4. NoneSeen'
    BY <2>3, NoQueueSeenNext
  <2>5. D!Free
    BY <2>1, <2>3, <2>4 DEF NoneSeen, Items, D!Free, D!Holds
  <2>6. QED
    BY <2>5 DEF D!Next
<1>3. CASE InsertFails
  <2>1. UNCHANGED <<heap, q, rev, emptied>> /\ result' = FALSE
    BY <1>3 DEF InsertFails, insert_NoString, returns_false, Quiet
  <2>2. D!Fails
    BY <2>1, SameSeen, StepsSeen
  <2>3. QED
    BY <2>2 DEF D!Next
<1>4. CASE InsertHead
  <2>1. PICK m \in 0 .. MaxSize : \E c \in Lengths(m), str \in Strings1 :
              Becomes(c, m, <<str>> \o c, m + 1)
    BY <1>4, InsertHeadEffect
  <2>2. PICK c \in Lengths(m), str \in Strings1 : Becomes(c, m, <<str>> \o c, m + 1)
    BY <2>1
  <2>3. Seen(c, m) /\ Seen(<<str>> \o c, m + 1)' /\ result' = TRUE
    BY <1>4, <2>2, ChangeSeen DEF InsertHead, q_insert_head
  <2>4. D!Does(<<str>> \o c) /\ Items = c /\ q # NULL
    BY <2>3, StepsSeen DEF Seen
  <2>5. D!InsertHead
    BY <2>4 DEF D!InsertHead, Items
  <2>6. QED
    BY <2>5 DEF D!Next
<1>5. CASE InsertTail
  <2>1. PICK m \in 0 .. MaxSize : \E c \in Lengths(m), str \in Strings1 :
              Becomes(c, m, Append(c, str), m + 1)
    BY <1>5, InsertTailEffect
  <2>2. PICK c \in Lengths(m), str \in Strings1 : Becomes(c, m, Append(c, str), m + 1)
    BY <2>1
  <2>3. Seen(c, m) /\ Seen(Append(c, str), m + 1)' /\ result' = TRUE
    BY <1>5, <2>2, ChangeSeen DEF InsertTail, q_insert_tail
  <2>4. D!Does(Append(c, str)) /\ Items = c /\ q # NULL
    BY <2>3, StepsSeen DEF Seen
  <2>5. D!InsertTail
    BY <2>4 DEF D!InsertTail, Items
  <2>6. QED
    BY <2>5 DEF D!Next
<1>6. CASE RemoveHead
  <2>1. CASE q_remove_head_empty /\ UNCHANGED emptied
    <3>1. UNCHANGED <<heap, q, rev, emptied>> /\ result' = FALSE
      BY <2>1 DEF q_remove_head_empty, returns_false, Quiet
    <3>2. D!Fails
      BY <3>1, SameSeen, StepsSeen
    <3>3. QED
      BY <3>2 DEF D!Next
  <2>2. ASSUME q # NULL, NEW bufsize \in 0 .. MaxString + 1, q_remove_head(bufsize),
               emptied' = (heap'[q].head = NULL)
        PROVE  D!RemoveHead
    <3>1. PICK m \in 1 .. MaxSize : \E c \in Lengths(m) : Becomes(c, m, Tail(c), m - 1)
      BY <1>6, <2>2, RemoveHeadEffect DEF RemoveHead
    <3>2. PICK c \in Lengths(m) : Becomes(c, m, Tail(c), m - 1)
      BY <3>1
    <3>3. m \in 0 .. MaxSize /\ m # 0
      BY SizeMaxAssumption
    <3>4. Seen(c, m) /\ Seen(Tail(c), m - 1)' /\ result' = TRUE
      BY <2>2, <3>2, <3>3, ChangeSeen DEF q_remove_head
    <3>5. D!Does(Tail(c)) /\ Items = c /\ q # NULL /\ Len(c) = m
      BY <3>4, StepsSeen DEF Seen
    <3>6. c # <<>>
      BY <3>3, <3>5
    <3>7. QED
      BY <3>5, <3>6 DEF D!RemoveHead, Items
  <2>3. QED
    BY <1>6, <2>1, <2>2 DEF RemoveHead, D!Next
<1>7. ASSUME UNCHANGED <<heap, q, rev, emptied, result>>
      PROVE  UNCHANGED D!vars
  BY <1>7, SameSeen, StepsSeen
<1>8. ASSUME \E m \in 0 .. MaxSize : \E c \in Lengths(m) : Becomes(c, m, c, m),
             result' = result
      PROVE  UNCHANGED D!vars
  <2>1. PICK m \in 0 .. MaxSize : \E c \in Lengths(m) : Becomes(c, m, c, m)
    BY <1>8
  <2>2. PICK c \in Lengths(m) : Becomes(c, m, c, m)
    BY <2>1
  <2>3. Seen(c, m) /\ Seen(c, m)' /\ q' = q
    BY <2>2, ChangeSeen DEF Becomes
  <2>4. QED
    BY <1>8, <2>3, StepsSeen DEF Seen
<1>9. CASE ReverseCall
  BY <1>8, <1>9, ReverseCallEffect DEF ReverseCall
<1>10. CASE ReverseTurn
  BY <1>8, <1>10, ReverseTurnEffect DEF ReverseTurn
<1>11. CASE ReverseReturn
  <2>1. PICK m \in 0 .. MaxSize : \E c \in Lengths(m) : Becomes(c, m, Reverse(c), m)
    BY <1>11, ReverseReturnEffect
  <2>2. PICK c \in Lengths(m) : Becomes(c, m, Reverse(c), m)
    BY <2>1
  <2>3. Seen(c, m) /\ Seen(Reverse(c), m)' /\ result' = TRUE
    BY <1>11, <2>2, ChangeSeen DEF ReverseReturn
  <2>4. D!Does(Reverse(c)) /\ Items = c /\ q # NULL
    BY <2>3, StepsSeen DEF Seen
  <2>5. D!DoesReverse
    BY <2>4 DEF D!DoesReverse, Items, Reverse, D!Reverse
  <2>6. QED
    BY <2>5 DEF D!Next
<1>12. CASE Disallow \/ CancelAlarm \/ CancelJump \/ Alarm \/ ErrorCheck
  BY <1>7, <1>12 DEF Disallow, CancelAlarm, CancelJump, Alarm, ErrorCheck, queueVars
<1>13. CASE UNCHANGED testVars
  BY <1>7, <1>13 DEF testVars, vars, harnessVars, queueVars
<1>14. QED
  BY <1>1, <1>2, <1>3, <1>4, <1>5, <1>6, <1>9, <1>10, <1>11, <1>12, <1>13 DEF TestNext

LEMMA DequeInit == TestInit => D!Init
<1> SUFFICES ASSUME TestInit PROVE D!Init
  OBVIOUS
<1>1. NoneSeen
  BY QueueInvInit, NoQueueSeen DEF TestInit, QueueInit
<1>2. QED
  BY <1>1 DEF D!Init, NoneSeen, Items, TestInit, QueueInit

(* The linked list behaves as the sequence that the comments of queue.c    *)
(* describe, whatever the order of the commands and whichever call of      *)
(* malloc fails.                                                           *)
THEOREM QueueRefines ==
    ASSUME ~HeadAfterEmptying
    PROVE  TestSpec => ImplementsDeque
<1>1. QueueInv /\ QueueInv' /\ [TestNext]_testVars => [D!Next]_(D!vars)
  BY DequeStep
<1>2. QED
  BY <1>1, DequeInit, QueueInvariant, PTL DEF TestSpec, ImplementsDeque, D!Spec

=============================================================================
