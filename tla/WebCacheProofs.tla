--------------------------- MODULE WebCacheProofs ---------------------------
(***************************************************************************)
(* What the routines of WebCache return and preserve, for every number of  *)
(* nodes and every size of the cache.  The proofs follow the list as a     *)
(* sequence of nodes: a walk meets its elements in turn, an insertion puts *)
(* a node in front of it and a removal takes one out.                      *)
(***************************************************************************)
EXTENDS WebCache, FiniteSetTheorems, TLAPS

(* The allocated blocks, each linked to the one in front and behind.       *)
Chained(s, m) ==
    /\ \A i, j \in 1 .. m : s[i] = s[j] => i = j
    /\ \A n \in Node : n \in Allocated <=> \E i \in 1 .. m : s[i] = n
    /\ head = IF m = 0 THEN NULL ELSE s[1]
    /\ \A i \in 1 .. m :
          /\ block[s[i]].next = IF i = m THEN NULL ELSE s[i + 1]
          /\ block[s[i]].prev = IF i = 1 THEN NULL ELSE s[i - 1]

OnAChain == \E m \in 0 .. Cardinality(Node) : \E s \in [1 .. m -> Node] : Chained(s, m)

CacheInv == CacheTypeOK /\ OnAChain /\ BytesAddUp /\ OneBlockPerUri

-----------------------------------------------------------------------------
(* Naturals and finite sets.                                               *)

(* A non-empty set of naturals has a smallest element.                     *)
LEMMA LeastExists ==
    ASSUME NEW T \in SUBSET Nat, T # {}
    PROVE  \E x \in T : \A y \in T : x <= y
<1>1. PICK x \in T : \A y \in T : ~(<<y, x>> \in OpToRel(<, Nat))
  BY NatLessThanWellFounded, WFMin
<1>2. \A y \in T : ~(y < x)
  BY <1>1 DEF OpToRel
<1>3. QED
  BY <1>2

(* A non-empty set of finite sets has one of the fewest elements.          *)
LEMMA FewestExists ==
    ASSUME NEW S, IsFiniteSet(S), NEW B \in SUBSET (SUBSET S), B # {}
    PROVE  \E T \in B : \A U \in B : Cardinality(T) <= Cardinality(U)
<1>1. \A T \in B : Cardinality(T) \in Nat
  BY FS_Subset, FS_CardinalityType
<1>. DEFINE C == {Cardinality(T) : T \in B}
<1>2. C \in SUBSET Nat /\ C # {}
  BY <1>1
<1>3. PICK c \in C : \A d \in C : c <= d
  BY <1>2, LeastExists
<1>4. PICK T \in B : c = Cardinality(T)
  BY <1>3
<1>. QED
  BY <1>3, <1>4

(* A sequence without repetitions is no longer than the set it draws on.   *)
LEMMA NoLongerThanNode ==
    ASSUME NEW m \in Nat, NEW s \in [1 .. m -> Node],
           \A i, j \in 1 .. m : s[i] = s[j] => i = j
    PROVE  m <= Cardinality(Node)
<1>1. s \in Injection(1 .. m, Node)
  BY DEF Injection, IsInjective
<1>2. Cardinality(1 .. m) <= Cardinality(Node)
  BY <1>1, NodeAssumption, FS_Injection
<1>3. Cardinality(1 .. m) = m
  BY FS_Interval
<1>. QED
  BY <1>2, <1>3

-----------------------------------------------------------------------------
(* The walk.                                                               *)

(* A walk meets the nodes of the chain in turn, and then the end.          *)
LEMMA WalkOfChain ==
    ASSUME CacheTypeOK, NEW m \in Nat, NEW s \in [1 .. m -> Node], Chained(s, m)
    PROVE  \A i \in Nat \ {0} : Walk[i] = IF i <= m THEN s[i] ELSE NULL
<1>. DEFINE Body(f) == [i \in Nat \ {0} |->
                          IF i = 1 THEN head
                          ELSE IF f[i - 1] = NULL THEN NULL
                          ELSE block[f[i - 1]].next]
            w == [i \in Nat \ {0} |-> IF i <= m THEN s[i] ELSE NULL]
<1>1. w = Body(w)
  <2>1. ASSUME NEW i \in Nat \ {0}
        PROVE  w[i] = Body(w)[i]
    <3>1. CASE i = 1
      BY <3>1 DEF Chained
    <3>2. CASE i # 1 /\ i - 1 <= m
      <4>1. i - 1 \in 1 .. m /\ i - 1 \in Nat \ {0}
        BY <3>2
      <4>2. w[i - 1] = s[i - 1] /\ s[i - 1] \in Node /\ s[i - 1] # NULL
        BY <4>1, NodeAssumption
      <4>3. block[s[i - 1]].next = IF i - 1 = m THEN NULL ELSE s[i - 1 + 1]
        BY <4>1 DEF Chained
      <4>4. Body(w)[i] = block[s[i - 1]].next
        BY <3>2, <4>2
      <4>. QED
        BY <3>2, <4>3, <4>4
    <3>3. CASE i # 1 /\ i - 1 > m
      <4>1. i - 1 \in Nat \ {0} /\ w[i - 1] = NULL
        BY <3>3
      <4>. QED
        BY <3>3, <4>1
    <3>. QED
      BY <3>1, <3>2, <3>3
  <2>. QED
    BY <2>1
<1>2. Walk = CHOOSE f : f = Body(f)
  BY DEF Walk
<1>3. Walk = Body(Walk)
  <2>. HIDE DEF Body, w
  <2>. QED
    BY <1>1, <1>2
<1>4. \A i \in Nat \ {0} :
         Walk[i] = IF i = 1 THEN head ELSE IF Walk[i - 1] = NULL THEN NULL
                   ELSE block[Walk[i - 1]].next
  BY <1>3
<1>5. \A i \in Nat \ {0} :
         w[i] = IF i = 1 THEN head ELSE IF w[i - 1] = NULL THEN NULL
                ELSE block[w[i - 1]].next
  BY <1>1
<1>. DEFINE Bad == {i \in Nat \ {0} : Walk[i] # w[i]}
<1>6. Bad = {}
  <2>. SUFFICES ASSUME Bad # {} PROVE FALSE
    OBVIOUS
  <2>1. PICK i \in Bad : \A j \in Bad : i <= j
    BY LeastExists
  <2>2. i \in Nat \ {0} /\ Walk[i] # w[i]
    OBVIOUS
  <2>. HIDE DEF w
  <2>3. CASE i = 1
    BY <1>4, <1>5, <2>2, <2>3
  <2>4. CASE i # 1
    <3>1. i - 1 \in Nat \ {0} /\ i - 1 \notin Bad
      BY <2>1, <2>2, <2>4
    <3>2. Walk[i - 1] = w[i - 1]
      BY <3>1
    <3>. QED
      BY <1>4, <1>5, <2>2, <2>4, <3>2
  <2>. QED
    BY <2>3, <2>4
<1>. QED
  BY <1>6

(* So the list is the chain, and the place of a node is its place there.   *)
LEMMA ListOfChain ==
    ASSUME CacheTypeOK, NEW m \in Nat, NEW s \in [1 .. m -> Node], Chained(s, m)
    PROVE  /\ m <= Cardinality(Node)
           /\ List = {s[i] : i \in 1 .. m} /\ List = Allocated
           /\ List \in SUBSET Node
           /\ Walk[Cardinality(Node) + 1] = NULL
           /\ \A i \in 1 .. m : Position(s[i]) = i
<1>1. \A i \in Nat \ {0} : Walk[i] = IF i <= m THEN s[i] ELSE NULL
  BY WalkOfChain
<1>2. Cardinality(Node) \in Nat
  BY NodeAssumption, FS_CardinalityType
<1>3. m <= Cardinality(Node)
  BY NoLongerThanNode DEF Chained
<1>4. \A i \in 1 .. m : i \in 1 .. Cardinality(Node) /\ Walk[i] = s[i]
                           /\ s[i] \in Node /\ s[i] # NULL
  BY <1>1, <1>2, <1>3, NodeAssumption
<1>5. List = {s[i] : i \in 1 .. m}
  <2>1. ASSUME NEW i \in 1 .. Cardinality(Node), Walk[i] # NULL
        PROVE  i \in 1 .. m /\ Walk[i] = s[i]
    BY <1>1, <1>2, <2>1
  <2>. QED
    BY <1>4, <2>1 DEF List
<1>6. List = Allocated
  BY <1>4, <1>5 DEF Chained, Allocated
<1>7. Walk[Cardinality(Node) + 1] = NULL
  BY <1>1, <1>2, <1>3
<1>8. ASSUME NEW i \in 1 .. m
      PROVE  Position(s[i]) = i
  <2>1. i \in 1 .. Cardinality(Node) /\ Walk[i] = s[i]
    BY <1>4
  <2>2. ASSUME NEW j \in 1 .. Cardinality(Node), Walk[j] = s[i]
        PROVE  j = i
    <3>1. s[i] # NULL
      BY <1>4
    <3>2. j \in 1 .. m /\ Walk[j] = s[j]
      BY <1>1, <1>2, <2>2, <3>1
    <3>3. \A p, q \in 1 .. m : s[p] = s[q] => p = q
      BY DEF Chained
    <3>4. s[j] = s[i]
      BY <2>2, <3>2
    <3>. QED
      BY <3>2, <3>3, <3>4
  <2>. QED
    BY <2>1, <2>2 DEF Position
<1>. QED
  BY <1>3, <1>4, <1>5, <1>6, <1>7, <1>8

(* The first of some listed nodes is one of them.                          *)
LEMMA FirstOfIsOne ==
    ASSUME CacheTypeOK, OnAChain, NEW N \in SUBSET List
    PROVE  IF N = {} THEN FirstOf(N) = NULL
                     ELSE FirstOf(N) \in N /\ FirstOf(N) # NULL
<1>1. CASE N = {}
  BY <1>1 DEF FirstOf
<1>2. CASE N # {}
  <2>1. PICK m \in 0 .. Cardinality(Node) : \E s \in [1 .. m -> Node] : Chained(s, m)
    BY DEF OnAChain
  <2>2. m \in Nat
    BY NodeAssumption, FS_CardinalityType
  <2>3. PICK s \in [1 .. m -> Node] : Chained(s, m)
    BY <2>1
  <2>4. /\ List = {s[i] : i \in 1 .. m} /\ List \in SUBSET Node
        /\ \A i \in 1 .. m : Position(s[i]) = i
    BY <2>2, <2>3, ListOfChain
  <2>5. \A n \in N : Position(n) \in Nat
    BY <2>2, <2>4
  <2>. DEFINE P == {Position(n) : n \in N}
  <2>6. P \in SUBSET Nat /\ P # {}
    BY <1>2, <2>5
  <2>7. PICK p \in P : \A q \in P : p <= q
    BY <2>6, LeastExists
  <2>8. PICK n \in N : p = Position(n)
    BY <2>7
  <2>9. \A k \in N : Position(n) <= Position(k)
    BY <2>7, <2>8
  <2>10. FirstOf(N) \in N
    BY <1>2, <2>9 DEF FirstOf
  <2>11. NULL \notin N
    BY <2>4, NodeAssumption
  <2>. QED
    BY <1>2, <2>10, <2>11
<1>. QED
  BY <1>1, <1>2

(* A chain is linked as the list should be.                                *)
LEMMA ChainIsWellLinked == CacheTypeOK /\ OnAChain => WellLinked
<1>. SUFFICES ASSUME CacheTypeOK, OnAChain PROVE WellLinked
  OBVIOUS
<1>1. PICK m \in 0 .. Cardinality(Node) : \E s \in [1 .. m -> Node] : Chained(s, m)
  BY DEF OnAChain
<1>2. m \in Nat
  BY NodeAssumption, FS_CardinalityType
<1>3. PICK s \in [1 .. m -> Node] : Chained(s, m)
  BY <1>1
<1>4. /\ List = {s[i] : i \in 1 .. m} /\ List = Allocated
      /\ Walk[Cardinality(Node) + 1] = NULL
  BY <1>2, <1>3, ListOfChain
<1>5. ASSUME NEW i \in 1 .. m
      PROVE  /\ block[s[i]].prev = NULL <=> s[i] = head
             /\ block[s[i]].prev # NULL => block[block[s[i]].prev].next = s[i]
             /\ block[s[i]].next # NULL => block[block[s[i]].next].prev = s[i]
  <2>1. \A j \in 1 .. m : s[j] \in Node /\ s[j] # NULL
    BY NodeAssumption
  <2>2. block[s[i]].prev = NULL <=> i = 1
    <3>1. CASE i = 1
      BY <1>3, <3>1 DEF Chained
    <3>2. CASE i # 1
      <4>1. i - 1 \in 1 .. m
        BY <1>2, <3>2
      <4>. QED
        BY <1>3, <2>1, <3>2, <4>1 DEF Chained
    <3>. QED
      BY <3>1, <3>2
  <2>3. s[i] = head <=> i = 1
    <3>1. m # 0 /\ 1 \in 1 .. m
      BY <1>2
    <3>2. head = s[1]
      BY <1>3, <3>1 DEF Chained
    <3>. QED
      BY <1>3, <3>1, <3>2 DEF Chained
  <2>4. ASSUME i # 1
        PROVE  block[block[s[i]].prev].next = s[i]
    <3>1. i - 1 \in 1 .. m /\ i - 1 # m /\ i - 1 + 1 = i
      BY <1>2, <2>4
    <3>. QED
      BY <1>3, <2>4, <3>1 DEF Chained
  <2>5. ASSUME block[s[i]].next # NULL
        PROVE  block[block[s[i]].next].prev = s[i]
    <3>1. i # m /\ block[s[i]].next = s[i + 1]
      BY <1>3, <2>5 DEF Chained
    <3>2. i + 1 \in 1 .. m /\ i + 1 # 1 /\ i + 1 - 1 = i
      BY <1>2, <3>1
    <3>. QED
      BY <1>3, <3>1, <3>2 DEF Chained
  <2>. QED
    BY <2>2, <2>3, <2>4, <2>5
<1>. QED
  BY <1>4, <1>5 DEF WellLinked

-----------------------------------------------------------------------------
(* The sum of the blocks' sizes.                                           *)

(* g gives the sum of f over each subset of S, as the fold that takes the  *)
(* chosen element first.                                                   *)
SumsUp(g, f, S) ==
    g = [T \in SUBSET S |->
           IF T = {} THEN 0
           ELSE f[CHOOSE x \in T : TRUE] + g[T \ {CHOOSE x \in T : TRUE}]]

(* There is such a g, of naturals.                                         *)
LEMMA SumExists ==
    ASSUME NEW S, IsFiniteSet(S), NEW f \in [S -> Nat]
    PROVE  \E g \in [SUBSET S -> Nat] : SumsUp(g, f, S)
<1>. DEFINE UpTo(n) == {T \in SUBSET S : Cardinality(T) <= n}
            c(T) == CHOOSE x \in T : TRUE
            Good(n) == \E g \in [UpTo(n) -> Nat] :
                          \A T \in UpTo(n) :
                             g[T] = IF T = {} THEN 0 ELSE f[c(T)] + g[T \ {c(T)}]
            Bad == {n \in Nat : ~ Good(n)}
<1>1. \A T \in SUBSET S : /\ Cardinality(T) \in Nat
                          /\ Cardinality(T) <= Cardinality(S)
                          /\ T # {} => /\ c(T) \in T
                                       /\ T \ {c(T)} \in SUBSET S
                                       /\ Cardinality(T \ {c(T)}) = Cardinality(T) - 1
  <2>1. ASSUME NEW T \in SUBSET S
        PROVE  /\ IsFiniteSet(T) /\ Cardinality(T) \in Nat
               /\ Cardinality(T) <= Cardinality(S)
    BY FS_Subset, FS_CardinalityType
  <2>2. ASSUME NEW T \in SUBSET S, T # {}
        PROVE  c(T) \in T
    BY <2>2
  <2>3. ASSUME NEW T \in SUBSET S, NEW x \in T
        PROVE  Cardinality(T \ {x}) = Cardinality(T) - 1
    BY <2>1, FS_RemoveElement
  <2>. HIDE DEF c
  <2>. QED
    BY <2>1, <2>2, <2>3
<1>. HIDE DEF c
<1>0. \A T \in SUBSET S : Cardinality(T) \in Nat
  BY <1>1
<1>2. Good(0)
  <2>. DEFINE g == [T \in UpTo(0) |-> 0]
  <2>1. ASSUME NEW T \in UpTo(0)
        PROVE  T = {}
    <3>1. Cardinality(T) = 0
      BY <1>0
    <3>2. IsFiniteSet(T)
      BY FS_Subset
    <3>. QED
      BY <3>1, <3>2, FS_EmptySet
  <2>2. g \in [UpTo(0) -> Nat]
    OBVIOUS
  <2>3. \A T \in UpTo(0) : g[T] = IF T = {} THEN 0 ELSE f[c(T)] + g[T \ {c(T)}]
    BY <2>1
  <2>. QED
    BY <2>2, <2>3
<1>3. ASSUME NEW n \in Nat, Good(n)
      PROVE  Good(n + 1)
  <2>1. PICK g \in [UpTo(n) -> Nat] :
           \A T \in UpTo(n) :
              g[T] = IF T = {} THEN 0 ELSE f[c(T)] + g[T \ {c(T)}]
    BY <1>3
  <2>. DEFINE h == [T \in UpTo(n + 1) |->
                      IF T = {} THEN 0 ELSE f[c(T)] + g[T \ {c(T)}]]
  <2>2. ASSUME NEW T \in UpTo(n + 1), T # {}
        PROVE  T \ {c(T)} \in UpTo(n) /\ c(T) \in S
    BY <1>1, <2>2
  <2>3. h \in [UpTo(n + 1) -> Nat]
    <3>1. ASSUME NEW T \in UpTo(n + 1), T # {}
          PROVE  f[c(T)] + g[T \ {c(T)}] \in Nat
      BY <2>2, <3>1
    <3>. QED
      BY <3>1
  <2>4. \A T \in UpTo(n) : T \in UpTo(n + 1) /\ h[T] = g[T]
    <3>1. \A T \in UpTo(n) : T \in UpTo(n + 1)
      BY <1>0
    <3>2. ASSUME NEW T \in UpTo(n)
          PROVE  h[T] = g[T]
      <4>1. h[T] = IF T = {} THEN 0 ELSE f[c(T)] + g[T \ {c(T)}]
        BY <3>1
      <4>. HIDE DEF h
      <4>. QED
        BY <2>1, <4>1
    <3>. QED
      BY <3>1, <3>2
  <2>5. ASSUME NEW T \in UpTo(n + 1)
        PROVE  h[T] = IF T = {} THEN 0 ELSE f[c(T)] + h[T \ {c(T)}]
    <3>1. CASE T = {}
      BY <3>1
    <3>2. CASE T # {}
      <4>1. h[T] = f[c(T)] + g[T \ {c(T)}]
        BY <3>2
      <4>2. h[T \ {c(T)}] = g[T \ {c(T)}]
        BY <2>2, <2>4, <3>2
      <4>. QED
        BY <3>2, <4>1, <4>2
    <3>. QED
      BY <3>1, <3>2
  <2>. HIDE DEF h
  <2>. QED
    BY <2>3, <2>5
<1>4. Bad = {}
  <2>. SUFFICES ASSUME Bad # {} PROVE FALSE
    OBVIOUS
  <2>1. PICK n \in Bad : \A k \in Bad : n <= k
    <3>. HIDE DEF Good
    <3>. QED
      BY LeastExists
  <2>. HIDE DEF Good
  <2>2. n \in Nat /\ ~ Good(n)
    OBVIOUS
  <2>3. n # 0
    BY <1>2, <2>2
  <2>4. n - 1 \in Nat /\ n - 1 + 1 = n /\ n - 1 \notin Bad
    BY <2>1, <2>2, <2>3
  <2>5. Good(n - 1 + 1)
    BY <1>3, <2>4
  <2>. QED
    BY <2>2, <2>4, <2>5
<1>5. Good(Cardinality(S))
  <2>. HIDE DEF Good
  <2>. QED
    BY <1>4, FS_CardinalityType
<1>6. UpTo(Cardinality(S)) = SUBSET S
  BY <1>1
<1>7. PICK g \in [SUBSET S -> Nat] :
         \A T \in SUBSET S :
            g[T] = IF T = {} THEN 0 ELSE f[c(T)] + g[T \ {c(T)}]
  BY <1>5, <1>6
<1>8. g = [T \in SUBSET S |-> g[T]]
  OBVIOUS
<1>. QED
  BY <1>7, <1>8 DEF SumsUp, c

(* What it gives is determined by f's values on each subset.               *)
LEMMA SumIsUnique ==
    ASSUME NEW U, IsFiniteSet(U), NEW S, U \subseteq S, NEW R, U \subseteq R,
           NEW f, NEW g, SumsUp(g, f, S), NEW e, NEW h, SumsUp(h, e, R),
           \A x \in U : f[x] = e[x]
    PROVE  \A T \in SUBSET U : g[T] = h[T]
<1>. DEFINE c(T) == CHOOSE x \in T : TRUE
            Bad == {T \in SUBSET U : g[T] # h[T]}
<1>. SUFFICES ASSUME Bad # {} PROVE FALSE
  OBVIOUS
<1>1. PICK T \in Bad : \A V \in Bad : Cardinality(T) <= Cardinality(V)
  <2>1. Bad \in SUBSET (SUBSET U)
    OBVIOUS
  <2>. HIDE DEF Bad
  <2>. QED
    BY <2>1, FewestExists
<1>2. T \in SUBSET U /\ T \in SUBSET S /\ T \in SUBSET R /\ g[T] # h[T]
  OBVIOUS
<1>3. g[T] = IF T = {} THEN 0 ELSE f[c(T)] + g[T \ {c(T)}]
  BY <1>2 DEF SumsUp
<1>4. h[T] = IF T = {} THEN 0 ELSE e[c(T)] + h[T \ {c(T)}]
  BY <1>2 DEF SumsUp
<1>5. CASE T = {}
  BY <1>2, <1>3, <1>4, <1>5
<1>6. CASE T # {}
  <2>1. c(T) \in T
    BY <1>6
  <2>2. IsFiniteSet(T) /\ Cardinality(T) \in Nat
    BY <1>2, FS_Subset, FS_CardinalityType
  <2>. HIDE DEF c
  <2>3. Cardinality(T \ {c(T)}) = Cardinality(T) - 1
    BY <2>1, <2>2, FS_RemoveElement
  <2>4. T \ {c(T)} \notin Bad /\ T \ {c(T)} \in SUBSET U
    BY <1>1, <1>2, <2>2, <2>3
  <2>5. g[T \ {c(T)}] = h[T \ {c(T)}] /\ f[c(T)] = e[c(T)]
    BY <1>2, <2>1, <2>4
  <2>. QED
    BY <1>2, <1>3, <1>4, <1>6, <2>5
<1>. QED
  BY <1>5, <1>6

(* Any element may be taken out of a sum first.                            *)
LEMMA SumWithout ==
    ASSUME NEW S, IsFiniteSet(S), NEW f \in [S -> Nat],
           NEW g \in [SUBSET S -> Nat], SumsUp(g, f, S),
           NEW T \in SUBSET S, NEW x \in T
    PROVE  g[T] = f[x] + g[T \ {x}]
<1>. DEFINE c(V) == CHOOSE y \in V : TRUE
            Bad == {V \in SUBSET S : \E y \in V : g[V] # f[y] + g[V \ {y}]}
<1>1. \A V \in SUBSET S : V # {} => c(V) \in V /\ g[V] = f[c(V)] + g[V \ {c(V)}]
  BY DEF SumsUp
<1>. HIDE DEF c
<1>2. Bad = {}
  <2>. SUFFICES ASSUME Bad # {} PROVE FALSE
    OBVIOUS
  <2>1. PICK V \in Bad : \A W \in Bad : Cardinality(V) <= Cardinality(W)
    BY FewestExists
  <2>2. PICK y \in V : g[V] # f[y] + g[V \ {y}]
    OBVIOUS
  <2>3. V \in SUBSET S /\ V # {} /\ IsFiniteSet(V) /\ Cardinality(V) \in Nat
    BY <2>2, FS_Subset, FS_CardinalityType
  <2>4. PICK z \in V : z = c(V)
    BY <1>1, <2>3
  <2>5. g[V] = f[z] + g[V \ {z}]
    BY <1>1, <2>3, <2>4
  <2>6. z # y
    BY <2>2, <2>5
  <2>7. /\ Cardinality(V \ {y}) = Cardinality(V) - 1
        /\ Cardinality(V \ {z}) = Cardinality(V) - 1
    BY <2>3, FS_RemoveElement
  <2>8. /\ V \ {y} \notin Bad /\ V \ {y} \in SUBSET S
        /\ V \ {z} \notin Bad /\ V \ {z} \in SUBSET S
    <3>1. \A W \in Bad : ~ (Cardinality(W) = Cardinality(V) - 1)
      BY <2>1, <2>3
    <3>2. V \ {y} \in SUBSET S /\ V \ {z} \in SUBSET S
      BY <2>3
    <3>. HIDE DEF Bad
    <3>. QED
      BY <2>7, <3>1, <3>2
  <2>9. /\ g[V \ {y}] = f[z] + g[(V \ {y}) \ {z}]
        /\ g[V \ {z}] = f[y] + g[(V \ {z}) \ {y}]
    BY <2>6, <2>8
  <2>10. (V \ {y}) \ {z} = (V \ {z}) \ {y} /\ (V \ {z}) \ {y} \in SUBSET S
    BY <2>3
  <2>11. /\ f[y] \in Nat /\ f[z] \in Nat /\ g[V \ {y}] \in Nat /\ g[V \ {z}] \in Nat
         /\ g[(V \ {z}) \ {y}] \in Nat
    BY <2>3, <2>8, <2>10
  <2>12. g[V] = f[y] + g[V \ {y}]
    <3>1. PICK k \in Nat : k = g[(V \ {z}) \ {y}]
      BY <2>11
    <3>2. g[V \ {y}] = f[z] + k /\ g[V \ {z}] = f[y] + k
      BY <2>9, <2>10, <3>1
    <3>. QED
      BY <2>5, <2>11, <3>1, <3>2
  <2>. QED
    BY <2>2, <2>12
<1>. QED
  BY <1>2

Sizes == [n \in Node |-> block[n].size]

(* BytesAddUp adds up the sizes so.                                        *)
LEMMA FoldIsSum ==
    ASSUME CacheTypeOK, NEW T \in SUBSET Node, NEW g, SumsUp(g, Sizes, Node)
    PROVE  MapThenSumSet(SizeOf, T) = g[T]
<1>. DEFINE Body(h) == [U \in SUBSET T |->
                          IF U = {} THEN 0
                          ELSE block[CHOOSE x \in U : TRUE].size
                                 + h[U \ {CHOOSE x \in U : TRUE}]]
            iter == CHOOSE h : h = Body(h)
            f == [n \in T |-> block[n].size]
<1>1. MapThenSumSet(SizeOf, T) = iter[T]
  BY DEF MapThenSumSet, MapThenFoldSet, SizeOf
<1>2. IsFiniteSet(T)
  BY NodeAssumption, FS_Subset
<1>3. f \in [T -> Nat]
  BY DEF CacheTypeOK, Block
<1>4. PICK h \in [SUBSET T -> Nat] : SumsUp(h, f, T)
  <2>. HIDE DEF f
  <2>. QED
    BY <1>2, <1>3, SumExists
<1>5. ASSUME NEW k
      PROVE  Body(k) = [U \in SUBSET T |->
                          IF U = {} THEN 0
                          ELSE f[CHOOSE x \in U : TRUE]
                                 + k[U \ {CHOOSE x \in U : TRUE}]]
  <2>1. \A U \in SUBSET T : U # {} =>
           f[CHOOSE x \in U : TRUE] = block[CHOOSE x \in U : TRUE].size
    <3>1. \A U \in SUBSET T : U # {} => (CHOOSE x \in U : TRUE) \in T
      OBVIOUS
    <3>. QED
      BY <3>1
  <2>. HIDE DEF f
  <2>. QED
    BY <2>1
<1>6. h = Body(h)
  BY <1>4, <1>5 DEF SumsUp
<1>7. iter = Body(iter)
  <2>. HIDE DEF Body
  <2>. QED
    BY <1>6
<1>8. SumsUp(iter, f, T)
  <2>. HIDE DEF iter, Body
  <2>. QED
    BY <1>5, <1>7 DEF SumsUp
<1>9. \A x \in T : Sizes[x] = f[x]
  BY DEF Sizes
<1>. HIDE DEF iter, f
<1>10. \A V \in SUBSET T : g[V] = iter[V]
  <2>1. T \subseteq Node /\ T \subseteq T
    OBVIOUS
  <2>. QED
    BY ONLY <1>2, <1>8, <1>9, <2>1, SumsUp(g, Sizes, Node), SumIsUnique
<1>. QED
  BY <1>1, <1>10

(* The bytes left and the sum over the list add up to the cache.           *)
BytesAsSum ==
    \E g \in [SUBSET Node -> Nat] :
        /\ SumsUp(g, Sizes, Node)
        /\ slots >= 0 /\ slots + g[List] = MAX_CACHE_SIZE

ListIsWhole == List = Allocated /\ List \in SUBSET Node

BytesAgree == BytesAddUp <=> BytesAsSum

(* That is BytesAddUp.                                                     *)
LEMMA BytesAreSum == CacheTypeOK /\ ListIsWhole => BytesAgree
<1>. SUFFICES ASSUME CacheTypeOK, List \in SUBSET Node
              PROVE  BytesAddUp <=> BytesAsSum
  BY DEF ListIsWhole, BytesAgree
<1>1. Sizes \in [Node -> Nat]
  BY DEF Sizes, CacheTypeOK, Block
<1>2. PICK g \in [SUBSET Node -> Nat] : SumsUp(g, Sizes, Node)
  BY <1>1, NodeAssumption, SumExists
<1>3. \A k : SumsUp(k, Sizes, Node) => MapThenSumSet(SizeOf, List) = k[List]
  BY FoldIsSum
<1>. QED
  BY <1>2, <1>3 DEF BytesAddUp, BytesAsSum

-----------------------------------------------------------------------------
(* What the routines that write preserve.                                  *)

(* The list is the allocated blocks, in this state and in the next.        *)
LEMMA ListIsAllocated ==
    /\ CacheTypeOK /\ OnAChain => ListIsWhole
    /\ CacheTypeOK' /\ OnAChain' => ListIsWhole'
<1>1. CacheTypeOK /\ OnAChain => ListIsWhole
  <2>. SUFFICES ASSUME CacheTypeOK, OnAChain PROVE ListIsWhole
    OBVIOUS
  <2>1. PICK m \in 0 .. Cardinality(Node) : \E s \in [1 .. m -> Node] : Chained(s, m)
    BY DEF OnAChain
  <2>2. m \in Nat
    BY NodeAssumption, FS_CardinalityType
  <2>3. PICK s \in [1 .. m -> Node] : Chained(s, m)
    BY <2>1
  <2>. QED
    BY <2>2, <2>3, ListOfChain DEF ListIsWhole
<1>. QED
  BY <1>1, PTL

(* And its bytes add up if their sum does.                                 *)
LEMMA NextBytesAreSum == CacheTypeOK' /\ ListIsWhole' => BytesAgree'
BY BytesAreSum, PTL

(* A hit changes an age.                                                   *)
LEMMA ReadKeeps ==
    ASSUME CacheInv, NEW n \in Node, NEW time \in Nat, read_response(n, time)
    PROVE  /\ CacheInv' /\ List' = List
           /\ \A k \in Node : block'[k].uri = block[k].uri
<1>1. block \in [Node -> Block] /\ head \in Pointer /\ slots \in Int
  BY DEF CacheInv, CacheTypeOK
<1>2. block' = [block EXCEPT ![n].age = time] /\ head' = head /\ slots' = slots
  BY DEF read_response
<1>3. \A k \in Node : /\ block'[k].next = block[k].next
                      /\ block'[k].prev = block[k].prev
                      /\ block'[k].uri = block[k].uri
                      /\ block'[k].size = block[k].size
  BY <1>1, <1>2 DEF Block
<1>4. CacheTypeOK'
  BY <1>1, <1>2 DEF CacheTypeOK, Block
<1>5. Allocated' = Allocated
  BY <1>3 DEF Allocated
<1>6. OnAChain'
  <2>1. PICK m \in 0 .. Cardinality(Node) : \E s \in [1 .. m -> Node] : Chained(s, m)
    BY DEF CacheInv, OnAChain
  <2>2. PICK s \in [1 .. m -> Node] : Chained(s, m)
    BY <2>1
  <2>3. Chained(s, m)'
    BY <1>2, <1>3, <1>5, <2>2 DEF Chained
  <2>. QED
    BY <2>3 DEF OnAChain
<1>7. ListIsWhole /\ ListIsWhole'
  BY <1>4, <1>6, ListIsAllocated DEF CacheInv
<1>8. List' = List
  BY <1>5, <1>7 DEF ListIsWhole
<1>9. BytesAddUp'
  <2>1. Sizes' = Sizes
    BY <1>3 DEF Sizes
  <2>2. BytesAsSum
    BY <1>7, BytesAreSum DEF CacheInv, BytesAgree
  <2>3. BytesAsSum'
    BY <1>2, <1>8, <2>1, <2>2 DEF BytesAsSum, SumsUp
  <2>. QED
    BY <1>4, <1>7, <2>3, NextBytesAreSum DEF BytesAgree
<1>10. OneBlockPerUri'
  BY <1>3, <1>7, <1>8 DEF CacheInv, OneBlockPerUri, ListIsWhole
<1>. QED
  BY <1>3, <1>4, <1>6, <1>8, <1>9, <1>10 DEF CacheInv

(* A block that is put in front of the chain.                              *)
LEMMA InsertChains ==
    ASSUME CacheTypeOK, NEW m \in Nat, NEW s \in [1 .. m -> Node], Chained(s, m),
           NEW n \in Node, NEW uri \in Uri, NEW size, NEW time,
           insert_block(n, uri, size, time)
    PROVE  /\ Allocated' = Allocated \cup {n}
           /\ OnAChain'
<1>1. /\ n \notin Allocated /\ head' = n
      /\ block' = [k \in Node |->
           IF k = n THEN [prev |-> NULL, next |-> head, uri |-> uri,
                          age |-> time, size |-> size]
           ELSE [block[k] EXCEPT !.prev = IF k = head THEN n ELSE @]]
  BY DEF insert_block
<1>2. block \in [Node -> Block]
  BY DEF CacheTypeOK
<1>3. /\ block'[n].prev = NULL /\ block'[n].next = head /\ block'[n].uri = uri
      /\ \A k \in Node \ {n} :
            /\ block'[k].next = block[k].next /\ block'[k].uri = block[k].uri
            /\ block'[k].prev = IF k = head THEN n ELSE block[k].prev
  BY <1>1, <1>2 DEF Block
<1>4. Allocated' = Allocated \cup {n}
  BY <1>3, UriAssumption DEF Allocated
<1>5. \A i \in 1 .. m : s[i] \in Node \ {n} /\ s[i] \in Allocated
  BY <1>1 DEF Chained
<1>6. \A i, j \in 1 .. m : s[i] = s[j] => i = j
  BY DEF Chained
<1>. DEFINE t == [i \in 1 .. m + 1 |-> IF i = 1 THEN n ELSE s[i - 1]]
<1>7. /\ t \in [1 .. m + 1 -> Node] /\ t[1] = n
      /\ \A i \in 2 .. m + 1 : i - 1 \in 1 .. m /\ t[i] = s[i - 1]
  OBVIOUS
<1>. HIDE DEF t
<1>8. \A i, j \in 1 .. m + 1 : t[i] = t[j] => i = j
  <2>1. ASSUME NEW i \in 1 .. m + 1, NEW j \in 1 .. m + 1, t[i] = t[j]
        PROVE  i = j
    <3>1. CASE i = 1 /\ j = 1
      BY <3>1
    <3>2. CASE i = 1 /\ j # 1
      BY <1>5, <1>7, <2>1, <3>2
    <3>3. CASE i # 1 /\ j = 1
      BY <1>5, <1>7, <2>1, <3>3
    <3>4. CASE i # 1 /\ j # 1
      <4>1. i - 1 = j - 1
        BY <1>6, <1>7, <2>1, <3>4
      <4>. QED
        BY <4>1
    <3>. QED
      BY <3>1, <3>2, <3>3, <3>4
  <2>. QED
    BY <2>1
<1>9. \A k \in Node : k \in Allocated' <=> \E i \in 1 .. m + 1 : t[i] = k
  <2>1. ASSUME NEW k \in Allocated, k \in Node
        PROVE  \E i \in 1 .. m + 1 : t[i] = k
    <3>1. PICK j \in 1 .. m : s[j] = k
      BY <2>1 DEF Chained
    <3>2. j + 1 \in 2 .. m + 1 /\ j + 1 - 1 = j
      OBVIOUS
    <3>. QED
      BY <1>7, <3>1, <3>2
  <2>2. 1 \in 1 .. m + 1
    OBVIOUS
  <2>3. ASSUME NEW i \in 1 .. m + 1
        PROVE  t[i] \in Allocated'
    BY <1>4, <1>5, <1>7
  <2>. QED
    BY <1>4, <1>7, <2>1, <2>2, <2>3
<1>10. head' = IF m + 1 = 0 THEN NULL ELSE t[1]
  BY <1>1, <1>7
<1>11. ASSUME NEW i \in 1 .. m + 1
       PROVE  /\ block'[t[i]].next = IF i = m + 1 THEN NULL ELSE t[i + 1]
              /\ block'[t[i]].prev = IF i = 1 THEN NULL ELSE t[i - 1]
  <2>1. head = IF m = 0 THEN NULL ELSE s[1]
    BY DEF Chained
  <2>2. CASE i = 1
    <3>1. m # 0 => t[2] = s[1]
      BY <1>7
    <3>. QED
      BY <1>3, <1>7, <2>1, <2>2, <3>1
  <2>3. CASE i # 1
    <3>1. PICK j \in 1 .. m : j = i - 1
      BY <2>3
    <3>2. t[i] = s[j] /\ i = j + 1 /\ s[j] \in Node \ {n}
      BY <1>5, <1>7, <2>3, <3>1
    <3>3. /\ block[s[j]].next = IF j = m THEN NULL ELSE s[j + 1]
          /\ block[s[j]].prev = IF j = 1 THEN NULL ELSE s[j - 1]
      BY DEF Chained
    <3>4. j # m => t[i + 1] = s[j + 1]
      <4>1. j # m => i + 1 \in 2 .. m + 1 /\ i + 1 - 1 = j + 1
        BY <3>1, <3>2
      <4>. QED
        BY <1>7, <4>1
    <3>5. block'[t[i]].next = IF i = m + 1 THEN NULL ELSE t[i + 1]
      BY <1>3, <3>2, <3>3, <3>4
    <3>6. block'[s[j]].prev = IF j = 1 THEN n ELSE s[j - 1]
      <4>1. m # 0 /\ 1 \in 1 .. m /\ head = s[1]
        BY <2>1
      <4>2. s[j] = head <=> j = 1
        BY <1>6, <4>1
      <4>. QED
        BY <1>3, <3>2, <3>3, <4>2
    <3>7. t[i - 1] = IF j = 1 THEN n ELSE s[j - 1]
      BY <1>7, <3>1, <3>2
    <3>. QED
      BY <2>3, <3>2, <3>5, <3>6, <3>7
  <2>. QED
    BY <2>2, <2>3
<1>12. Chained(t, m + 1)'
  BY <1>8, <1>9, <1>10, <1>11 DEF Chained
<1>13. m + 1 \in 0 .. Cardinality(Node)
  BY <1>7, <1>8, NodeAssumption, FS_CardinalityType, NoLongerThanNode
<1>. QED
  BY <1>4, <1>7, <1>12, <1>13 DEF OnAChain

(* An insertion where there is room, of a URI that has no block.           *)
LEMMA InsertKeeps ==
    ASSUME CacheInv, NEW n \in Node, NEW uri \in Uri, NEW size \in Nat,
           NEW time \in Nat, insert_block(n, uri, size, time),
           ~ MustEvict(size), \A k \in List : block[k].uri # uri
    PROVE  CacheInv'
<1>1. /\ n \notin Allocated /\ head' = n /\ slots' = slots - size
      /\ block' = [k \in Node |->
           IF k = n THEN [prev |-> NULL, next |-> head, uri |-> uri,
                          age |-> time, size |-> size]
           ELSE [block[k] EXCEPT !.prev = IF k = head THEN n ELSE @]]
  BY DEF insert_block
<1>2. /\ block \in [Node -> Block] /\ head \in Pointer /\ slots \in Int
      /\ CacheTypeOK /\ OnAChain
  BY DEF CacheInv, CacheTypeOK
<1>3. CacheTypeOK'
  <2>1. [prev |-> NULL, next |-> head, uri |-> uri, age |-> time, size |-> size]
           \in Block
    BY <1>2 DEF Block, Pointer
  <2>2. \A k \in Node : [block[k] EXCEPT !.prev = IF k = head THEN n ELSE @] \in Block
    BY <1>2 DEF Block, Pointer
  <2>3. block' \in [Node -> Block]
    BY <1>1, <2>1, <2>2
  <2>. QED
    BY <1>1, <1>2, <2>3 DEF CacheTypeOK, Pointer
<1>4. Allocated' = Allocated \cup {n} /\ OnAChain'
  <2>1. PICK m \in 0 .. Cardinality(Node) : \E s \in [1 .. m -> Node] : Chained(s, m)
    BY <1>2 DEF OnAChain
  <2>2. m \in Nat
    BY NodeAssumption, FS_CardinalityType
  <2>3. PICK s \in [1 .. m -> Node] : Chained(s, m)
    BY <2>1
  <2>. QED
    BY <1>2, <2>2, <2>3, InsertChains
<1>5. ListIsWhole /\ ListIsWhole'
  BY <1>2, <1>3, <1>4, ListIsAllocated
<1>6. List' = List \cup {n} /\ n \notin List /\ List \in SUBSET Node
  BY <1>1, <1>4, <1>5 DEF ListIsWhole
<1>7. /\ block'[n].uri = uri /\ block'[n].size = size
      /\ \A k \in Node \ {n} : /\ block'[k].uri = block[k].uri
                               /\ block'[k].size = block[k].size
  BY <1>1, <1>2 DEF Block
<1>8. BytesAddUp'
  <2>1. BytesAsSum
    BY <1>2, <1>5, BytesAreSum DEF CacheInv, BytesAgree
  <2>2. PICK g \in [SUBSET Node -> Nat] :
           SumsUp(g, Sizes, Node) /\ slots + g[List] = MAX_CACHE_SIZE
    BY <2>1 DEF BytesAsSum
  <2>3. Sizes' \in [Node -> Nat]
    BY <1>3 DEF Sizes, CacheTypeOK, Block
  <2>4. PICK h \in [SUBSET Node -> Nat] : SumsUp(h, Sizes', Node)
    BY <2>3, NodeAssumption, SumExists
  <2>5. \A k \in List : Sizes'[k] = Sizes[k]
    BY <1>6, <1>7 DEF Sizes
  <2>6. h[List] = g[List]
    <3>1. IsFiniteSet(List) /\ List \subseteq Node /\ List \in SUBSET List
      BY <1>6, NodeAssumption, FS_Subset
    <3>. QED
      BY <2>2, <2>4, <2>5, <3>1, SumIsUnique
  <2>7. h[List'] = size + h[List]
    <3>1. List' \in SUBSET Node /\ n \in List' /\ List' \ {n} = List
      BY <1>6
    <3>2. h[List'] = Sizes'[n] + h[List' \ {n}]
      <4>1. PICK f \in [Node -> Nat] : f = Sizes'
        BY <2>3
      <4>2. PICK T \in SUBSET Node : T = List' /\ n \in T
        BY <3>1
      <4>3. SumsUp(h, f, Node) /\ IsFiniteSet(Node)
        BY <2>4, <4>1, NodeAssumption
      <4>4. h[T] = f[n] + h[T \ {n}]
        BY <4>2, <4>3, SumWithout
      <4>. QED
        BY <4>1, <4>2, <4>4
    <3>3. Sizes'[n] = size
      BY <1>7 DEF Sizes
    <3>. QED
      BY <3>1, <3>2, <3>3
  <2>8. g[List] \in Nat /\ slots >= size
    BY <1>2, <1>6 DEF MustEvict
  <2>9. slots' >= 0 /\ slots' + h[List'] = MAX_CACHE_SIZE
    <3>1. \A a, b, c, d \in Int : b - a + (a + c) = b + c
      OBVIOUS
    <3>2. slots' >= 0
      BY <1>1, <1>2, <2>8
    <3>3. slots' + h[List'] = slots - size + (size + g[List])
      BY <1>1, <2>6, <2>7
    <3>. QED
      BY <1>2, <2>2, <2>8, <3>2, <3>3
  <2>10. BytesAsSum'
    BY <2>4, <2>9 DEF BytesAsSum
  <2>. QED
    BY <1>3, <1>5, <2>10, NextBytesAreSum DEF BytesAgree
<1>9. OneBlockPerUri'
  <2>1. \A j, k \in List : block[j].uri = block[k].uri => j = k
    BY DEF CacheInv, OneBlockPerUri
  <2>2. \A k \in List : k \in Node \ {n} /\ block'[k].uri # uri
    BY <1>6, <1>7
  <2>. QED
    BY <1>6, <1>7, <2>1, <2>2 DEF OneBlockPerUri
<1>. QED
  BY <1>3, <1>4, <1>8, <1>9 DEF CacheInv

(* A block that is taken out of the chain: at its head, at its end or in   *)
(* the middle.                                                             *)
LEMMA RemoveChains ==
    ASSUME CacheTypeOK, NEW m \in Nat, NEW s \in [1 .. m -> Node], Chained(s, m),
           NEW n \in List, remove_from_cache(n)
    PROVE  /\ Allocated' = Allocated \ {n}
           /\ OnAChain'
<1>1. /\ List = {s[i] : i \in 1 .. m} /\ m <= Cardinality(Node)
      /\ List \in SUBSET Node
  BY ListOfChain
<1>2. PICK p \in 1 .. m : s[p] = n
  BY <1>1
<1>. DEFINE before == IF p = 1 THEN NULL ELSE s[p - 1]
            after == IF p = m THEN NULL ELSE s[p + 1]
<1>3. block[n].prev = before /\ block[n].next = after
  BY <1>2 DEF Chained
<1>4. /\ head' = IF before = NULL THEN after ELSE head
      /\ block' = [k \in Node |->
             IF k = n THEN Freed
             ELSE [block[k] EXCEPT !.next = IF k = before THEN after ELSE @,
                                   !.prev = IF k = after THEN before ELSE @]]
  <2>. HIDE DEF before, after
  <2>. QED
    BY <1>3 DEF remove_from_cache
<1>5. block \in [Node -> Block] /\ n \in Node
  BY <1>1 DEF CacheTypeOK
<1>6. \A i \in 1 .. m : s[i] \in Node /\ s[i] # NULL
  BY NodeAssumption
<1>7. \A i, j \in 1 .. m : s[i] = s[j] => i = j
  BY DEF Chained
<1>8. /\ block'[n].uri = NoUri
      /\ \A k \in Node \ {n} :
            /\ block'[k].uri = block[k].uri
            /\ block'[k].next = IF k = before THEN after ELSE block[k].next
            /\ block'[k].prev = IF k = after THEN before ELSE block[k].prev
  BY <1>4, <1>5 DEF Block, Freed
<1>9. Allocated' = Allocated \ {n}
  BY <1>5, <1>8 DEF Allocated
<1>. DEFINE old(i) == IF i < p THEN i ELSE i + 1
            t == [i \in 1 .. m - 1 |-> s[old(i)]]
<1>10. \A i \in 1 .. m - 1 : old(i) \in 1 .. m /\ old(i) # p
  OBVIOUS
<1>11. t \in [1 .. m - 1 -> Node] /\ \A i \in 1 .. m - 1 : t[i] = s[old(i)]
  BY <1>6, <1>10
<1>12. \A i, j \in 1 .. m - 1 : old(i) = old(j) => i = j
  OBVIOUS
<1>13. \A j \in 1 .. m : j # p => \E i \in 1 .. m - 1 : old(i) = j
  <2>1. ASSUME NEW j \in 1 .. m, j < p
        PROVE  j \in 1 .. m - 1 /\ old(j) = j
    BY <2>1
  <2>2. ASSUME NEW j \in 1 .. m, j > p
        PROVE  j - 1 \in 1 .. m - 1 /\ old(j - 1) = j
    BY <2>2
  <2>. HIDE DEF old
  <2>3. ASSUME NEW j \in 1 .. m, j # p
        PROVE  j < p \/ j > p
    BY <2>3
  <2>. QED
    BY <2>1, <2>2, <2>3
<1>. HIDE DEF t
<1>14. \A i, j \in 1 .. m - 1 : t[i] = t[j] => i = j
  <2>. HIDE DEF old
  <2>. QED
    BY <1>7, <1>10, <1>11, <1>12
<1>15. \A k \in Node : k \in Allocated' <=> \E i \in 1 .. m - 1 : t[i] = k
  <2>. HIDE DEF old
  <2>1. ASSUME NEW k \in Node, k \in Allocated'
        PROVE  \E i \in 1 .. m - 1 : t[i] = k
    <3>1. PICK j \in 1 .. m : s[j] = k
      BY <1>9, <2>1 DEF Chained
    <3>2. j # p
      BY <1>2, <1>9, <2>1, <3>1
    <3>. QED
      BY <1>11, <1>13, <3>1, <3>2
  <2>2. ASSUME NEW i \in 1 .. m - 1
        PROVE  t[i] \in Allocated'
    <3>1. s[old(i)] \in Allocated /\ s[old(i)] # n
      BY <1>2, <1>6, <1>7, <1>10 DEF Chained
    <3>. QED
      BY <1>9, <1>11, <3>1
  <2>. QED
    BY <2>1, <2>2
<1>16. head' = IF m - 1 = 0 THEN NULL ELSE t[1]
  <2>1. head = s[1] /\ m # 0
    BY DEF Chained
  <2>2. CASE p = 1
    <3>1. head' = IF p = m THEN NULL ELSE s[2]
      <4>1. before = NULL /\ after = IF p = m THEN NULL ELSE s[2]
        BY <2>2
      <4>. HIDE DEF before, after
      <4>. QED
        BY <1>4, <4>1
    <3>2. m - 1 # 0 => 1 \in 1 .. m - 1 /\ old(1) = 2
      BY <2>2
    <3>. QED
      BY <1>11, <2>2, <3>1, <3>2
  <2>3. CASE p # 1
    <3>1. before # NULL
      BY <1>6, <2>3
    <3>2. 1 \in 1 .. m - 1 /\ old(1) = 1 /\ m - 1 # 0
      BY <2>3
    <3>. QED
      <4>1. t[1] = s[1]
        BY <1>11, <3>2
      <4>2. head' = head
        <5>. HIDE DEF before, after
        <5>. QED
          BY <1>4, <3>1
      <4>. QED
        BY <2>1, <3>2, <4>1, <4>2
  <2>. QED
    BY <2>2, <2>3
<1>17. ASSUME NEW i \in 1 .. m - 1
       PROVE  /\ block'[t[i]].next = IF i = m - 1 THEN NULL ELSE t[i + 1]
              /\ block'[t[i]].prev = IF i = 1 THEN NULL ELSE t[i - 1]
  <2>1. PICK j \in 1 .. m : j = old(i) /\ j # p
    BY <1>10
  <2>2. t[i] = s[j] /\ s[j] \in Node \ {n}
    BY <1>2, <1>6, <1>7, <1>11, <2>1
  <2>3. /\ block[s[j]].next = IF j = m THEN NULL ELSE s[j + 1]
        /\ block[s[j]].prev = IF j = 1 THEN NULL ELSE s[j - 1]
    BY DEF Chained
  <2>4. s[j] = before <=> j = p - 1
    <3>1. CASE p = 1
      BY <1>6, <3>1
    <3>2. CASE p # 1
      <4>1. p - 1 \in 1 .. m /\ before = s[p - 1]
        BY <3>2
      <4>. QED
        BY <1>7, <4>1
    <3>. QED
      BY <3>1, <3>2
  <2>5. s[j] = after <=> j = p + 1
    <3>1. CASE p = m
      BY <1>6, <3>1
    <3>2. CASE p # m
      <4>1. p + 1 \in 1 .. m /\ after = s[p + 1]
        BY <3>2
      <4>. QED
        BY <1>7, <4>1
    <3>. QED
      BY <3>1, <3>2
  <2>6. /\ block'[t[i]].next = IF j = p - 1 THEN after ELSE block[s[j]].next
        /\ block'[t[i]].prev = IF j = p + 1 THEN before ELSE block[s[j]].prev
    BY <1>8, <2>2, <2>4, <2>5
  <2>7. block'[t[i]].next = IF i = m - 1 THEN NULL ELSE t[i + 1]
    <3>1. CASE j = p - 1
      <4>1. i = p - 1 /\ (p = m <=> i = m - 1)
        BY <2>1, <3>1
      <4>2. i # m - 1 => i + 1 \in 1 .. m - 1 /\ old(i + 1) = p + 1
        BY <4>1
      <4>. QED
        BY <1>11, <2>6, <3>1, <4>1, <4>2
    <3>2. CASE j # p - 1
      <4>1. j = m <=> i = m - 1
        BY <2>1, <3>2
      <4>2. i # m - 1 => i + 1 \in 1 .. m - 1 /\ old(i + 1) = j + 1
        BY <2>1, <3>2
      <4>. QED
        BY <1>11, <2>3, <2>6, <3>2, <4>1, <4>2
    <3>. QED
      BY <3>1, <3>2
  <2>8. block'[t[i]].prev = IF i = 1 THEN NULL ELSE t[i - 1]
    <3>1. CASE j = p + 1
      <4>1. i = p
        BY <2>1, <3>1
      <4>2. i # 1 => i - 1 \in 1 .. m - 1 /\ old(i - 1) = p - 1
        BY <4>1
      <4>. QED
        BY <1>11, <2>6, <3>1, <4>1, <4>2
    <3>2. CASE j # p + 1
      <4>1. j = 1 <=> i = 1
        BY <2>1, <3>2
      <4>2. i # 1 => i - 1 \in 1 .. m - 1 /\ old(i - 1) = j - 1
        BY <2>1, <3>2
      <4>. QED
        BY <1>11, <2>3, <2>6, <3>2, <4>1, <4>2
    <3>. QED
      BY <3>1, <3>2
  <2>. QED
    BY <2>7, <2>8
<1>18. Chained(t, m - 1)'
  BY <1>14, <1>15, <1>16, <1>17 DEF Chained
<1>19. m - 1 \in 0 .. Cardinality(Node)
  BY <1>1, <1>2, NodeAssumption, FS_CardinalityType
<1>. QED
  BY <1>9, <1>11, <1>18, <1>19 DEF OnAChain

(* A removal gives back the bytes of the block.                            *)
LEMMA RemoveKeeps ==
    ASSUME CacheInv, NEW n \in List, remove_from_cache(n)
    PROVE  /\ CacheInv'
           /\ List' = List \ {n}
           /\ \A k \in List' : block'[k].uri = block[k].uri
<1>1. /\ block \in [Node -> Block] /\ head \in Pointer /\ slots \in Int
      /\ CacheTypeOK /\ OnAChain
  BY DEF CacheInv, CacheTypeOK
<1>2. ListIsWhole
  BY <1>1, ListIsAllocated
<1>3. n \in Node /\ n \in Allocated /\ List \in SUBSET Node
  BY <1>2 DEF ListIsWhole
<1>4. PICK before \in Pointer, after \in Pointer :
          /\ head' = IF before = NULL THEN after ELSE head
          /\ slots' = slots + block[n].size
          /\ block' = [k \in Node |->
                 IF k = n THEN Freed
                 ELSE [block[k] EXCEPT !.next = IF k = before THEN after ELSE @,
                                       !.prev = IF k = after THEN before ELSE @]]
  <2>1. block[n].prev \in Pointer /\ block[n].next \in Pointer
    BY <1>1, <1>3 DEF Block
  <2>. QED
    BY <2>1 DEF remove_from_cache
<1>5. CacheTypeOK'
  <2>1. Freed \in Block
    BY DEF Freed, Block, Pointer
  <2>2. \A k \in Node :
           [block[k] EXCEPT !.next = IF k = before THEN after ELSE @,
                            !.prev = IF k = after THEN before ELSE @] \in Block
    BY <1>1 DEF Block
  <2>3. block' \in [Node -> Block]
    BY <1>4, <2>1, <2>2
  <2>4. slots' \in Int
    <3>1. block[n].size \in Nat
      BY <1>1, <1>3 DEF Block
    <3>2. slots' = slots + block[n].size
      BY <1>4
    <3>. QED
      BY <1>1, <3>1, <3>2
  <2>. QED
    BY <1>1, <1>4, <2>3, <2>4 DEF CacheTypeOK
<1>6. Allocated' = Allocated \ {n} /\ OnAChain'
  <2>1. PICK m \in 0 .. Cardinality(Node) : \E s \in [1 .. m -> Node] : Chained(s, m)
    BY <1>1 DEF OnAChain
  <2>2. m \in Nat
    BY NodeAssumption, FS_CardinalityType
  <2>3. PICK s \in [1 .. m -> Node] : Chained(s, m)
    BY <2>1
  <2>. QED
    BY <1>1, <2>2, <2>3, RemoveChains
<1>7. ListIsWhole'
  BY <1>5, <1>6, ListIsAllocated
<1>8. List' = List \ {n}
  BY <1>2, <1>6, <1>7 DEF ListIsWhole
<1>9. \A k \in Node \ {n} : /\ block'[k].uri = block[k].uri
                            /\ block'[k].size = block[k].size
  BY <1>1, <1>4 DEF Block
<1>10. BytesAddUp'
  <2>1. BytesAsSum
    BY <1>1, <1>2, BytesAreSum DEF CacheInv, BytesAgree
  <2>2. PICK g \in [SUBSET Node -> Nat] :
           /\ SumsUp(g, Sizes, Node)
           /\ slots >= 0 /\ slots + g[List] = MAX_CACHE_SIZE
    BY <2>1 DEF BytesAsSum
  <2>3. PICK f \in [Node -> Nat] : f = Sizes
    BY <1>1 DEF Sizes, Block
  <2>4. Sizes' \in [Node -> Nat]
    BY <1>5 DEF Sizes, CacheTypeOK, Block
  <2>5. PICK h \in [SUBSET Node -> Nat] : SumsUp(h, Sizes', Node)
    BY <2>4, NodeAssumption, SumExists
  <2>6. \A k \in List' : Sizes[k] = Sizes'[k]
    BY <1>3, <1>8, <1>9 DEF Sizes
  <2>7. g[List'] = h[List']
    <3>1. IsFiniteSet(List') /\ List' \subseteq Node /\ List' \in SUBSET List'
      BY <1>3, <1>8, NodeAssumption, FS_Subset
    <3>. QED
      BY <2>2, <2>5, <2>6, <3>1, SumIsUnique
  <2>8. g[List] = block[n].size + g[List']
    <3>1. PICK T \in SUBSET Node : T = List /\ n \in T
      BY <1>3
    <3>2. SumsUp(g, f, Node) /\ IsFiniteSet(Node)
      BY <2>2, <2>3, NodeAssumption
    <3>3. g[T] = f[n] + g[T \ {n}]
      <4>1. \A x \in T : g[T] = f[x] + g[T \ {x}]
        BY <3>2, SumWithout
      <4>. QED
        BY <3>1, <4>1
    <3>4. f[n] = block[n].size
      BY <1>3, <2>3 DEF Sizes
    <3>. QED
      BY <1>8, <3>1, <3>3, <3>4
  <2>9. g[List'] \in Nat /\ block[n].size \in Nat
    BY <1>1, <1>3, <1>8 DEF Block
  <2>10. slots' >= 0 /\ slots' + h[List'] = MAX_CACHE_SIZE
    <3>1. PICK x \in Nat : x = g[List'] /\ x = h[List']
      BY <2>7, <2>9
    <3>2. PICK y \in Nat : y = block[n].size
      BY <2>9
    <3>3. slots' = slots + y /\ slots + (y + x) = MAX_CACHE_SIZE
      BY <1>4, <2>2, <2>8, <3>1, <3>2
    <3>4. slots' + x = MAX_CACHE_SIZE /\ slots' >= 0
      BY <1>1, <2>2, <3>3
    <3>. QED
      BY <3>1, <3>4
  <2>11. BytesAsSum'
    BY <2>5, <2>10 DEF BytesAsSum
  <2>. QED
    BY <1>5, <1>7, <2>11, NextBytesAreSum DEF BytesAgree
<1>11. \A k \in List' : block'[k].uri = block[k].uri /\ k \in List
  BY <1>3, <1>8, <1>9
<1>12. OneBlockPerUri'
  BY <1>11 DEF CacheInv, OneBlockPerUri
<1>. QED
  BY <1>5, <1>6, <1>8, <1>10, <1>11, <1>12 DEF CacheInv

(* A step that leaves the cache alone.                                     *)
LEMMA CacheInvStays ==
    ASSUME CacheInv, UNCHANGED cacheVars
    PROVE  CacheInv' /\ List' = List /\ block' = block
<1>1. UNCHANGED <<block, head, slots>>
  BY DEF cacheVars
<1>2. List' = List
  BY <1>1 DEF List, Walk
<1>3. CacheTypeOK' /\ OneBlockPerUri'
  BY <1>1, <1>2 DEF CacheInv, CacheTypeOK, OneBlockPerUri
<1>4. OnAChain'
  BY <1>1 DEF CacheInv, OnAChain, Chained, Allocated
<1>5. ListIsWhole /\ ListIsWhole'
  BY <1>3, <1>4, ListIsAllocated DEF CacheInv
<1>6. BytesAddUp'
  <2>1. BytesAsSum
    BY <1>5, BytesAreSum DEF CacheInv, BytesAgree
  <2>2. BytesAsSum'
    BY <1>1, <1>2, <2>1 DEF BytesAsSum, SumsUp, Sizes
  <2>. QED
    BY <1>3, <1>5, <2>2, NextBytesAreSum DEF BytesAgree
<1>. QED
  BY <1>1, <1>2, <1>3, <1>4, <1>6 DEF CacheInv

(* The body of the eviction loop removes a block of the list, or none.     *)
LEMMA EvictKeeps ==
    ASSUME CacheInv, evict_block
    PROVE  /\ CacheInv'
           /\ List' \in SUBSET List
           /\ \A k \in List' : block'[k].uri = block[k].uri
<1>1. CASE UNCHANGED cacheVars
  BY <1>1, CacheInvStays
<1>2. CASE \E n \in List : n = evict_age /\ remove_from_cache(n)
  BY <1>2, RemoveKeeps
<1>. QED
  BY <1>1, <1>2 DEF evict_block

(* The lookup finds no block only if the list has none of the URI.         *)
LEMMA MissMeansAbsent ==
    ASSUME CacheInv, NEW uri
    PROVE  /\ search_cache(uri) = NULL => \A k \in List : block[k].uri # uri
           /\ search_cache(uri) # NULL => search_cache(uri) \in List
<1>. DEFINE N == {n \in List : block[n].uri = uri}
<1>1. N \in SUBSET List
  OBVIOUS
<1>2. IF N = {} THEN FirstOf(N) = NULL ELSE FirstOf(N) \in N /\ FirstOf(N) # NULL
  <2>. HIDE DEF N
  <2>. QED
    BY <1>1, FirstOfIsOne DEF CacheInv
<1>3. search_cache(uri) = FirstOf(N)
  BY DEF search_cache
<1>. QED
  BY <1>1, <1>2, <1>3

(* And otherwise it finds one that has it.                                 *)
LEMMA HitMeansPresent ==
    ASSUME CacheInv, NEW uri, search_cache(uri) # NULL
    PROVE  search_cache(uri) \in List /\ block[search_cache(uri)].uri = uri
<1>. DEFINE N == {n \in List : block[n].uri = uri}
<1>1. N \in SUBSET List
  OBVIOUS
<1>2. IF N = {} THEN FirstOf(N) = NULL ELSE FirstOf(N) \in N /\ FirstOf(N) # NULL
  <2>. HIDE DEF N
  <2>. QED
    BY <1>1, FirstOfIsOne DEF CacheInv
<1>3. search_cache(uri) = FirstOf(N)
  BY DEF search_cache
<1>. QED
  BY <1>1, <1>2, <1>3

(* The empty cache.                                                        *)
LEMMA CacheInvInit == init_cache => CacheInv
<1>. SUFFICES ASSUME init_cache PROVE CacheInv
  OBVIOUS
<1>1. block = [n \in Node |-> Freed] /\ head = NULL /\ slots = MAX_CACHE_SIZE
  BY DEF init_cache
<1>2. CacheTypeOK
  BY <1>1, SizeAssumption DEF CacheTypeOK, Freed, Block, Pointer
<1>3. Allocated = {}
  BY <1>1 DEF Allocated, Freed
<1>4. OnAChain
  <2>1. 0 \in 0 .. Cardinality(Node)
    BY NodeAssumption, FS_CardinalityType
  <2>2. PICK s \in [1 .. 0 -> Node] : TRUE
    <3>1. [i \in 1 .. 0 |-> 0] \in [1 .. 0 -> Node]
      OBVIOUS
    <3>. QED
      BY <3>1
  <2>3. Chained(s, 0)
    BY <1>1, <1>3 DEF Chained
  <2>. QED
    BY <2>1, <2>3 DEF OnAChain
<1>5. ListIsWhole
  BY <1>2, <1>4, ListIsAllocated
<1>6. List = {}
  BY <1>3, <1>5 DEF ListIsWhole
<1>7. BytesAddUp
  <2>1. Sizes \in [Node -> Nat]
    BY <1>2 DEF Sizes, CacheTypeOK, Block
  <2>2. PICK g \in [SUBSET Node -> Nat] : SumsUp(g, Sizes, Node)
    BY <2>1, NodeAssumption, SumExists
  <2>3. g[{}] = 0
    BY <2>2 DEF SumsUp
  <2>4. BytesAsSum
    BY <1>1, <1>6, <2>2, <2>3, SizeAssumption DEF BytesAsSum
  <2>. QED
    BY <1>2, <1>5, <2>4, BytesAreSum DEF BytesAgree
<1>8. OneBlockPerUri
  BY <1>6 DEF OneBlockPerUri
<1>. QED
  BY <1>2, <1>4, <1>7, <1>8 DEF CacheInv

=============================================================================
