-------------------------- MODULE WebCacheUseProofs --------------------------
(***************************************************************************)
(* One thread's use of the cache keeps it sound, for every number of       *)
(* nodes, every size of the cache and every bound of the clock.            *)
(***************************************************************************)
EXTENDS WebCacheUse, WebCacheProofs, SequenceTheorems, SequencesExt

(* While a response is being added no block has its URI: the lookup missed *)
(* it, and evictions only take blocks away.                                *)
UseInv ==
    /\ CacheInv
    /\ time_count \in Nat
    /\ adding \in [uri : Uri, size : Size] \cup {Nothing}
    /\ adding # Nothing => \A k \in List : block[k].uri # adding.uri

(* Each step of the thread.                                                *)
LEMMA UseStep == UseInv /\ [UseNext]_useVars => UseInv'
<1>. SUFFICES ASSUME UseInv, [UseNext]_useVars PROVE UseInv'
  OBVIOUS
<1>1. CacheInv /\ ListIsWhole /\ time_count \in Nat
        /\ adding \in [uri : Uri, size : Size] \cup {Nothing}
  BY ListIsAllocated DEF UseInv, CacheInv
<1>2. CASE \E uri \in Uri : Hit(uri)
  <2>1. PICK uri \in Uri : Hit(uri)
    BY <1>2
  <2>2. time_count' \in Nat /\ adding' = adding /\ adding = Nothing
    BY <1>1, <2>1 DEF Hit
  <2>3. PICK n \in Node : read_response(n, time_count')
    <3>1. search_cache(uri) \in List
      BY <1>1, <2>1, MissMeansAbsent DEF Hit
    <3>. QED
      BY <1>1, <2>1, <3>1 DEF Hit, ListIsWhole
  <2>4. CacheInv'
    BY <1>1, <2>2, <2>3, ReadKeeps
  <2>. QED
    BY <1>1, <2>2, <2>4 DEF UseInv
<1>3. CASE \E uri \in Uri, size \in Size : Miss(uri, size)
  <2>1. PICK uri \in Uri, size \in Size : Miss(uri, size)
    BY <1>3
  <2>2. /\ search_cache(uri) = NULL /\ UNCHANGED cacheVars
        /\ time_count' = time_count + 1 /\ adding' = [uri |-> uri, size |-> size]
    BY <2>1 DEF Miss
  <2>3. CacheInv' /\ List' = List /\ block' = block
    BY <1>1, <2>2, CacheInvStays
  <2>4. \A k \in List : block[k].uri # uri
    BY <1>1, <2>2, MissMeansAbsent
  <2>. QED
    BY <1>1, <2>2, <2>3, <2>4 DEF UseInv
<1>4. CASE Evict
  <2>1. CacheInv' /\ List' \in SUBSET List
          /\ \A k \in List' : block'[k].uri = block[k].uri
    BY <1>1, <1>4, EvictKeeps DEF Evict
  <2>. QED
    BY <1>1, <1>4, <2>1 DEF UseInv, Evict
<1>5. CASE Insert
  <2>1. PICK n \in Node : insert_block(n, adding.uri, adding.size, time_count)
    BY <1>5 DEF Insert
  <2>2. /\ adding # Nothing /\ ~ MustEvict(adding.size) /\ adding' = Nothing
        /\ time_count' = time_count
    BY <1>5 DEF Insert
  <2>3. PICK uri \in Uri, size \in Size : adding = [uri |-> uri, size |-> size]
    BY <1>1, <2>2
  <2>4. size \in Nat /\ adding.uri = uri /\ adding.size = size
    BY <2>3, ObjectAssumption, SizeAssumption
  <2>5. \A k \in List : block[k].uri # uri
    BY <2>2, <2>4 DEF UseInv
  <2>6. insert_block(n, uri, size, time_count) /\ ~ MustEvict(size)
    BY <2>1, <2>2, <2>4
  <2>7. CacheInv'
    BY <1>1, <2>4, <2>5, <2>6, InsertKeeps
  <2>. QED
    BY <1>1, <2>2, <2>7 DEF UseInv
<1>6. CASE UNCHANGED useVars
  <2>1. UNCHANGED cacheVars /\ UNCHANGED <<time_count, adding>>
    BY <1>6 DEF useVars
  <2>2. CacheInv' /\ List' = List /\ block' = block
    BY <1>1, <2>1, CacheInvStays
  <2>. QED
    BY <1>1, <2>1, <2>2 DEF UseInv
<1>. QED
  BY <1>2, <1>3, <1>4, <1>5, <1>6 DEF UseNext

(* The list holds together and the bytes add up, in whatever order blocks  *)
(* are used, added and evicted (cache.c:33-203).                           *)
THEOREM CacheStaysSound == UseSpec => []CacheIsSound
<1>1. UseInit => UseInv
  <2>. SUFFICES ASSUME UseInit PROVE UseInv
    OBVIOUS
  <2>. QED
    BY CacheInvInit DEF UseInit, UseInv
<1>2. UseInv /\ [UseNext]_useVars => UseInv'
  BY UseStep
<1>3. UseInv => CacheIsSound
  BY ChainIsWellLinked DEF UseInv, CacheInv, CacheIsSound, UseTypeOK
<1>. QED
  BY <1>1, <1>2, <1>3, PTL DEF UseSpec

-----------------------------------------------------------------------------
(* q lists the blocks of L, the youngest first; b is the heap.             *)
Ordered(q, L, b) ==
    /\ q \in [1 .. Cardinality(L) -> L]
    /\ \A n \in L : \E i \in 1 .. Cardinality(L) : q[i] = n
    /\ \A i, j \in 1 .. Cardinality(L) : i < j => b[q[i]].age > b[q[j]].age

(* No two blocks of L are of one age.                                      *)
Aged(L, b) ==
    /\ \A n \in L : b[n].age \in Nat
    /\ \A m, n \in L : b[m].age = b[n].age => m = n

(* Such a list exists, for the oldest block may be put behind the others.  *)
LEMMA OrderExists ==
    ASSUME NEW S, IsFiniteSet(S), NEW b, Aged(S, b)
    PROVE  \E q : Ordered(q, S, b)
<1> DEFINE Bad == {L \in SUBSET S : ~ \E q : Ordered(q, L, b)}
<1> SUFFICES ASSUME Bad # {} PROVE FALSE
  OBVIOUS
<1>1. PICK L \in Bad : \A M \in Bad : Cardinality(L) <= Cardinality(M)
  <2>1. Bad \in SUBSET (SUBSET S)
    OBVIOUS
  <2> HIDE DEF Bad
  <2>2. QED
    BY <2>1, FewestExists
<1>2. L \in SUBSET S /\ ~ \E q : Ordered(q, L, b)
  OBVIOUS
<1>3. IsFiniteSet(L) /\ Cardinality(L) \in Nat
  BY <1>2, FS_Subset, FS_CardinalityType
<1>4. L # {}
  <2>1. SUFFICES ASSUME L = {} PROVE FALSE
    OBVIOUS
  <2>2. Cardinality(L) = 0
    BY <2>1, FS_EmptySet
  <2>3. Ordered([i \in 1 .. 0 |-> 0], L, b)
    BY <2>1, <2>2 DEF Ordered
  <2>4. QED
    BY <1>2, <2>3
<1>5. PICK x \in L : \A y \in L : b[x].age <= b[y].age
  <2>1. {b[y].age : y \in L} \in SUBSET Nat /\ {b[y].age : y \in L} # {}
    BY <1>2, <1>4 DEF Aged
  <2>2. PICK a \in {b[y].age : y \in L} : \A c \in {b[y].age : y \in L} : a <= c
    BY <2>1, LeastExists
  <2>3. QED
    BY <2>2
<1> DEFINE M == L \ {x}
           k == Cardinality(M)
<1>6. k = Cardinality(L) - 1 /\ k \in Nat
  BY <1>3, FS_RemoveElement, FS_CardinalityType
<1>7. PICK q : Ordered(q, M, b)
  <2>1. M \in SUBSET S /\ M \notin Bad
    BY <1>1, <1>2, <1>3, <1>6
  <2>2. QED
    BY <2>1
<1> DEFINE r == [i \in 1 .. k + 1 |-> IF i <= k THEN q[i] ELSE x]
<1>8. Cardinality(L) = k + 1
  BY <1>3, <1>6
<1> HIDE DEF k, Bad
<1>9. /\ q \in [1 .. k -> M]
      /\ \A n \in M : \E i \in 1 .. k : q[i] = n
      /\ \A i, j \in 1 .. k : i < j => b[q[i]].age > b[q[j]].age
  BY <1>7 DEF Ordered, k
<1>10. r \in [1 .. k + 1 -> L]
  BY <1>6, <1>9
<1>11. ASSUME NEW n \in L PROVE \E i \in 1 .. k + 1 : r[i] = n
  <2>1. CASE n = x
    <3>1. k + 1 \in 1 .. k + 1 /\ r[k + 1] = x
      BY <1>6
    <3>2. QED
      BY <2>1, <3>1
  <2>2. CASE n # x
    <3>1. PICK i \in 1 .. k : q[i] = n
      BY <1>9, <2>2
    <3>2. i \in 1 .. k + 1 /\ r[i] = n
      BY <1>6, <3>1
    <3>3. QED
      BY <3>2
  <2>3. QED
    BY <2>1, <2>2
<1>12. ASSUME NEW i \in 1 .. k + 1, NEW j \in 1 .. k + 1, i < j
       PROVE  b[r[i]].age > b[r[j]].age
  <2>1. i \in 1 .. k /\ r[i] = q[i] /\ q[i] \in M
    BY <1>6, <1>9, <1>12
  <2>2. CASE j = k + 1
    <3>1. r[j] = x
      BY <1>6, <2>2
    <3>2. b[x].age <= b[q[i]].age /\ b[x].age # b[q[i]].age
      BY <1>2, <1>5, <2>1 DEF Aged
    <3>3. b[x].age \in Nat /\ b[q[i]].age \in Nat
      BY <1>2, <2>1 DEF Aged
    <3>4. QED
      BY <2>1, <3>1, <3>2, <3>3
  <2>3. CASE j # k + 1
    <3>1. j \in 1 .. k /\ r[j] = q[j]
      BY <1>6, <2>3
    <3>2. QED
      BY <1>9, <1>12, <2>1, <3>1
  <2>4. QED
    BY <2>2, <2>3
<1>13. Ordered(r, L, b)
  BY <1>8, <1>10, <1>11, <1>12 DEF Ordered
<1>14. QED
  BY <1>2, <1>13

(* As Entries, of any list and heap.                                       *)
Entry(b, n) == [uri |-> b[n].uri, size |-> b[n].size]

Older(L, b, n) == {m \in L : b[m].age > b[n].age}

EntriesOf(L, b) ==
    [i \in 1 .. Cardinality(L) |->
        Entry(b, CHOOSE n \in L : Cardinality(Older(L, b, n)) = i - 1)]

(* They are the entries, in this state and in the next.                    *)
LEMMA EntriesIs == Entries = EntriesOf(List, block) /\ Entries' = EntriesOf(List', block')
<1>1. Entries = EntriesOf(List, block)
  BY DEF Entries, EntriesOf, Entry, Older
<1>2. Entries' = EntriesOf(List', block')
  BY DEF Entries, EntriesOf, Entry, Older
<1>3. QED
  BY <1>1, <1>2

(* The i-th entry, the one with i - 1 younger ones, is that of the i-th    *)
(* block in order.                                                         *)
LEMMA EntriesInOrder ==
    ASSUME NEW L, IsFiniteSet(L), NEW b, Aged(L, b), NEW q, Ordered(q, L, b)
    PROVE  EntriesOf(L, b) = [i \in 1 .. Cardinality(L) |-> Entry(b, q[i])]
<1> DEFINE k == Cardinality(L)
<1>1. k \in Nat
  BY FS_CardinalityType
<1>2. /\ q \in [1 .. k -> L]
      /\ \A n \in L : \E i \in 1 .. k : q[i] = n
      /\ \A i, j \in 1 .. k : i < j => b[q[i]].age > b[q[j]].age
      /\ \A n \in L : b[n].age \in Nat
  BY DEF Ordered, Aged
<1> HIDE DEF k
<1>3. ASSUME NEW i \in 1 .. k PROVE Cardinality(Older(L, b, q[i])) = i - 1
  <2> DEFINE f == [j \in 1 .. i - 1 |-> q[j]]
             T == Older(L, b, q[i])
  <2>1. i - 1 \in Nat /\ \A j \in 1 .. i - 1 : j \in 1 .. k /\ j < i
    BY <1>1
  <2>2. \A j \in 1 .. i - 1 : q[j] \in T
    BY <1>2, <2>1 DEF Older
  <2>3. \A n \in T : \E j \in 1 .. i - 1 : q[j] = n
    <3>1. ASSUME NEW n \in T PROVE \E j \in 1 .. i - 1 : q[j] = n
      <4>1. n \in L /\ b[n].age > b[q[i]].age
        BY DEF Older
      <4>2. PICK j \in 1 .. k : q[j] = n
        BY <1>2, <4>1
      <4>3. ~(i < j) /\ i # j
        BY <1>2, <4>1, <4>2
      <4>4. j \in 1 .. i - 1
        BY <1>1, <4>3
      <4>5. QED
        BY <4>2, <4>4
    <3>2. QED
      BY <3>1
  <2>4. \A j, l \in 1 .. i - 1 : q[j] = q[l] => j = l
    <3>1. ASSUME NEW j \in 1 .. i - 1, NEW l \in 1 .. i - 1, j < l PROVE q[j] # q[l]
      <4>1. q[j] \in L /\ q[l] \in L /\ b[q[j]].age > b[q[l]].age
        BY <1>2, <2>1, <3>1
      <4>2. QED
        BY <1>2, <4>1
    <3>2. QED
      BY <2>1, <3>1
  <2> HIDE DEF T
  <2>5. f \in Bijection(1 .. i - 1, T)
    BY <2>2, <2>3, <2>4 DEF Bijection, Injection, Surjection, IsInjective
  <2>6. Cardinality(1 .. i - 1) = i - 1 /\ IsFiniteSet(1 .. i - 1)
    BY <2>1, FS_Interval
  <2>7. Cardinality(T) = Cardinality(1 .. i - 1)
    BY <2>5, <2>6, FS_Bijection DEF ExistsBijection
  <2>8. QED
    BY <2>6, <2>7 DEF T
<1>4. ASSUME NEW i \in 1 .. k
      PROVE  (CHOOSE n \in L : Cardinality(Older(L, b, n)) = i - 1) = q[i]
  <2>1. q[i] \in L /\ Cardinality(Older(L, b, q[i])) = i - 1
    BY <1>2, <1>3
  <2>2. ASSUME NEW n \in L, Cardinality(Older(L, b, n)) = i - 1 PROVE n = q[i]
    <3>1. PICK j \in 1 .. k : q[j] = n
      BY <1>2
    <3>2. j - 1 = i - 1
      BY <1>3, <2>2, <3>1
    <3>3. QED
      BY <3>1, <3>2
  <2>3. QED
    BY <2>1, <2>2
<1>5. EntriesOf(L, b) = [i \in 1 .. k |->
          Entry(b, CHOOSE n \in L : Cardinality(Older(L, b, n)) = i - 1)]
  BY Zenon DEF EntriesOf, k
<1>6. EntriesOf(L, b) = [i \in 1 .. k |-> Entry(b, q[i])]
  BY <1>4, <1>5, Zenon
<1>7. QED
  BY <1>6, Zenon DEF k

(* The order of the blocks after a hit of q[i], after an insertion of n,   *)
(* and after an eviction.                                                  *)
Renewed(q, k, i) ==
    [j \in 1 .. k |-> IF j = 1 THEN q[i] ELSE IF j <= i THEN q[j - 1] ELSE q[j]]

Joined(q, k, n) == [j \in 1 .. k + 1 |-> IF j = 1 THEN n ELSE q[j - 1]]

Shortened(q, k) == [j \in 1 .. k - 1 |-> q[j]]

(* A block that becomes the youngest moves to the front.                   *)
LEMMA OrderAfterHit ==
    ASSUME NEW L, IsFiniteSet(L), NEW b, Aged(L, b), NEW q, Ordered(q, L, b),
           NEW i \in 1 .. Cardinality(L), NEW c, NEW t \in Nat, c[q[i]].age = t,
           \A n \in L : b[n].age < t,
           \A n \in L : n # q[i] => c[n].age = b[n].age
    PROVE  Aged(L, c) /\ Ordered(Renewed(q, Cardinality(L), i), L, c)
<1> DEFINE k == Cardinality(L)
           r == Renewed(q, k, i)
<1>1. k \in Nat /\ i \in 1 .. k
  BY FS_CardinalityType
<1>2. /\ q \in [1 .. k -> L]
      /\ \A n \in L : \E j \in 1 .. k : q[j] = n
      /\ \A j, l \in 1 .. k : j < l => b[q[j]].age > b[q[l]].age
      /\ \A n \in L : b[n].age \in Nat
      /\ \A m, n \in L : b[m].age = b[n].age => m = n
  BY DEF Ordered, Aged
<1> HIDE DEF k
<1>3. Aged(L, c)
  <2>1. ASSUME NEW n \in L PROVE c[n].age \in Nat
    BY <1>2
  <2>2. ASSUME NEW m \in L, NEW n \in L, c[m].age = c[n].age PROVE m = n
    <3>1. b[m].age < t /\ b[n].age < t /\ b[m].age \in Nat /\ b[n].age \in Nat
      BY <1>2
    <3>2. CASE m = q[i] \/ n = q[i]
      BY <2>2, <3>1, <3>2
    <3>3. CASE m # q[i] /\ n # q[i]
      BY <1>2, <2>2, <3>3
    <3>4. QED
      BY <3>2, <3>3
  <2>3. QED
    BY <2>1, <2>2 DEF Aged
<1>4. \A j, l \in 1 .. k : q[j] = q[l] => j = l
  <2>1. ASSUME NEW j \in 1 .. k, NEW l \in 1 .. k, j < l PROVE q[j] # q[l]
    BY <1>2, <2>1
  <2>2. QED
    BY <2>1
<1>5. ASSUME NEW j \in 1 .. k
      PROVE  r[j] = IF j = 1 THEN q[i] ELSE IF j <= i THEN q[j - 1] ELSE q[j]
  BY Zenon DEF Renewed
<1>6. ASSUME NEW j \in 1 .. k
      PROVE  /\ r[j] \in L
             /\ j = 1 => c[r[j]].age = t
             /\ j # 1 => \E l \in 1 .. k :
                            /\ l = (IF j <= i THEN j - 1 ELSE j) /\ l # i
                            /\ r[j] = q[l] /\ c[r[j]].age = b[q[l]].age
  <2>1. CASE j = 1
    BY <1>1, <1>2, <1>5, <2>1
  <2>2. CASE j # 1
    <3>1. PICK l \in 1 .. k : l = (IF j <= i THEN j - 1 ELSE j) /\ l # i
      BY <1>1, <2>2
    <3>2. r[j] = q[l]
      BY <1>5, <2>2, <3>1
    <3>3. q[l] \in L /\ q[l] # q[i]
      BY <1>1, <1>2, <1>4, <3>1
    <3>4. QED
      BY <2>2, <3>1, <3>2, <3>3
  <2>3. QED
    BY <2>1, <2>2
<1>7. r \in [1 .. k -> L]
  <2>1. r = [j \in 1 .. k |-> r[j]]
    BY DEF Renewed
  <2> HIDE DEF r
  <2>2. QED
    BY <1>6, <2>1, Zenon
<1> HIDE DEF r
<1>8. ASSUME NEW n \in L PROVE \E j \in 1 .. k : r[j] = n
  <2>1. PICK l \in 1 .. k : q[l] = n
    BY <1>2
  <2>2. CASE l = i
    <3>1. 1 \in 1 .. k /\ r[1] = q[i]
      BY <1>1, <1>5
    <3>2. QED
      BY <2>1, <2>2, <3>1
  <2>3. CASE l < i
    <3>1. l + 1 \in 1 .. k /\ l + 1 <= i /\ l + 1 # 1 /\ (l + 1) - 1 = l
      BY <1>1, <2>3
    <3>2. r[l + 1] = q[l]
      BY <1>5, <3>1
    <3>3. QED
      BY <2>1, <3>1, <3>2
  <2>4. CASE l > i
    <3>1. l # 1 /\ ~(l <= i)
      BY <1>1, <2>4
    <3>2. r[l] = q[l]
      BY <1>5, <3>1
    <3>3. QED
      BY <2>1, <3>2
  <2>5. QED
    BY <1>1, <2>2, <2>3, <2>4
<1>9. ASSUME NEW j \in 1 .. k, NEW l \in 1 .. k, j < l
      PROVE  c[r[j]].age > c[r[l]].age
  <2>1. l # 1
    BY <1>9
  <2>2. PICK l1 \in 1 .. k : /\ l1 = (IF l <= i THEN l - 1 ELSE l) /\ l1 # i
                             /\ r[l] = q[l1] /\ c[r[l]].age = b[q[l1]].age
    BY <1>6, <2>1
  <2>3. q[l1] \in L
    BY <1>2
  <2>4. CASE j = 1
    <3>1. c[r[j]].age = t
      BY <1>6, <2>4
    <3>2. b[q[l1]].age < t /\ b[q[l1]].age \in Nat
      BY <1>2, <2>3
    <3>3. QED
      BY <2>2, <3>1, <3>2
  <2>5. CASE j # 1
    <3>1. PICK j1 \in 1 .. k : /\ j1 = (IF j <= i THEN j - 1 ELSE j) /\ j1 # i
                               /\ r[j] = q[j1] /\ c[r[j]].age = b[q[j1]].age
      BY <1>6, <2>5
    <3>2. j1 < l1
      BY <1>1, <1>9, <2>2, <3>1
    <3>3. b[q[j1]].age > b[q[l1]].age
      BY <1>2, <3>2
    <3>4. QED
      BY <2>2, <3>1, <3>3
  <2>6. QED
    BY <2>4, <2>5
<1>10. Ordered(r, L, c)
  BY <1>7, <1>8, <1>9 DEF Ordered, k
<1>11. QED
  BY <1>3, <1>10 DEF r, k

(* The oldest block is the last.                                           *)
LEMMA OrderAfterEviction ==
    ASSUME NEW L, IsFiniteSet(L), NEW b, Aged(L, b), NEW q, Ordered(q, L, b),
           NEW x \in L, \A n \in L : b[x].age <= b[n].age,
           NEW c, \A n \in L : n # x => c[n].age = b[n].age
    PROVE  /\ Aged(L \ {x}, c) /\ Cardinality(L) \in Nat \ {0}
           /\ Cardinality(L \ {x}) = Cardinality(L) - 1
           /\ q[Cardinality(L)] = x
           /\ Ordered(Shortened(q, Cardinality(L)), L \ {x}, c)
<1> DEFINE k == Cardinality(L)
           r == Shortened(q, k)
           M == L \ {x}
<1>1. k \in Nat /\ k # 0 /\ Cardinality(M) = k - 1
  BY FS_CardinalityType, FS_RemoveElement, FS_EmptySet
<1>2. /\ q \in [1 .. k -> L]
      /\ \A n \in L : \E j \in 1 .. k : q[j] = n
      /\ \A j, l \in 1 .. k : j < l => b[q[j]].age > b[q[l]].age
      /\ \A n \in L : b[n].age \in Nat
      /\ \A m, n \in L : b[m].age = b[n].age => m = n
  BY DEF Ordered, Aged
<1> HIDE DEF k
<1>3. q[k] = x
  <2>1. PICK j \in 1 .. k : q[j] = x
    BY <1>2
  <2>2. k \in 1 .. k /\ q[k] \in L
    BY <1>1, <1>2
  <2>3. ~(j < k)
    BY <1>2, <2>1, <2>2
  <2>4. j = k
    BY <1>1, <2>3
  <2>5. QED
    BY <2>1, <2>4
<1>4. ASSUME NEW j \in 1 .. k - 1 PROVE j \in 1 .. k /\ q[j] \in M /\ r[j] = q[j]
  <2>1. j \in 1 .. k /\ k \in 1 .. k /\ j < k
    BY <1>1
  <2>2. q[j] \in L /\ b[q[j]].age > b[x].age /\ b[x].age \in Nat /\ b[q[j]].age \in Nat
    BY <1>2, <1>3, <2>1
  <2>3. QED
    BY <2>1, <2>2 DEF Shortened
<1>5. r \in [1 .. k - 1 -> M]
  BY <1>4 DEF Shortened
<1>6. ASSUME NEW n \in M PROVE \E j \in 1 .. k - 1 : r[j] = n
  <2>1. PICK j \in 1 .. k : q[j] = n
    BY <1>2
  <2>2. j \in 1 .. k - 1
    BY <1>1, <1>3, <2>1
  <2>3. QED
    BY <1>4, <2>1, <2>2
<1>7. ASSUME NEW j \in 1 .. k - 1, NEW l \in 1 .. k - 1, j < l
      PROVE  c[r[j]].age > c[r[l]].age
  <2>1. b[q[j]].age > b[q[l]].age
    BY <1>2, <1>4, <1>7
  <2>2. c[q[j]].age = b[q[j]].age /\ c[q[l]].age = b[q[l]].age
    BY <1>4
  <2>3. QED
    BY <1>4, <2>1, <2>2
<1> HIDE DEF r
<1>8. Ordered(r, M, c)
  BY <1>1, <1>5, <1>6, <1>7 DEF Ordered
<1>9. Aged(M, c)
  BY <1>2 DEF Aged
<1>10. QED
  BY <1>1, <1>3, <1>8, <1>9 DEF k, r

(* A new block that is the youngest is put in front.                       *)
LEMMA OrderAfterInsertion ==
    ASSUME NEW L, IsFiniteSet(L), NEW b, Aged(L, b), NEW q, Ordered(q, L, b),
           NEW x, x \notin L, NEW c, NEW t \in Nat, c[x].age = t,
           \A n \in L : b[n].age < t /\ c[n].age = b[n].age
    PROVE  /\ Aged(L \cup {x}, c)
           /\ Cardinality(L) \in Nat /\ Cardinality(L \cup {x}) = Cardinality(L) + 1
           /\ Ordered(Joined(q, Cardinality(L), x), L \cup {x}, c)
<1> DEFINE k == Cardinality(L)
           r == Joined(q, k, x)
           M == L \cup {x}
<1>1. k \in Nat /\ Cardinality(M) = k + 1
  BY FS_CardinalityType, FS_AddElement
<1>2. /\ q \in [1 .. k -> L]
      /\ \A n \in L : \E j \in 1 .. k : q[j] = n
      /\ \A j, l \in 1 .. k : j < l => b[q[j]].age > b[q[l]].age
      /\ \A n \in L : b[n].age \in Nat
      /\ \A m, n \in L : b[m].age = b[n].age => m = n
  BY DEF Ordered, Aged
<1> HIDE DEF k
<1>3. /\ r[1] = x
      /\ \A j \in 2 .. k + 1 : j - 1 \in 1 .. k /\ r[j] = q[j - 1] /\ r[j] \in L
      /\ r = [j \in 1 .. k + 1 |-> r[j]]
  BY <1>1, <1>2 DEF Joined
<1> HIDE DEF r
<1>4. r \in [1 .. k + 1 -> M]
  <2>1. ASSUME NEW j \in 1 .. k + 1 PROVE r[j] \in M
    <3>1. CASE j = 1
      BY <1>3, <3>1
    <3>2. CASE j # 1
      <4>1. j \in 2 .. k + 1
        BY <1>1, <3>2
      <4>2. r[j] \in L
        BY <1>3, <4>1
      <4>3. QED
        BY <4>2
    <3>3. QED
      BY <3>1, <3>2
  <2>2. QED
    BY <1>3, <2>1, Zenon
<1>5. ASSUME NEW n \in M PROVE \E j \in 1 .. k + 1 : r[j] = n
  <2>1. CASE n = x
    BY <1>1, <1>3, <2>1
  <2>2. CASE n \in L
    <3>1. PICK j \in 1 .. k : q[j] = n
      BY <1>2, <2>2
    <3>2. j + 1 \in 2 .. k + 1 /\ (j + 1) - 1 = j /\ j + 1 \in 1 .. k + 1
      BY <1>1
    <3>3. r[j + 1] = n
      BY <1>3, <3>1, <3>2
    <3>4. QED
      BY <3>2, <3>3
  <2>3. QED
    BY <2>1, <2>2
<1>6. ASSUME NEW j \in 1 .. k + 1, NEW l \in 1 .. k + 1, j < l
      PROVE  c[r[j]].age > c[r[l]].age
  <2>1. l \in 2 .. k + 1
    BY <1>1, <1>6
  <2>2. /\ l - 1 \in 1 .. k /\ r[l] = q[l - 1] /\ r[l] \in L
        /\ c[r[l]].age = b[r[l]].age /\ b[r[l]].age < t /\ b[r[l]].age \in Nat
    BY <1>2, <1>3, <2>1
  <2>3. CASE j = 1
    BY <1>3, <2>2, <2>3
  <2>4. CASE j # 1
    <3>1. j \in 2 .. k + 1
      BY <1>1, <2>4
    <3>2. /\ j - 1 \in 1 .. k /\ r[j] = q[j - 1] /\ r[j] \in L
          /\ c[r[j]].age = b[r[j]].age
      BY <1>3, <3>1
    <3>3. j - 1 < l - 1
      BY <1>6
    <3>4. b[q[j - 1]].age > b[q[l - 1]].age
      BY <1>2, <2>2, <3>2, <3>3
    <3>5. QED
      BY <2>2, <3>2, <3>4
  <2>5. QED
    BY <2>3, <2>4
<1>7. Ordered(r, M, c)
  BY <1>1, <1>4, <1>5, <1>6 DEF Ordered
<1>8. Aged(M, c)
  <2>1. ASSUME NEW n \in M PROVE c[n].age \in Nat
    BY <1>2
  <2>2. ASSUME NEW m \in M, NEW n \in M, c[m].age = c[n].age PROVE m = n
    <3>1. CASE m = x \/ n = x
      BY <1>2, <2>2, <3>1
    <3>2. CASE m \in L /\ n \in L
      BY <1>2, <2>2, <3>2
    <3>3. QED
      BY <3>1, <3>2
  <2>3. QED
    BY <2>1, <2>2 DEF Aged
<1>9. QED
  BY <1>1, <1>7, <1>8 DEF k, r

(* g sums up f over S: any element may be taken first.                     *)
Summed(g, f, S) ==
    f \in [S -> Nat] /\ g \in [SUBSET S -> Nat] /\ SumsUp(g, f, S)

AnyIsFirst(g, f, S) == \A T \in SUBSET S : \A x \in T : g[T] = f[x] + g[T \ {x}]

LEMMA AnyFirst ==
    ASSUME NEW S, IsFiniteSet(S), NEW f, NEW g, Summed(g, f, S)
    PROVE  AnyIsFirst(g, f, S)
<1>1. f \in [S -> Nat] /\ g \in [SUBSET S -> Nat] /\ SumsUp(g, f, S)
  BY DEF Summed
<1>2. ASSUME NEW T \in SUBSET S, NEW x \in T PROVE g[T] = f[x] + g[T \ {x}]
  BY <1>1, <1>2, SumWithout
<1>3. QED
  BY <1>2 DEF AnyIsFirst

(* g sums up f over S, and h sums up f over its elements as q lists them.  *)
AllInOrder(g, f, S, h, e, q, m) ==
    /\ f \in [S -> Nat] /\ g \in [SUBSET S -> Nat] /\ SumsUp(g, f, S)
    /\ m \in Nat /\ q \in [1 .. m -> S]
    /\ \A i, j \in 1 .. m : q[i] = q[j] => i = j
    /\ e \in [1 .. m -> Nat] /\ \A i \in 1 .. m : e[i] = f[q[i]]
    /\ h \in [SUBSET (1 .. m) -> Nat] /\ SumsUp(h, e, 1 .. m)

SameSum(g, h, q, m) == h[1 .. m] = g[{q[i] : i \in 1 .. m}]

(* Both sums are the same.                                                 *)
LEMMA SumInOrder ==
    ASSUME NEW S, IsFiniteSet(S), NEW f, NEW g, NEW m, NEW q, NEW e, NEW h,
           AllInOrder(g, f, S, h, e, q, m)
    PROVE  SameSum(g, h, q, m)
<1>0. /\ f \in [S -> Nat] /\ g \in [SUBSET S -> Nat] /\ SumsUp(g, f, S)
      /\ m \in Nat /\ q \in [1 .. m -> S]
      /\ \A i, j \in 1 .. m : q[i] = q[j] => i = j
      /\ e \in [1 .. m -> Nat] /\ \A i \in 1 .. m : e[i] = f[q[i]]
      /\ h \in [SUBSET (1 .. m) -> Nat] /\ SumsUp(h, e, 1 .. m)
  BY Zenon DEF AllInOrder
<1>a. \A T \in SUBSET S : \A x \in T : g[T] = f[x] + g[T \ {x}]
  <2>1. Summed(g, f, S)
    BY <1>0 DEF Summed
  <2>2. AnyIsFirst(g, f, S)
    BY <2>1, AnyFirst
  <2>3. QED
    BY <2>2 DEF AnyIsFirst
<1>b. \A T \in SUBSET (1 .. m) : \A x \in T : h[T] = e[x] + h[T \ {x}]
  <2>1. IsFiniteSet(1 .. m)
    BY <1>0, FS_Interval
  <2>2. Summed(h, e, 1 .. m)
    BY <1>0 DEF Summed
  <2>3. AnyIsFirst(h, e, 1 .. m)
    BY <2>1, <2>2, AnyFirst
  <2>4. QED
    BY <2>3 DEF AnyIsFirst
<1> DEFINE Q(k) == {q[i] : i \in 1 .. k}
           Bad == {k \in 0 .. m : h[1 .. k] # g[Q(k)]}
<1>1. Bad = {}
  <2> SUFFICES ASSUME Bad # {} PROVE FALSE
    OBVIOUS
  <2>1. PICK k \in Bad : \A l \in Bad : k <= l
    <3>1. Bad \in SUBSET Nat
      OBVIOUS
    <3> HIDE DEF Bad
    <3>2. QED
      BY <3>1, LeastExists
  <2>2. k \in 0 .. m /\ h[1 .. k] # g[Q(k)]
    OBVIOUS
  <2>3. CASE k = 0
    <3>1. 1 .. k = {}
      BY <2>3
    <3>2. Q(k) = {}
      BY <3>1
    <3>3. h[{}] = 0 /\ g[{}] = 0
      BY <1>0 DEF SumsUp
    <3> HIDE DEF Q
    <3>4. QED
      BY <2>2, <3>1, <3>2, <3>3
  <2>4. CASE k # 0
    <3>1. k - 1 \in 0 .. m /\ k \in 1 .. m /\ ~(k <= k - 1) /\ m \in Nat
      BY <1>0, <2>2, <2>4
    <3>2. h[1 .. k - 1] = g[Q(k - 1)]
      <4>1. k - 1 \notin Bad
        BY <2>1, <3>1
      <4>2. QED
        BY <3>1, <4>1
    <3>3. (1 .. k) \ {k} = 1 .. k - 1 /\ 1 .. k \in SUBSET (1 .. m) /\ k \in 1 .. k
      BY <3>1
    <3>4. Q(k) \ {q[k]} = Q(k - 1) /\ Q(k) \in SUBSET S /\ q[k] \in Q(k)
      <4>1. ASSUME NEW i \in 1 .. k PROVE q[i] \in S /\ (q[i] = q[k] => i = k)
        BY <1>0, <3>1
      <4>2. Q(k) \in SUBSET S /\ q[k] \in Q(k)
        BY <3>1, <4>1
      <4>3. ASSUME NEW x \in Q(k) \ {q[k]} PROVE x \in Q(k - 1)
        <5>1. PICK i \in 1 .. k : x = q[i]
          OBVIOUS
        <5>2. i \in 1 .. k - 1
          BY <3>1, <4>3, <5>1
        <5>3. QED
          BY <5>1, <5>2
      <4>4. ASSUME NEW x \in Q(k - 1) PROVE x \in Q(k) \ {q[k]}
        <5>1. PICK i \in 1 .. k - 1 : x = q[i]
          OBVIOUS
        <5>2. i \in 1 .. k /\ i # k
          BY <3>1, <5>1
        <5>3. QED
          BY <4>1, <5>1, <5>2
      <4> HIDE DEF Q
      <4>5. QED
        BY <4>2, <4>3, <4>4
    <3> HIDE DEF Q, Bad
    <3>5. g[Q(k)] = f[q[k]] + g[Q(k) \ {q[k]}]
      <4> DEFINE T == Q(k)
                 x == q[k]
      <4>1. T \in SUBSET S /\ x \in T
        BY <3>4
      <4> HIDE DEF T, x
      <4>2. g[T] = f[x] + g[T \ {x}]
        BY <1>a, <4>1
      <4>3. QED
        BY <4>2, Zenon DEF T, x
    <3>6. h[1 .. k] = e[k] + h[(1 .. k) \ {k}]
      <4> DEFINE T == 1 .. k
                 R == 1 .. m
      <4>2. /\ T \in SUBSET R /\ k \in T
            /\ e \in [R -> Nat] /\ h \in [SUBSET R -> Nat] /\ SumsUp(h, e, R)
        BY <1>0, <3>3
      <4> HIDE DEF T, R
      <4>3. h[T] = e[k] + h[T \ {k}]
        BY <1>b, <4>2 DEF R
      <4>4. QED
        BY <4>3, Zenon DEF T
    <3>7. e[k] = f[q[k]]
      BY <1>0, <3>1
    <3>8. QED
      BY <2>2, <3>2, <3>3, <3>4, <3>5, <3>6, <3>7
  <2>5. QED
    BY <2>3, <2>4
<1>2. m \in 0 .. m
  BY <1>0
<1>3. QED
  BY <1>1, <1>2 DEF SameSum

(* What the entries of an LRU cache take up.                               *)
UsedBy(s) == FoldSeq(LAMBDA e, sum : e.size + sum, 0, s)

(* It is the sum of the sizes.                                             *)
LEMMA UsedIsSum ==
    ASSUME NEW m \in Nat, NEW s, DOMAIN s = 1 .. m, \A i \in 1 .. m : s[i].size \in Nat
    PROVE  \E h \in [SUBSET (1 .. m) -> Nat] :
              SumsUp(h, [i \in 1 .. m |-> s[i].size], 1 .. m) /\ UsedBy(s) = h[1 .. m]
<1> DEFINE T == 1 .. m
           e == [i \in T |-> s[i].size]
           Body(h) == [U \in SUBSET T |->
                          IF U = {} THEN 0
                          ELSE s[CHOOSE x \in U : TRUE].size
                                 + h[U \ {CHOOSE x \in U : TRUE}]]
           iter == CHOOSE h : h = Body(h)
<1>1. UsedBy(s) = iter[T]
  BY DEF UsedBy, FoldSeq, FoldFunction, FoldFunctionOnSet, MapThenFoldSet
<1>2. IsFiniteSet(T) /\ e \in [T -> Nat]
  BY FS_Interval
<1>3. PICK h \in [SUBSET T -> Nat] : SumsUp(h, e, T)
  <2> HIDE DEF e, T
  <2>1. QED
    BY <1>2, SumExists
<1> HIDE DEF T
<1>4. ASSUME NEW k
      PROVE  Body(k) = [U \in SUBSET T |->
                          IF U = {} THEN 0
                          ELSE e[CHOOSE x \in U : TRUE]
                                 + k[U \ {CHOOSE x \in U : TRUE}]]
  <2>1. \A U \in SUBSET T : U # {} =>
           e[CHOOSE x \in U : TRUE] = s[CHOOSE x \in U : TRUE].size
    <3>1. \A U \in SUBSET T : U # {} => (CHOOSE x \in U : TRUE) \in T
      OBVIOUS
    <3>2. QED
      BY <3>1
  <2> HIDE DEF e
  <2>2. QED
    BY <2>1
<1>5. h = Body(h)
  BY <1>3, <1>4 DEF SumsUp
<1>6. iter = Body(iter)
  <2> HIDE DEF Body
  <2>1. QED
    BY <1>5
<1>7. SumsUp(iter, e, T)
  <2> HIDE DEF iter, Body
  <2>1. QED
    BY <1>4, <1>6 DEF SumsUp
<1> HIDE DEF iter, e
<1>8. iter[T] = h[T]
  <2>1. T \subseteq T /\ T \in SUBSET T /\ \A x \in T : e[x] = e[x]
    OBVIOUS
  <2>2. \A V \in SUBSET T : iter[V] = h[V]
    BY ONLY <1>2, <1>3, <1>7, <2>1, SumIsUnique
  <2>3. QED
    BY <2>1, <2>2
<1>9. SumsUp(h, e, T) /\ UsedBy(s) = h[T]
  BY <1>1, <1>3, <1>8
<1>10. QED
  BY <1>3, <1>9 DEF T, e

(* What the sequences hold that the actions of LRUCache build: one element *)
(* moved to the front, one put in front, the last one taken away.          *)
LEMMA MovedToFront ==
    ASSUME NEW C, NEW s \in Seq(C), NEW i \in 1 .. Len(s)
    PROVE  <<s[i]>> \o RemoveAt(s, i)
             = [j \in 1 .. Len(s) |-> IF j = 1 THEN s[i] ELSE IF j <= i THEN s[j - 1] ELSE s[j]]
<1> DEFINE k == Len(s)
           u == SubSeq(s, 1, i - 1)
           v == SubSeq(s, i + 1, k)
           w == <<s[i]>>
           r == [j \in 1 .. k |-> IF j = 1 THEN s[i] ELSE IF j <= i THEN s[j - 1] ELSE s[j]]
<1>1. k \in Nat /\ i \in 1 .. k /\ \A j \in 1 .. k : s[j] \in C
  OBVIOUS
<1>2. RemoveAt(s, i) = u \o v
  BY Zenon DEF RemoveAt
<1> HIDE DEF k
<1>3. /\ u \in Seq(C) /\ Len(u) = i - 1
      /\ \A j \in 1 .. i - 1 : u[j] = s[j]
  <2>1. 1 \in Int /\ i - 1 \in Int /\ \A j \in 1 .. i - 1 : s[j] \in C
    BY <1>1
  <2>2. /\ u \in Seq(C) /\ Len(u) = (IF 1 <= i - 1 THEN (i - 1) - 1 + 1 ELSE 0)
        /\ \A j \in 1 .. (i - 1) - 1 + 1 : u[j] = s[1 + j - 1]
    <3> HIDE DEF u
    <3>1. QED
      BY <2>1, SubSeqProperties DEF u
  <2> HIDE DEF u
  <2>3. QED
    BY <1>1, <2>2
<1>4. /\ v \in Seq(C) /\ Len(v) = k - i
      /\ \A j \in 1 .. k - i : v[j] = s[i + j]
  <2>1. i + 1 \in Int /\ k \in Int /\ \A j \in i + 1 .. k : s[j] \in C
    BY <1>1
  <2>2. /\ v \in Seq(C) /\ Len(v) = (IF i + 1 <= k THEN k - (i + 1) + 1 ELSE 0)
        /\ \A j \in 1 .. k - (i + 1) + 1 : v[j] = s[(i + 1) + j - 1]
    <3> HIDE DEF v
    <3>1. QED
      BY <2>1, SubSeqProperties DEF v
  <2> HIDE DEF v
  <2>3. QED
    BY <1>1, <2>2
<1> HIDE DEF u, v
<1> DEFINE uv == u \o v
<1>5. /\ uv \in Seq(C) /\ Len(uv) = k - 1
      /\ \A j \in 1 .. k - 1 : uv[j] = IF j <= i - 1 THEN u[j] ELSE v[j - (i - 1)]
  <2>1. /\ uv \in Seq(C) /\ Len(uv) = Len(u) + Len(v)
        /\ \A j \in 1 .. Len(u) + Len(v) : uv[j] = IF j <= Len(u) THEN u[j] ELSE v[j - Len(u)]
    BY <1>3, <1>4, ConcatProperties
  <2> HIDE DEF uv
  <2>2. QED
    BY <1>1, <1>3, <1>4, <2>1
<1> HIDE DEF uv
<1>6. w \in Seq(C) /\ Len(w) = 1 /\ w[1] = s[i]
  BY <1>1
<1> HIDE DEF w
<1> DEFINE z == w \o uv
<1>7. /\ z \in Seq(C) /\ Len(z) = k
      /\ \A j \in 1 .. k : z[j] = IF j <= 1 THEN w[j] ELSE uv[j - 1]
  <2>1. /\ z \in Seq(C) /\ Len(z) = Len(w) + Len(uv)
        /\ \A j \in 1 .. Len(w) + Len(uv) : z[j] = IF j <= Len(w) THEN w[j] ELSE uv[j - Len(w)]
    BY <1>5, <1>6, ConcatProperties
  <2> HIDE DEF z
  <2>2. QED
    BY <1>1, <1>5, <1>6, <2>1
<1> HIDE DEF z
<1>8. r \in Seq(C) /\ Len(r) = k
  BY <1>1
<1>9. ASSUME NEW j \in 1 .. k PROVE z[j] = r[j]
  <2>1. r[j] = IF j = 1 THEN s[i] ELSE IF j <= i THEN s[j - 1] ELSE s[j]
    OBVIOUS
  <2> HIDE DEF r
  <2>2. CASE j = 1
    BY <1>6, <1>7, <2>1, <2>2
  <2>3. CASE j # 1
    <3>1. j - 1 \in 1 .. k - 1 /\ z[j] = uv[j - 1]
      BY <1>1, <1>7, <2>3
    <3>2. CASE j <= i
      <4>1. uv[j - 1] = u[j - 1] /\ j - 1 \in 1 .. i - 1
        BY <1>1, <1>5, <3>1, <3>2
      <4>2. QED
        BY <1>3, <2>1, <2>3, <3>1, <3>2, <4>1
    <3>3. CASE ~(j <= i)
      <4>1. uv[j - 1] = v[(j - 1) - (i - 1)] /\ (j - 1) - (i - 1) = j - i /\ j - i \in 1 .. k - i
        BY <1>1, <1>5, <3>1, <3>3
      <4>2. v[j - i] = s[i + (j - i)] /\ i + (j - i) = j
        BY <1>1, <1>4, <4>1
      <4>3. QED
        BY <2>1, <2>3, <3>1, <3>3, <4>1, <4>2
    <3>4. QED
      BY <3>2, <3>3
  <2>4. QED
    BY <2>2, <2>3
<1> HIDE DEF r
<1>10. z = r
  BY <1>7, <1>8, <1>9, SeqEqual
<1>11. QED
  BY <1>2, <1>10, Zenon DEF z, uv, w, r, k

LEMMA PutInFront ==
    ASSUME NEW C, NEW s \in Seq(C), NEW e \in C
    PROVE  <<e>> \o s = [j \in 1 .. Len(s) + 1 |-> IF j = 1 THEN e ELSE s[j - 1]]
<1> DEFINE w == <<e>>
           z == w \o s
           k == Len(s)
           r == [j \in 1 .. k + 1 |-> IF j = 1 THEN e ELSE s[j - 1]]
<1>1. k \in Nat /\ \A j \in 1 .. k : s[j] \in C
  OBVIOUS
<1>2. w \in Seq(C) /\ Len(w) = 1 /\ w[1] = e
  OBVIOUS
<1> HIDE DEF w
<1>3. /\ z \in Seq(C) /\ Len(z) = 1 + Len(s)
      /\ \A j \in 1 .. 1 + Len(s) : z[j] = IF j <= 1 THEN w[j] ELSE s[j - 1]
  <2>1. /\ z \in Seq(C) /\ Len(z) = Len(w) + Len(s)
        /\ \A j \in 1 .. Len(w) + Len(s) : z[j] = IF j <= Len(w) THEN w[j] ELSE s[j - Len(w)]
    BY <1>2, ConcatProperties
  <2> HIDE DEF z
  <2>2. QED
    BY <1>2, <2>1
<1> HIDE DEF z
<1>4. /\ \A j \in 1 .. k + 1 : r[j] = (IF j = 1 THEN e ELSE s[j - 1]) /\ r[j] \in C
      /\ r = [j \in 1 .. k + 1 |-> r[j]]
  <2> HIDE DEF k
  <2>1. \A j \in 1 .. k + 1 : r[j] = (IF j = 1 THEN e ELSE s[j - 1])
    OBVIOUS
  <2>2. r = [j \in 1 .. k + 1 |-> r[j]]
    OBVIOUS
  <2> HIDE DEF r
  <2>3. \A j \in 1 .. k + 1 : j # 1 => j - 1 \in 1 .. k
    BY <1>1
  <2>4. QED
    BY <1>1, <2>1, <2>2, <2>3
<1> HIDE DEF r
<1>5. r \in Seq(C) /\ Len(r) = k + 1
  <2> HIDE DEF k
  <2>1. r \in [1 .. k + 1 -> C]
    BY <1>4, Zenon
  <2>2. k + 1 \in Nat
    BY <1>1
  <2>3. QED
    BY <2>1, <2>2
<1>6. Len(z) = Len(r) /\ \A j \in 1 .. Len(z) : z[j] = r[j]
  <2> HIDE DEF k
  <2>1. Len(s) = k
    BY DEF k
  <2>2. Len(z) = k + 1 /\ Len(r) = k + 1
    BY <1>1, <1>3, <1>5, <2>1
  <2>3. ASSUME NEW j \in 1 .. k + 1 PROVE z[j] = r[j]
    <3>1. z[j] = IF j <= 1 THEN w[j] ELSE s[j - 1]
      BY <1>1, <1>3, <2>1
    <3>2. r[j] = IF j = 1 THEN e ELSE s[j - 1]
      BY <1>4
    <3>3. j <= 1 <=> j = 1
      BY <1>1
    <3>4. QED
      BY <1>2, <3>1, <3>2, <3>3
  <2>4. QED
    BY <2>2, <2>3
<1>7. z = r
  BY <1>3, <1>5, <1>6, SeqEqual
<1>8. QED
  BY <1>7, Zenon DEF z, w, r, k

LEMMA LastTaken ==
    ASSUME NEW C, NEW s \in Seq(C), s # <<>>
    PROVE  Front(s) = [j \in 1 .. Len(s) - 1 |-> s[j]]
<1> DEFINE k == Len(s)
           u == SubSeq(s, 1, k - 1)
           r == [j \in 1 .. k - 1 |-> s[j]]
<1>1. k \in Nat /\ k # 0 /\ \A j \in 1 .. k : s[j] \in C
  OBVIOUS
<1> HIDE DEF k
<1>2. 1 \in Int /\ k - 1 \in Int /\ \A j \in 1 .. k - 1 : s[j] \in C
  BY <1>1
<1>3. /\ u \in Seq(C) /\ Len(u) = (IF 1 <= k - 1 THEN (k - 1) - 1 + 1 ELSE 0)
      /\ \A j \in 1 .. (k - 1) - 1 + 1 : u[j] = s[1 + j - 1]
  <2> HIDE DEF u
  <2>1. QED
    BY <1>2, SubSeqProperties DEF u
<1> HIDE DEF u
<1>4. Len(u) = k - 1 /\ \A j \in 1 .. k - 1 : u[j] = s[j]
  BY <1>1, <1>3
<1>5. r \in Seq(C) /\ Len(r) = k - 1 /\ \A j \in 1 .. k - 1 : r[j] = s[j]
  BY <1>1
<1> HIDE DEF r
<1>6. u = r
  BY <1>3, <1>4, <1>5, SeqEqual
<1>7. QED
  BY <1>6, Zenon DEF Front, u, r, k

(* Blocks have the ages of their last uses, which differ; the clock has    *)
(* gone on for the one being added.                                        *)
AgesInv ==
    /\ Aged(List, block)
    /\ \A n \in List : block[n].age <= time_count
    /\ adding # Nothing => \A n \in List : block[n].age < time_count

CacheEntry == [uri : Uri \cup {NoUri}, size : Nat]

(* The entries are those of the listed blocks in order of age.             *)
LEMMA EntriesListed ==
    ASSUME UseInv, AgesInv
    PROVE  /\ IsFiniteSet(List) /\ Cardinality(List) \in Nat /\ List \in SUBSET Node
           /\ \E q : /\ Ordered(q, List, block)
                     /\ Entries = [i \in 1 .. Cardinality(List) |-> Entry(block, q[i])]
           /\ Entries \in Seq(CacheEntry) /\ Len(Entries) = Cardinality(List)
<1>1. CacheTypeOK /\ List \in SUBSET Node
  BY ListIsAllocated DEF UseInv, CacheInv, ListIsWhole
<1>2. IsFiniteSet(List) /\ Cardinality(List) \in Nat
  BY <1>1, NodeAssumption, FS_Subset, FS_CardinalityType
<1>3. PICK q : Ordered(q, List, block)
  BY <1>2, OrderExists DEF AgesInv
<1>4. Entries = [i \in 1 .. Cardinality(List) |-> Entry(block, q[i])]
  <2>1. EntriesOf(List, block) = [i \in 1 .. Cardinality(List) |-> Entry(block, q[i])]
    BY <1>2, <1>3, EntriesInOrder DEF AgesInv
  <2>2. QED
    BY <2>1, EntriesIs
<1>5. ASSUME NEW i \in 1 .. Cardinality(List) PROVE Entry(block, q[i]) \in CacheEntry
  <2>1. q[i] \in Node
    BY <1>1, <1>3 DEF Ordered
  <2>2. QED
    BY <1>1, <2>1 DEF Entry, CacheEntry, CacheTypeOK, Block
<1>6. Entries \in [1 .. Cardinality(List) -> CacheEntry]
  BY <1>4, <1>5
<1>7. Entries \in Seq(CacheEntry) /\ Len(Entries) = Cardinality(List)
  BY <1>2, <1>6
<1>8. QED
  BY <1>1, <1>2, <1>3, <1>4, <1>7

(* The entries take up the bytes that are not left.                        *)
LEMMA UsedIsTaken ==
    ASSUME UseInv, AgesInv
    PROVE  UsedBy(Entries) = MAX_CACHE_SIZE - slots /\ slots \in Int
<1> DEFINE k == Cardinality(List)
<1>1. CacheTypeOK /\ ListIsWhole
  BY ListIsAllocated DEF UseInv, CacheInv
<1>2. PICK g \in [SUBSET Node -> Nat] : SumsUp(g, Sizes, Node) /\ slots + g[List] = MAX_CACHE_SIZE
  BY <1>1, BytesAreSum DEF UseInv, CacheInv, BytesAgree, BytesAsSum
<1>3. PICK q : Ordered(q, List, block) /\ Entries = [i \in 1 .. k |-> Entry(block, q[i])]
  BY EntriesListed
<1>4. k \in Nat /\ List \in SUBSET Node
  BY EntriesListed
<1>5. q \in [1 .. k -> List] /\ List = {q[i] : i \in 1 .. k}
  BY <1>3 DEF Ordered
<1>6. \A i, j \in 1 .. k : q[i] = q[j] => i = j
  <2>1. ASSUME NEW i \in 1 .. k, NEW j \in 1 .. k, i < j PROVE q[i] # q[j]
    <3>1. block[q[i]].age > block[q[j]].age
      BY <1>3, <2>1 DEF Ordered
    <3>2. block[q[i]].age \in Nat
      BY <1>5 DEF AgesInv, Aged
    <3>3. QED
      BY <3>1, <3>2
  <2>2. QED
    BY <2>1
<1> HIDE DEF k
<1>7. Sizes \in [Node -> Nat]
  BY <1>1 DEF Sizes, CacheTypeOK, Block
<1>8. ASSUME NEW i \in 1 .. k PROVE Entries[i].size = Sizes[q[i]] /\ q[i] \in Node
  BY <1>3, <1>4, <1>5 DEF Entry, Sizes
<1>9. DOMAIN Entries = 1 .. k /\ \A i \in 1 .. k : Entries[i].size \in Nat
  BY <1>3, <1>7, <1>8
<1> DEFINE e == [i \in 1 .. k |-> Entries[i].size]
<1>10. PICK h \in [SUBSET (1 .. k) -> Nat] :
           SumsUp(h, e, 1 .. k) /\ UsedBy(Entries) = h[1 .. k]
  <2> DEFINE s == Entries
  <2>1. DOMAIN s = 1 .. k /\ \A i \in 1 .. k : s[i].size \in Nat
    BY <1>9
  <2> HIDE DEF s
  <2>2. \E h \in [SUBSET (1 .. k) -> Nat] :
            SumsUp(h, [i \in 1 .. k |-> s[i].size], 1 .. k) /\ UsedBy(s) = h[1 .. k]
    BY <1>4, <2>1, UsedIsSum
  <2>3. QED
    BY <2>2 DEF s
<1>11. e \in [1 .. k -> Nat] /\ \A i \in 1 .. k : e[i] = Sizes[q[i]]
  BY <1>8, <1>9
<1>12. q \in [1 .. k -> Node]
  BY <1>4, <1>5
<1> HIDE DEF e
<1>13. h[1 .. k] = g[{q[i] : i \in 1 .. k}]
  <2> DEFINE f == Sizes
  <2>1. f \in [Node -> Nat] /\ SumsUp(g, f, Node) /\ \A i \in 1 .. k : e[i] = f[q[i]]
    BY <1>2, <1>7, <1>11
  <2> HIDE DEF f
  <2>2. AllInOrder(g, f, Node, h, e, q, k)
    BY <1>2, <1>4, <1>6, <1>10, <1>11, <1>12, <2>1, NodeAssumption DEF AllInOrder
  <2>3. SameSum(g, h, q, k)
    BY <2>2, NodeAssumption, SumInOrder
  <2>4. QED
    BY <2>3, Zenon DEF SameSum
<1>14. g[List] \in Nat /\ MAX_CACHE_SIZE \in Nat /\ slots \in Int
  BY <1>1, <1>2, <1>4, SizeAssumption DEF CacheTypeOK
<1>15. UsedBy(Entries) = g[List]
  BY <1>5, <1>10, <1>13, Zenon
<1>16. QED
  BY <1>2, <1>14, <1>15

(* A hit is a use of the entry with the URI, whatever place it has.        *)
LEMMA HitMaps ==
    ASSUME UseInv, AgesInv, NEW uri \in Uri, Hit(uri)
    PROVE  AgesInv' /\ \E i \in 1 .. Len(Entries) : LRU!Use(i)
<1> DEFINE k == Cardinality(List)
           n == search_cache(uri)
           t == time_count + 1
<1>1. /\ adding = Nothing /\ n # NULL /\ time_count' = t /\ read_response(n, time_count')
      /\ last' = uri /\ adding' = adding
  BY DEF Hit
<1>2. n \in List /\ block[n].uri = uri
  BY <1>1, HitMeansPresent DEF UseInv
<1>3. /\ IsFiniteSet(List) /\ k \in Nat /\ List \in SUBSET Node
      /\ Entries \in Seq(CacheEntry) /\ Len(Entries) = k
      /\ block \in [Node -> Block] /\ time_count \in Nat
  BY EntriesListed DEF UseInv, CacheInv, CacheTypeOK
<1>4. PICK q : Ordered(q, List, block) /\ Entries = [i \in 1 .. k |-> Entry(block, q[i])]
  BY EntriesListed
<1>5. PICK i \in 1 .. k : q[i] = n
  BY <1>2, <1>4 DEF Ordered
<1> HIDE DEF n, k
<1>6. /\ block' = [block EXCEPT ![n].age = t] /\ List' = List
  <2>1. n \in Node /\ t \in Nat /\ read_response(n, t)
    BY <1>1, <1>2, <1>3
  <2>2. List' = List
    BY <2>1, ReadKeeps DEF UseInv
  <2>3. QED
    BY <2>1, <2>2 DEF read_response
<1>7. /\ block'[n].age = t
      /\ \A m \in List : m # n => block'[m].age = block[m].age
      /\ \A m \in List : Entry(block', m) = Entry(block, m)
  <2>1. ASSUME NEW m \in List
        PROVE  /\ block'[m].uri = block[m].uri /\ block'[m].size = block[m].size
               /\ block'[m].age = IF m = n THEN t ELSE block[m].age
    BY <1>3, <1>6 DEF Block
  <2>2. QED
    BY <1>2, <2>1 DEF Entry
<1>8. \A m \in List : block[m].age < t /\ block[m].age \in Nat
  BY <1>3 DEF AgesInv, Aged
<1>9. t \in Nat
  BY <1>3
<1> HIDE DEF t
<1> DEFINE r == Renewed(q, k, i)
<1>10. Aged(List, block') /\ Ordered(r, List, block')
  <2>1. Aged(List, block)
    BY DEF AgesInv
  <2> DEFINE L == List
             b == block
             c == block'
  <2>2. /\ IsFiniteSet(L) /\ Aged(L, b) /\ Ordered(q, L, b) /\ i \in 1 .. Cardinality(L)
        /\ t \in Nat /\ c[q[i]].age = t /\ \A m \in L : b[m].age < t
        /\ \A m \in L : m # q[i] => c[m].age = b[m].age
    BY <1>3, <1>4, <1>5, <1>7, <1>8, <1>9, <2>1 DEF k
  <2> HIDE DEF L, b, c
  <2>3. Aged(L, c) /\ Ordered(Renewed(q, Cardinality(L), i), L, c)
    BY <2>2, OrderAfterHit
  <2>4. QED
    BY <2>3 DEF L, c, k
<1>11. AgesInv'
  <2>1. \A m \in List : block'[m].age <= t
    BY <1>7, <1>8, <1>9
  <2>2. QED
    BY <1>1, <1>6, <1>10, <2>1 DEF AgesInv, t
<1>12. Entries' = [j \in 1 .. k |-> Entry(block', r[j])]
  <2>1. Entries' = EntriesOf(List, block')
    BY <1>6, EntriesIs
  <2>2. EntriesOf(List, block') = [j \in 1 .. k |-> Entry(block', r[j])]
    <3> DEFINE L == List
               c == block'
    <3>1. IsFiniteSet(L) /\ Aged(L, c) /\ Ordered(r, L, c)
      BY <1>3, <1>10
    <3> HIDE DEF L, c, r
    <3>2. EntriesOf(L, c) = [j \in 1 .. Cardinality(L) |-> Entry(c, r[j])]
      BY <3>1, EntriesInOrder
    <3>3. QED
      BY <3>2 DEF L, c, k
  <2>3. QED
    BY <2>1, <2>2
<1>13. <<Entries[i]>> \o RemoveAt(Entries, i)
         = [j \in 1 .. k |-> IF j = 1 THEN Entries[i]
                             ELSE IF j <= i THEN Entries[j - 1] ELSE Entries[j]]
  <2> DEFINE s == Entries
  <2>1. s \in Seq(CacheEntry) /\ Len(s) = k /\ i \in 1 .. Len(s)
    BY <1>3
  <2> HIDE DEF s
  <2>2. <<s[i]>> \o RemoveAt(s, i)
         = [j \in 1 .. Len(s) |-> IF j = 1 THEN s[i] ELSE IF j <= i THEN s[j - 1] ELSE s[j]]
    BY <2>1, MovedToFront
  <2>3. QED
    BY <2>1, <2>2, Zenon DEF s
<1>14. ASSUME NEW j \in 1 .. k
       PROVE  Entry(block', r[j]) = IF j = 1 THEN Entries[i]
                                    ELSE IF j <= i THEN Entries[j - 1] ELSE Entries[j]
  <2>1. r[j] = IF j = 1 THEN q[i] ELSE IF j <= i THEN q[j - 1] ELSE q[j]
    BY Zenon DEF Renewed
  <2>2. \A l \in 1 .. k : q[l] \in List /\ Entries[l] = Entry(block, q[l])
    BY <1>4 DEF Ordered, k
  <2> HIDE DEF r
  <2>3. \A l \in 1 .. k : Entry(block', q[l]) = Entries[l]
    BY <1>7, <2>2
  <2>4. j # 1 => j - 1 \in 1 .. k
    BY <1>3
  <2>5. CASE j = 1
    BY <2>1, <2>3, <2>5
  <2>6. CASE j # 1 /\ j <= i
    BY <2>1, <2>3, <2>4, <2>6
  <2>7. CASE j # 1 /\ ~(j <= i)
    BY <2>1, <2>3, <2>7
  <2>8. QED
    BY <2>5, <2>6, <2>7
<1>15. Entries' = <<Entries[i]>> \o RemoveAt(Entries, i)
  BY <1>12, <1>13, <1>14, Zenon
<1>16. Entries[i].uri = uri
  BY <1>2, <1>4, <1>5 DEF Entry
<1>17. LRU!Use(i)
  BY <1>1, <1>15, <1>16, Zenon DEF LRU!Use, LRU!RemoveAt, RemoveAt
<1>18. QED
  BY <1>3, <1>11, <1>17

(* A miss begins to add an entry, of which there is none yet.              *)
LEMMA MissMaps ==
    ASSUME UseInv, AgesInv, NEW uri \in Uri, NEW size \in Size, Miss(uri, size)
    PROVE  AgesInv' /\ LRU!BeginAdd(uri, size)
<1>1. /\ adding = Nothing /\ search_cache(uri) = NULL /\ time_count' = time_count + 1
      /\ adding' = [uri |-> uri, size |-> size] /\ last' = uri
      /\ UNCHANGED cacheVars /\ time_count \in Nat
  BY DEF Miss, UseInv
<1>2. List' = List /\ block' = block
  BY <1>1, CacheInvStays DEF UseInv
<1>3. Entries' = Entries
  BY <1>2, EntriesIs
<1>4. \A m \in List : block[m].age < time_count + 1
  BY <1>1 DEF AgesInv, Aged
<1>5. AgesInv'
  <2>1. \A m \in List : block[m].age <= time_count + 1
    BY <1>1 DEF AgesInv, Aged
  <2>2. QED
    BY <1>1, <1>2, <1>4, <2>1 DEF AgesInv
<1>6. ASSUME NEW i \in 1 .. Len(Entries) PROVE Entries[i].uri # uri
  <2>1. PICK q : /\ Ordered(q, List, block) /\ Len(Entries) = Cardinality(List)
                 /\ Entries = [j \in 1 .. Cardinality(List) |-> Entry(block, q[j])]
    BY EntriesListed
  <2>2. q[i] \in List /\ Entries[i].uri = block[q[i]].uri
    BY <2>1 DEF Ordered, Entry
  <2>3. \A m \in List : block[m].uri # uri
    BY <1>1, MissMeansAbsent DEF UseInv
  <2>4. QED
    BY <2>2, <2>3
<1>7. QED
  BY <1>1, <1>3, <1>5, <1>6 DEF LRU!BeginAdd

(* The abstract cache has the same sum.                                    *)
LEMMA UsedIs == LRU!Used = UsedBy(Entries)
BY DEF LRU!Used, LRU!FoldSeq, LRU!FoldFunction, LRU!FoldFunctionOnSet, LRU!MapThenFoldSet,
       UsedBy, FoldSeq, FoldFunction, FoldFunctionOnSet, MapThenFoldSet

(* The insertion finishes it, for there is room.                           *)
LEMMA InsertMaps ==
    ASSUME UseInv, UseInv', AgesInv, Insert
    PROVE  AgesInv' /\ LRU!FinishAdd
<1> DEFINE k == Cardinality(List)
           t == time_count
           e == adding
<1>1. PICK n \in Node : insert_block(n, adding.uri, adding.size, time_count)
  BY DEF Insert
<1>2. /\ adding # Nothing /\ ~ MustEvict(adding.size) /\ adding' = Nothing
      /\ UNCHANGED <<time_count, last>>
  BY DEF Insert
<1>3. /\ IsFiniteSet(List) /\ k \in Nat /\ List \in SUBSET Node
      /\ Entries \in Seq(CacheEntry) /\ Len(Entries) = k
      /\ block \in [Node -> Block] /\ t \in Nat
      /\ List = Allocated /\ List' = Allocated'
  BY EntriesListed, ListIsAllocated DEF UseInv, CacheInv, CacheTypeOK, ListIsWhole
<1>4. /\ e.uri \in Uri /\ e.size \in Nat /\ e = [uri |-> e.uri, size |-> e.size]
      /\ e \in CacheEntry
  <2>1. PICK uri \in Uri, size \in Size : adding = [uri |-> uri, size |-> size]
    BY <1>2 DEF UseInv
  <2>2. size \in Nat
    BY ObjectAssumption, SizeAssumption
  <2>3. QED
    BY <2>1, <2>2 DEF CacheEntry
<1>5. n \notin List
  BY <1>1, <1>3 DEF insert_block
<1>6. /\ block'[n].age = t /\ Entry(block', n) = e /\ block'[n].uri \in Uri
      /\ \A m \in Node : m # n => /\ block'[m].age = block[m].age
                                  /\ block'[m].uri = block[m].uri
                                  /\ Entry(block', m) = Entry(block, m)
  <2>1. block' = [m \in Node |->
           IF m = n THEN [prev |-> NULL, next |-> head, uri |-> e.uri,
                          age |-> t, size |-> e.size]
           ELSE [block[m] EXCEPT !.prev = IF m = head THEN n ELSE @]]
    BY <1>1 DEF insert_block
  <2>2. block'[n] = [prev |-> NULL, next |-> head, uri |-> e.uri, age |-> t, size |-> e.size]
    BY <2>1
  <2>3. ASSUME NEW m \in Node, m # n
        PROVE  /\ block'[m].age = block[m].age /\ block'[m].uri = block[m].uri
               /\ block'[m].size = block[m].size
    <3>1. block'[m] = [block[m] EXCEPT !.prev = IF m = head THEN n ELSE @]
      BY <2>1, <2>3
    <3>2. block[m] \in Block
      BY <1>3
    <3>3. QED
      BY <3>1, <3>2 DEF Block
  <2> HIDE DEF e, t
  <2>4. block'[n].age = t /\ block'[n].uri = e.uri /\ block'[n].size = e.size
    BY <2>2
  <2>5. QED
    BY <1>4, <2>3, <2>4 DEF Entry
<1>7. List' = List \cup {n}
  <2>1. \A m \in Node : m \in Allocated' <=> m = n \/ m \in Allocated
    BY <1>6, UriAssumption DEF Allocated
  <2>2. Allocated \in SUBSET Node /\ Allocated' \in SUBSET Node
    BY DEF Allocated
  <2>3. QED
    BY <1>3, <2>1, <2>2
<1>8. PICK q : Ordered(q, List, block) /\ Entries = [i \in 1 .. k |-> Entry(block, q[i])]
  BY EntriesListed
<1>9. \A m \in List : block[m].age < t /\ block[m].age \in Nat
  BY <1>2 DEF AgesInv, Aged
<1> HIDE DEF k, t, e
<1> DEFINE r == Joined(q, k, n)
<1>10. /\ Aged(List', block') /\ Ordered(r, List', block')
       /\ Cardinality(List') = k + 1
  <2>1. Aged(List, block)
    BY DEF AgesInv
  <2> DEFINE L == List
             b == block
             c == block'
  <2>2. /\ IsFiniteSet(L) /\ Aged(L, b) /\ Ordered(q, L, b) /\ n \notin L
        /\ t \in Nat /\ c[n].age = t
        /\ \A m \in L : b[m].age < t /\ c[m].age = b[m].age
    BY <1>3, <1>5, <1>6, <1>8, <1>9, <2>1
  <2> HIDE DEF L, b, c
  <2>3. /\ Aged(L \cup {n}, c) /\ Cardinality(L \cup {n}) = Cardinality(L) + 1
        /\ Ordered(Joined(q, Cardinality(L), n), L \cup {n}, c)
    BY <2>2, OrderAfterInsertion
  <2>4. QED
    BY <1>7, <2>3 DEF L, c, k
<1>11. AgesInv'
  <2>1. \A m \in List' : block'[m].age <= time_count'
    BY <1>2, <1>3, <1>6, <1>7, <1>9 DEF t
  <2>2. QED
    BY <1>2, <1>10, <2>1 DEF AgesInv
<1>12. Entries' = [j \in 1 .. k + 1 |-> Entry(block', r[j])]
  <2>1. IsFiniteSet(List')
    BY <1>3, <1>7, FS_AddElement
  <2> DEFINE L == List'
             c == block'
  <2>2. IsFiniteSet(L) /\ Aged(L, c) /\ Ordered(r, L, c)
    BY <1>10, <2>1
  <2> HIDE DEF L, c, r
  <2>3. EntriesOf(L, c) = [j \in 1 .. Cardinality(L) |-> Entry(c, r[j])]
    BY <2>2, EntriesInOrder
  <2>4. QED
    BY <1>10, <2>3, EntriesIs DEF L, c
<1>13. <<e>> \o Entries = [j \in 1 .. k + 1 |-> IF j = 1 THEN e ELSE Entries[j - 1]]
  <2> DEFINE s == Entries
  <2>1. s \in Seq(CacheEntry) /\ Len(s) = k /\ e \in CacheEntry
    BY <1>3, <1>4 DEF k
  <2> HIDE DEF s
  <2>2. <<e>> \o s = [j \in 1 .. Len(s) + 1 |-> IF j = 1 THEN e ELSE s[j - 1]]
    BY <2>1, PutInFront
  <2>3. QED
    BY <2>1, <2>2, Zenon DEF s
<1>14. ASSUME NEW j \in 1 .. k + 1
       PROVE  Entry(block', r[j]) = IF j = 1 THEN e ELSE Entries[j - 1]
  <2>1. r[j] = IF j = 1 THEN n ELSE q[j - 1]
    BY Zenon DEF Joined
  <2>2. ASSUME NEW l \in 1 .. k PROVE Entry(block', q[l]) = Entries[l]
    <3>1. q[l] \in List /\ Entries[l] = Entry(block, q[l])
      BY <1>8 DEF Ordered, k
    <3>2. q[l] \in Node /\ q[l] # n
      BY <1>3, <1>5, <3>1
    <3>3. QED
      BY <1>6, <3>1, <3>2
  <2> HIDE DEF r
  <2>3. j # 1 => j - 1 \in 1 .. k
    BY <1>3 DEF k
  <2>4. CASE j = 1
    BY <1>6, <2>1, <2>4
  <2>5. CASE j # 1
    BY <2>1, <2>2, <2>3, <2>5
  <2>6. QED
    BY <2>4, <2>5
<1>15. Entries' = <<adding>> \o Entries
  BY <1>12, <1>13, <1>14, Zenon DEF e
<1>16. LRU!Used + adding.size <= MAX_CACHE_SIZE
  <2>1. LRU!Used = MAX_CACHE_SIZE - slots /\ slots \in Int /\ MAX_CACHE_SIZE \in Nat
    BY UsedIs, UsedIsTaken, SizeAssumption
  <2>2. ~(adding.size > slots) /\ adding.size \in Nat
    BY <1>2, <1>4 DEF MustEvict, e
  <2>3. QED
    BY <2>1, <2>2
<1>17. LRU!FinishAdd
  BY <1>2, <1>15, <1>16, Zenon DEF LRU!FinishAdd
<1>18. QED
  BY <1>11, <1>17

(* Only the block used longest ago can be evicted: if there is a block     *)
(* younger than MIN, so is the oldest.                                     *)
LEMMA OldestIsEvicted ==
    ASSUME CacheInv, Aged(List, block), evict_age # NULL
    PROVE  evict_age \in List /\ \A m \in List : block[evict_age].age <= block[m].age
<1> DEFINE Old == {n \in List : block[n].age < MIN}
           N == {n \in Old : \A m \in Old : block[n].age <= block[m].age}
<1>1. evict_age = FirstOf(N)
  BY DEF evict_age
<1>2. N \in SUBSET List
  OBVIOUS
<1>3. evict_age \in N
  <2> HIDE DEF N
  <2>1. QED
    BY <1>1, <1>2, FirstOfIsOne DEF CacheInv
<1>4. PICK n \in N : n = evict_age
  BY <1>3
<1>5. ASSUME NEW m \in List PROVE block[n].age <= block[m].age
  <2>1. /\ n \in List /\ block[n].age < MIN
        /\ block[n].age \in Nat /\ block[m].age \in Nat /\ MIN \in Nat
    BY SizeAssumption DEF Aged
  <2>2. CASE block[m].age < MIN
    BY <2>2
  <2>3. CASE ~(block[m].age < MIN)
    BY <2>1, <2>3
  <2>4. QED
    BY <2>2, <2>3
<1>6. QED
  BY <1>4, <1>5

(* An eviction drops the last entry, or nothing if every block has an age  *)
(* of MIN or more.                                                         *)
LEMMA EvictMaps ==
    ASSUME UseInv, AgesInv, Evict
    PROVE  /\ AgesInv'
           /\ LRU!Drop \/ UNCHANGED <<Entries, adding, last>>
<1> DEFINE k == Cardinality(List)
           n == evict_age
<1>1. adding # Nothing /\ MustEvict(adding.size) /\ UNCHANGED <<time_count, adding, last>>
  BY DEF Evict
<1>2. CASE UNCHANGED cacheVars
  <2>1. List' = List /\ block' = block
    BY <1>2, CacheInvStays DEF UseInv
  <2>2. Entries' = Entries
    BY <2>1, EntriesIs
  <2>3. AgesInv'
    BY <1>1, <2>1 DEF AgesInv
  <2>4. QED
    BY <1>1, <2>2, <2>3
<1>3. CASE n # NULL /\ remove_from_cache(n)
  <2>1. /\ IsFiniteSet(List) /\ k \in Nat /\ List \in SUBSET Node
        /\ Entries \in Seq(CacheEntry) /\ Len(Entries) = k
        /\ block \in [Node -> Block] /\ Aged(List, block)
    BY EntriesListed DEF UseInv, CacheInv, CacheTypeOK, AgesInv
  <2>2. n \in List /\ \A m \in List : block[n].age <= block[m].age
    BY <1>3, <2>1, OldestIsEvicted DEF UseInv
  <2>3. PICK x \in List : x = n
    BY <2>2
  <2>4. remove_from_cache(x) /\ \A m \in List : block[x].age <= block[m].age
    BY <1>3, <2>2, <2>3
  <2>5. List' = List \ {x}
    BY <2>4, RemoveKeeps DEF UseInv
  <2>6. \A m \in Node : m # x => /\ block'[m].age = block[m].age
                                 /\ Entry(block', m) = Entry(block, m)
    <3> DEFINE before == block[x].prev
               after == block[x].next
    <3>1. block' = [m \in Node |->
                 IF m = x THEN Freed
                 ELSE [block[m] EXCEPT !.next = IF m = before THEN after ELSE @,
                                       !.prev = IF m = after THEN before ELSE @]]
      BY <2>4, Zenon DEF remove_from_cache
    <3> HIDE DEF before, after
    <3>2. ASSUME NEW m \in Node, m # x
          PROVE  /\ block'[m].age = block[m].age /\ block'[m].uri = block[m].uri
                 /\ block'[m].size = block[m].size
      <4>1. block'[m] = [block[m] EXCEPT !.next = IF m = before THEN after ELSE @,
                                         !.prev = IF m = after THEN before ELSE @]
        BY <3>1, <3>2
      <4>2. block[m] \in Block
        BY <2>1
      <4>3. QED
        BY <4>1, <4>2 DEF Block
    <3>3. QED
      BY <3>2 DEF Entry
  <2>7. PICK q : Ordered(q, List, block) /\ Entries = [i \in 1 .. k |-> Entry(block, q[i])]
    BY EntriesListed
  <2> HIDE DEF n, k
  <2> DEFINE r == Shortened(q, k)
  <2>8. /\ Aged(List', block') /\ Ordered(r, List', block') /\ q[k] = x
        /\ Cardinality(List') = k - 1 /\ k # 0
    <3> DEFINE L == List
               b == block
               c == block'
    <3>1. /\ IsFiniteSet(L) /\ Aged(L, b) /\ Ordered(q, L, b) /\ x \in L
          /\ \A m \in L : b[x].age <= b[m].age
          /\ \A m \in L : m # x => c[m].age = b[m].age
      BY <2>1, <2>4, <2>6, <2>7
    <3> HIDE DEF L, b, c
    <3>2. /\ Aged(L \ {x}, c) /\ Cardinality(L) \in Nat \ {0}
          /\ Cardinality(L \ {x}) = Cardinality(L) - 1
          /\ q[Cardinality(L)] = x
          /\ Ordered(Shortened(q, Cardinality(L)), L \ {x}, c)
      BY <3>1, OrderAfterEviction
    <3>3. QED
      BY <2>5, <3>2 DEF L, c, k
  <2>9. AgesInv'
    <3>1. \A m \in List' : m \in List /\ m \in Node /\ m # x
      BY <2>1, <2>5
    <3>2. \A m \in List' : block'[m].age <= time_count' /\ block'[m].age < time_count'
      BY <1>1, <2>6, <3>1 DEF AgesInv
    <3>3. QED
      BY <1>1, <2>8, <3>2 DEF AgesInv
  <2>10. Entries' = [j \in 1 .. k - 1 |-> Entry(block', r[j])]
    <3>1. IsFiniteSet(List')
      BY <2>1, <2>5, FS_RemoveElement
    <3> DEFINE L == List'
               c == block'
    <3>2. IsFiniteSet(L) /\ Aged(L, c) /\ Ordered(r, L, c)
      BY <2>8, <3>1
    <3> HIDE DEF L, c, r
    <3>3. EntriesOf(L, c) = [j \in 1 .. Cardinality(L) |-> Entry(c, r[j])]
      BY <3>2, EntriesInOrder
    <3>4. QED
      BY <2>8, <3>3, EntriesIs DEF L, c
  <2>11. Entries # <<>> /\ Front(Entries) = [j \in 1 .. k - 1 |-> Entries[j]]
    <3> DEFINE s == Entries
    <3>1. s \in Seq(CacheEntry) /\ Len(s) = k
      BY <2>1 DEF k
    <3> HIDE DEF s
    <3>2. s # <<>>
      BY <2>8, <3>1
    <3>3. Front(s) = [j \in 1 .. Len(s) - 1 |-> s[j]]
      BY <3>1, <3>2, LastTaken
    <3>4. QED
      BY <3>1, <3>2, <3>3, Zenon DEF s
  <2>12. ASSUME NEW j \in 1 .. k - 1 PROVE Entry(block', r[j]) = Entries[j]
    <3>1. j \in 1 .. k /\ k \in 1 .. k /\ j < k
      BY <2>1 DEF k
    <3>2. q[j] \in List /\ Entries[j] = Entry(block, q[j]) /\ r[j] = q[j]
      BY <2>7, <3>1 DEF Ordered, k, Shortened
    <3>3. q[j] # x
      <4>1. block[q[j]].age > block[x].age /\ block[x].age \in Nat
        BY <2>1, <2>7, <2>8, <3>1 DEF Ordered, k, Aged
      <4>2. QED
        BY <4>1
    <3>4. q[j] \in Node
      BY <2>1, <3>2
    <3>5. QED
      BY <2>6, <3>2, <3>3, <3>4
  <2>13. Entries' = Front(Entries)
    BY <2>10, <2>11, <2>12, Zenon
  <2>14. LRU!Used + adding.size > MAX_CACHE_SIZE
    <3>1. LRU!Used = MAX_CACHE_SIZE - slots /\ slots \in Int /\ MAX_CACHE_SIZE \in Nat
      BY UsedIs, UsedIsTaken, SizeAssumption
    <3>2. adding.size > slots
      BY <1>1 DEF MustEvict
    <3>3. adding.size \in Nat
      BY <1>1, ObjectAssumption, SizeAssumption DEF UseInv
    <3>4. QED
      BY <3>1, <3>2, <3>3
  <2>15. LRU!Drop
    BY <1>1, <2>11, <2>13, <2>14, Zenon DEF LRU!Drop, LRU!Front, Front
  <2>16. QED
    BY <2>9, <2>15
<1>4. ASSUME NEW m \in List, m = evict_age, remove_from_cache(m)
      PROVE  n # NULL /\ remove_from_cache(n)
  <2>1. List \in SUBSET Node
    BY EntriesListed DEF UseInv, CacheInv, CacheTypeOK, AgesInv
  <2>2. QED
    BY <1>4, <2>1, NodeAssumption, Zenon
<1>. HIDE DEF n
<1>5. (\E m \in List : m = evict_age /\ remove_from_cache(m))
        => n # NULL /\ remove_from_cache(n)
  BY <1>4, Zenon
<1>6. QED
  BY <1>2, <1>3, <1>5, Zenon DEF Evict, evict_block

(* Every step of the thread is one of the LRU cache's, or a stutter.       *)
LEMMA UseMaps ==
    ASSUME UseInv, UseInv', AgesInv, [UseNext]_useVars
    PROVE  AgesInv' /\ [LRU!Next]_<<Entries, adding, last>>
<1>1. CASE \E uri \in Uri : Hit(uri)
  BY <1>1, HitMaps, Zenon DEF LRU!Next
<1>2. CASE \E uri \in Uri, size \in Size : Miss(uri, size)
  BY <1>2, MissMaps, Zenon DEF LRU!Next
<1>3. CASE Evict
  BY <1>3, EvictMaps, Zenon DEF LRU!Next
<1>4. CASE Insert
  BY <1>4, InsertMaps, Zenon DEF LRU!Next
<1>5. CASE UNCHANGED useVars
  <2>1. UNCHANGED cacheVars /\ UNCHANGED <<time_count, adding, last>>
    BY <1>5 DEF useVars
  <2>2. List' = List /\ block' = block
    BY <2>1, CacheInvStays DEF UseInv
  <2>3. Entries' = Entries
    BY <2>2, EntriesIs
  <2>4. AgesInv'
    BY <2>1, <2>2 DEF AgesInv
  <2>5. QED
    BY <2>1, <2>3, <2>4
<1>6. QED
  BY <1>1, <1>2, <1>3, <1>4, <1>5 DEF UseNext

(* The linked blocks implement an LRU cache (cache.c's heading): a hit     *)
(* makes an entry the youngest, and only the oldest entry is evicted, only *)
(* when there is no room.                                                  *)
THEOREM CacheIsLRU == UseSpec => ImplementsLRU
<1>1. UseInit => UseInv /\ AgesInv /\ LRU!Init
  <2> SUFFICES ASSUME UseInit PROVE UseInv /\ AgesInv /\ LRU!Init
    OBVIOUS
  <2>1. UseInv /\ adding = Nothing /\ last = Nothing
    BY CacheInvInit DEF UseInit, UseInv
  <2>2. List = {}
    <3>1. List = Allocated
      BY <2>1, ListIsAllocated DEF UseInv, CacheInv, ListIsWhole
    <3>2. QED
      BY <3>1 DEF UseInit, init_cache, Allocated, Freed
  <2>3. AgesInv
    BY <2>1, <2>2 DEF AgesInv, Aged
  <2>4. Entries = <<>>
    <3>1. Cardinality(List) = 0
      BY <2>2, FS_EmptySet
    <3>2. Entries \in Seq(CacheEntry) /\ Len(Entries) = 0
      BY <2>1, <2>3, <3>1, EntriesListed
    <3>3. QED
      BY <3>2
  <2>5. QED
    BY <2>1, <2>3, <2>4 DEF LRU!Init
<1>2. UseInv /\ [UseNext]_useVars => UseInv'
  BY UseStep
<1>3. UseInv /\ UseInv' /\ AgesInv /\ [UseNext]_useVars
        => AgesInv' /\ [LRU!Next]_<<Entries, adding, last>>
  BY UseMaps
<1>4. UseSpec => LRU!Init /\ [][LRU!Next]_<<Entries, adding, last>>
  BY <1>1, <1>2, <1>3, PTL DEF UseSpec
<1>5. LRU!Spec <=> (LRU!Init /\ [][LRU!Next]_<<Entries, adding, last>>)
  BY DEF LRU!Spec, LRU!vars
<1>6. QED
  BY <1>4, <1>5 DEF ImplementsLRU

=============================================================================
