------------------------------ MODULE WebCache ------------------------------
(***************************************************************************)
(* The web proxy's cache, proxylab/cache.c: a doubly linked list of blocks *)
(* on the heap and the number of bytes left.  A node is an address that    *)
(* malloc may return.                                                      *)
(*                                                                         *)
(* The operators are the routines of that file with their own names: those *)
(* that read are state functions, those that write are actions over this   *)
(* module's variables.  The eviction loop of add_to_cache may not end, so  *)
(* its test, its body and what follows it are operators of their own.      *)
(*                                                                         *)
(* Left out: the bytes of a response (its size stands for it), and         *)
(* free_cache, which main never reaches.                                   *)
(***************************************************************************)
EXTENDS Integers, FiniteSets, FiniteSetsExt

CONSTANTS
    Node,           \* addresses of cache blocks
    NULL,           \* the null pointer
    Uri,            \* request URIs
    NoUri,          \* the URI field of memory that is not allocated
    MAX_CACHE_SIZE, \* bytes of the cache
    MIN             \* an age that blocks are assumed not to reach

ASSUME NodeAssumption == IsFiniteSet(Node) /\ NULL \notin Node
ASSUME UriAssumption == NoUri \notin Uri
ASSUME SizeAssumption == MAX_CACHE_SIZE \in Nat \ {0} /\ MIN \in Nat

VARIABLES
    block,      \* the heap: the block at each address
    head,       \* first block of the list
    slots       \* bytes left

cacheVars == <<block, head, slots>>

Pointer == Node \cup {NULL}

Block == [prev : Pointer, next : Pointer, uri : Uri \cup {NoUri},
          age : Nat, size : Nat]

Freed == [prev |-> NULL, next |-> NULL, uri |-> NoUri, age |-> 0, size |-> 0]

CacheTypeOK ==
    /\ block \in [Node -> Block]
    /\ head \in Pointer
    /\ slots \in Int

Allocated == {n \in Node : block[n].uri # NoUri}

init_cache ==
    /\ block = [n \in Node |-> Freed]
    /\ head = NULL
    /\ slots = MAX_CACHE_SIZE

-----------------------------------------------------------------------------
(* The pointer that a walk of the list holds at its i-th step.             *)
Walk[i \in Nat \ {0}] ==
    IF i = 1 THEN head
    ELSE IF Walk[i - 1] = NULL THEN NULL
    ELSE block[Walk[i - 1]].next

List == {Walk[i] : i \in 1..Cardinality(Node)} \ {NULL}

Position(n) == CHOOSE i \in 1..Cardinality(Node) : Walk[i] = n

(* The first of a set of listed nodes, as a walk finds it; NULL if none.   *)
FirstOf(Nodes) ==
    IF Nodes = {} THEN NULL
    ELSE CHOOSE n \in Nodes : \A m \in Nodes : Position(n) <= Position(m)

search_cache(uri) == FirstOf({n \in List : block[n].uri = uri})

(* A bug: a hit does not make the block young again.                       *)
read_response_KeepsAge(n, time) == UNCHANGED cacheVars

read_response(n, time) ==
    /\ block' = [block EXCEPT ![n].age = time]
    /\ UNCHANGED <<head, slots>>

-----------------------------------------------------------------------------
(* The first of the oldest blocks younger than MIN; NULL if there is none. *)
evict_age ==
    LET Old == {n \in List : block[n].age < MIN}
    IN  FirstOf({n \in Old : \A m \in Old : block[n].age <= block[m].age})

(* A bug: the block behind the removed one keeps its backward link.        *)
remove_from_cache_LeavesPrev(n) ==
    LET before == block[n].prev
        after  == block[n].next
    IN  /\ head' = IF before = NULL THEN after ELSE head
        /\ slots' = slots + block[n].size
        /\ block' = [m \in Node |->
               IF m = n THEN Freed
               ELSE [block[m] EXCEPT !.next = IF m = before THEN after ELSE @]]

(* A bug: removal at the head frees the block and keeps its bytes.         *)
remove_from_cache_KeepsBytes(n) ==
    LET before == block[n].prev
        after  == block[n].next
    IN  /\ head' = IF before = NULL THEN after ELSE head
        /\ slots' = IF before = NULL THEN slots ELSE slots + block[n].size
        /\ block' = [m \in Node |->
               IF m = n THEN Freed
               ELSE [block[m] EXCEPT !.next = IF m = before THEN after ELSE @,
                                     !.prev = IF m = after THEN before ELSE @]]

(* At the head, at the end and in the middle; a node that the walk does    *)
(* not meet is left alone.                                                 *)
remove_from_cache(n) ==
    LET before == block[n].prev
        after  == block[n].next
    IN  IF n \notin List
        THEN UNCHANGED cacheVars
        ELSE /\ head' = IF before = NULL THEN after ELSE head
             /\ slots' = slots + block[n].size
             /\ block' = [m \in Node |->
                    IF m = n THEN Freed
                    ELSE [block[m] EXCEPT
                             !.next = IF m = before THEN after ELSE @,
                             !.prev = IF m = after THEN before ELSE @]]

-----------------------------------------------------------------------------
(* add_to_cache: while (size > slots), evict; then link a new block in at  *)
(* the head.                                                               *)

MustEvict(size) == size > slots

evict_block ==
    \/ evict_age = NULL /\ UNCHANGED cacheVars
    \/ \E n \in List : n = evict_age /\ remove_from_cache(n)

insert_block(n, uri, size, time) ==
    /\ n \notin Allocated
    /\ block' = [m \in Node |->
           IF m = n THEN [prev |-> NULL, next |-> head, uri |-> uri,
                          age |-> time, size |-> size]
           ELSE [block[m] EXCEPT !.prev = IF m = head THEN n ELSE @]]
    /\ head' = n
    /\ slots' = slots - size

-----------------------------------------------------------------------------

SizeOf(n) == block[n].size

(* The list is linked both ways, ends, and is all of the allocated blocks: *)
(* whatever order blocks are evicted in, none is lost and none is reached  *)
(* after it was freed (remove_from_cache's three cases, cache.c:186-203).  *)
WellLinked ==
    /\ List = Allocated
    /\ Walk[Cardinality(Node) + 1] = NULL
    /\ \A n \in List :
        /\ block[n].prev = NULL <=> n = head
        /\ block[n].prev # NULL => block[block[n].prev].next = n
        /\ block[n].next # NULL => block[block[n].next].prev = n

(* The bytes left and the bytes of the listed blocks add up to the cache.  *)
BytesAddUp == slots >= 0 /\ slots + MapThenSumSet(SizeOf, List) = MAX_CACHE_SIZE

(* No URI has two blocks: a reader would see the newer one only, and the   *)
(* older one would take up space (proxy.c: "confirm not in cache").        *)
OneBlockPerUri ==
    \A m, n \in List : block[m].uri = block[n].uri => m = n

=============================================================================
