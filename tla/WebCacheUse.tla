---------------------------- MODULE WebCacheUse -----------------------------
(***************************************************************************)
(* The cache of WebCache as doit of proxylab/proxy.c uses it, one thread   *)
(* at a time: the clock, a lookup that hits, and a lookup that misses and  *)
(* adds the response.  The threads and their lock are in Proxy.            *)
(***************************************************************************)
EXTENDS WebCache, Sequences

CONSTANTS
    Size,       \* sizes of responses; at most MAX_OBJECT_SIZE in the code
    Nothing,    \* add_to_cache is not running
    MaxTime     \* bound: the clock stops here

ASSUME ObjectAssumption == \A s \in Size : s \in 1..MAX_CACHE_SIZE
ASSUME TimeAssumption == MaxTime \in Nat

VARIABLES
    time_count, \* the LRU clock of proxy.c
    adding,     \* the response that add_to_cache is making room for
    last        \* history: the URI looked up last

useVars == <<cacheVars, time_count, adding, last>>

UseTypeOK ==
    /\ CacheTypeOK
    /\ time_count \in Nat
    /\ adding \in [uri : Uri, size : Size] \cup {Nothing}

UseInit ==
    /\ init_cache
    /\ time_count = 0
    /\ adding = Nothing
    /\ last = Nothing

Hit(uri) ==
    /\ adding = Nothing /\ time_count < MaxTime
    /\ search_cache(uri) # NULL
    /\ time_count' = time_count + 1
    /\ read_response(search_cache(uri), time_count')
    /\ last' = uri
    /\ UNCHANGED adding

Miss(uri, size) ==
    /\ adding = Nothing /\ time_count < MaxTime
    /\ search_cache(uri) = NULL
    /\ time_count' = time_count + 1
    /\ adding' = [uri |-> uri, size |-> size]
    /\ last' = uri
    /\ UNCHANGED cacheVars

Evict ==
    /\ adding # Nothing /\ MustEvict(adding.size)
    /\ evict_block
    /\ UNCHANGED <<time_count, adding, last>>

Insert ==
    /\ adding # Nothing /\ ~MustEvict(adding.size)
    /\ \E n \in Node : insert_block(n, adding.uri, adding.size, time_count)
    /\ adding' = Nothing
    /\ UNCHANGED <<time_count, last>>

UseNext ==
    \/ \E uri \in Uri : Hit(uri)
    \/ \E uri \in Uri, size \in Size : Miss(uri, size)
    \/ Evict
    \/ Insert

UseSpec ==
    /\ UseInit /\ [][UseNext]_useVars
    /\ WF_useVars(Evict) /\ WF_useVars(Insert)

-----------------------------------------------------------------------------
(* The entries of an LRU cache: the listed blocks in order of age, the     *)
(* youngest first, whatever place of the list they are in.                 *)
Entries ==
    LET listed   == List
        At(i)    == CHOOSE n \in listed :
                        Cardinality({m \in listed : block[m].age > block[n].age}) = i - 1
        Entry(n) == [uri |-> block[n].uri, size |-> block[n].size]
    IN  [i \in 1..Cardinality(listed) |-> Entry(At(i))]

LRU == INSTANCE LRUCache WITH
    Key <- Uri, Capacity <- MAX_CACHE_SIZE, entries <- Entries

(* cache.c's heading: "Evicted cache blocks are determined with an LRU     *)
(* policy".  The blocks and their links implement LRUCache.                *)
ImplementsLRU == LRU!Spec

(* add_to_cache's loop ends, unless every block has reached the age MIN,   *)
(* which evict_age passes over (cache.c:107, "assumes age per cache block  *)
(* doesn't exceed it").                                                    *)
EvictionEnds ==
    (adding # Nothing)
        ~> (adding = Nothing \/ (List # {} /\ \A n \in List : block[n].age >= MIN))

(* The list holds together whatever order blocks are evicted in, and the   *)
(* bytes left are what the blocks leave (remove_from_cache, cache.c:186).  *)
CacheIsSound == UseTypeOK /\ WellLinked /\ BytesAddUp /\ OneBlockPerUri

=============================================================================
