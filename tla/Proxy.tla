------------------------------- MODULE Proxy --------------------------------
(***************************************************************************)
(* The web proxy, proxylab/proxy.c: main accepts connections and starts a  *)
(* thread for each; the threads run doit over one cache, one clock and one *)
(* mutex, which each of them initialises.  The t-th connection accepted is *)
(* served by thread t, whose heap cell for the descriptor is t as well.    *)
(*                                                                         *)
(* A step is a stretch of one thread between two accesses to what threads  *)
(* share: the mutex, the cache and the clock, the table of descriptors,    *)
(* the heap cells.  Once two threads are between lock and unlock at the    *)
(* same time the list is read and written at once and anything may follow; *)
(* the model stops there.                                                  *)
(*                                                                         *)
(* Memory that is read before it is written holds what an earlier thread   *)
(* left on the stack: any URI.                                             *)
(***************************************************************************)
EXTENDS WebCache, Mutex

CONSTANTS
    Fd,             \* descriptors a process may have open, beside main's own
    NoFd,           \* -1
    FreeCell,       \* what a cell that is not allocated holds
    MAX_OBJECT_SIZE,\* largest response kept
    Length          \* lengths of servers' responses

ASSUME ConnectionAssumption == Thread = 1..Cardinality(Thread)
ASSUME FdAssumption == Fd \subseteq Nat /\ NoFd \notin Fd /\ FreeCell \notin Fd \cup {NoFd}
ASSUME LengthAssumption ==
    Length \subseteq Nat /\ MAX_OBJECT_SIZE \in 1..MAX_CACHE_SIZE

VARIABLES
    pc,         \* where each thread is
    open,       \* what each descriptor is open on
    cell,       \* the heap cells main allocates for descriptors
    argp,       \* the cell given to each thread
    conn,       \* the variables of each thread's doit
    time_count, \* the LRU clock
    killed,     \* what ended the process, or "no"
    reinit      \* history: the mutex was initialised while it was in use

proxyVars == <<pc, open, cell, argp, conn, time_count, killed, reinit>>
vars == <<cacheVars, mutexVars, proxyVars>>

(* "ended": answered from the cache or by the server;  "failed": there was *)
(* no connection to the server;  "unsent": there was, but the request was  *)
(* not written;  "lost": the thread was never created.                     *)
PC == {"none", "start", "request", "init", "lock", "lookup", "unlockHit",
       "forward", "unlockMiss", "connect", "response", "relock", "research",
       "evict", "unlockAdd", "closeBoth", "ended", "failed", "unsent", "lost"}

Closed == <<"closed", 0>>
ClientOf(t) == <<"client", t>>
ServerOf(t) == <<"server", t>>

(* uri, size and leftover are doit's; length is the server's response, and *)
(* got what of it has been read.                                           *)
Local == [fd : Fd \cup {NoFd}, server_fd : Fd \cup {NoFd}, uri : Uri \cup {NoUri},
          size : Nat, leftover : Nat, length : Nat, got : Nat]

Unset == [fd |-> NoFd, server_fd |-> NoFd, uri |-> NoUri,
          size |-> 0, leftover |-> MAX_OBJECT_SIZE, length |-> 0, got |-> 0]

ProxyTypeOK ==
    /\ CacheTypeOK /\ MutexTypeOK
    /\ pc \in [Thread -> PC]
    /\ open \in [Fd -> {Closed} \cup ({"client", "server"} \X Thread)]
    /\ cell \in [Thread -> Fd \cup {NoFd, FreeCell}]
    /\ argp \in [Thread -> Thread]
    /\ conn \in [Thread -> Local]
    /\ time_count \in Nat

Init ==
    /\ init_cache
    /\ MutexZero
    /\ pc = [t \in Thread |-> "none"]
    /\ open = [f \in Fd |-> Closed]
    /\ cell = [t \in Thread |-> FreeCell]
    /\ argp = [t \in Thread |-> t]
    /\ conn = [t \in Thread |-> Unset]
    /\ time_count = 0
    /\ killed = "no"
    /\ reinit = FALSE

settled == <<killed, reinit>>

Goto(t, next) == pc' = [pc EXCEPT ![t] = next]

Holds(t) == pc[t] \in {"lookup", "unlockHit", "unlockMiss", "research",
                       "evict", "unlockAdd"}

-----------------------------------------------------------------------------
(* main's loop.  accept gives a descriptor or -1, which nobody looks at;   *)
(* so is a thread that cannot be created.                                  *)

NextConnection(t) == pc[t] = "none" /\ \A s \in 1..(t - 1) : pc[s] # "none"

(* The kernel gives the lowest descriptor that is closed.                  *)
NewFd(f) == f \in Fd /\ open[f] = Closed /\ \A g \in Fd : g < f => open[g] # Closed

AcceptInto(t, c) ==
    \/ \E f \in Fd : /\ NewFd(f)
                    /\ open' = [open EXCEPT ![f] = ClientOf(t)]
                    /\ cell' = [cell EXCEPT ![c] = f]
    \/ UNCHANGED open /\ cell' = [cell EXCEPT ![c] = NoFd]

(* A bug: one cell for all connections, as with &connfd on main's stack.   *)
Accept_OneCell(t) ==
    /\ NextConnection(t)
    /\ AcceptInto(t, 1)
    /\ argp' = [argp EXCEPT ![t] = 1]
    /\ Goto(t, "start")
    /\ UNCHANGED <<cacheVars, mutexVars, conn, time_count, settled>>

Accept(t) ==
    /\ NextConnection(t)
    /\ AcceptInto(t, t)
    /\ argp' = [argp EXCEPT ![t] = t]
    /\ Goto(t, "start")
    /\ UNCHANGED <<cacheVars, mutexVars, conn, time_count, settled>>

ThreadNotCreated(t) ==
    /\ NextConnection(t)
    /\ AcceptInto(t, t)
    /\ Goto(t, "lost")
    /\ UNCHANGED <<cacheVars, mutexVars, argp, conn, time_count, settled>>

-----------------------------------------------------------------------------
(* doit, up to the lookup.                                                 *)

ReadArgument(t) ==
    /\ pc[t] = "start"
    /\ conn' = [conn EXCEPT ![t].fd = cell[argp[t]]]
    /\ Goto(t, "request")
    /\ UNCHANGED <<cacheVars, mutexVars, open, cell, argp, time_count, settled>>

(* read_request, and the error a malformed line or a POST is answered with *)
(* before doit goes on all the same.  A line without a URI or without a    *)
(* scheme, a method other than GET and a descriptor of -1 leave the URI,   *)
(* the host or the request unset.  Like every write of a thread but that   *)
(* of the request, the answer's may fail: SIGPIPE is ignored (proxy.c:94)  *)
(* and nothing depends on the result.                                      *)
ReadRequest(t, uri) ==
    /\ pc[t] = "request"
    /\ conn' = [conn EXCEPT ![t].uri = uri]
    /\ Goto(t, "init")
    /\ UNCHANGED <<cacheVars, mutexVars, open, cell, argp, time_count, settled>>

(* The headers are put together in arrays of MAXLINE characters, with no   *)
(* look at how many there are: a client that sends more writes over what   *)
(* lies behind them, and anything may follow; the model stops there.       *)
HeadersOverflow(t) ==
    /\ pc[t] = "request"
    /\ killed' = "overflow"
    /\ UNCHANGED <<cacheVars, mutexVars, pc, open, cell, argp, conn, time_count, reinit>>

InitMutex(t) ==
    /\ pc[t] = "init"
    /\ pthread_mutex_init
    /\ reinit' = (reinit \/ \E s \in Thread \ {t} : Holds(s) \/ waiter[s] # "no")
    /\ Goto(t, "lock")
    /\ UNCHANGED <<cacheVars, open, cell, argp, conn, time_count, killed>>

(* A bug: the second part of doit does not take the lock.                  *)
Lock_OnlyFirst(t) ==
    /\ \/ pc[t] = "lock" /\ MutexAcquire(t) /\ Goto(t, "lookup")
       \/ pc[t] = "relock" /\ Goto(t, "research") /\ UNCHANGED mutexVars
       \/ pc[t] = "lock" /\ MutexSleep(t) /\ UNCHANGED pc
    /\ UNCHANGED <<cacheVars, open, cell, argp, conn, time_count, settled>>

Lock(t) ==
    /\ \/ pc[t] = "lock" /\ MutexAcquire(t) /\ Goto(t, "lookup")
       \/ pc[t] = "relock" /\ MutexAcquire(t) /\ Goto(t, "research")
       \/ pc[t] \in {"lock", "relock"} /\ MutexSleep(t) /\ UNCHANGED pc
    /\ UNCHANGED <<cacheVars, open, cell, argp, conn, time_count, settled>>

Lookup(t) ==
    /\ pc[t] = "lookup"
    /\ LET found == search_cache(conn[t].uri)
       IN  IF found # NULL
           THEN /\ time_count' = time_count + 1
                /\ read_response(found, time_count')
                /\ Goto(t, "unlockHit")
           ELSE /\ Goto(t, "unlockMiss")
                /\ UNCHANGED <<cacheVars, time_count>>
    /\ UNCHANGED <<mutexVars, open, cell, argp, conn, settled>>

(* A bug: the unlock after an insertion is missing.                        *)
Unlock_NotAfterAdd(t) ==
    /\ \/ pc[t] = "unlockHit" /\ Goto(t, "forward") /\ pthread_mutex_unlock
       \/ pc[t] = "unlockMiss" /\ Goto(t, "connect") /\ pthread_mutex_unlock
       \/ pc[t] = "unlockAdd" /\ Goto(t, "closeBoth") /\ UNCHANGED mutexVars
    /\ UNCHANGED <<cacheVars, open, cell, argp, conn, time_count, settled>>

Unlock(t) ==
    /\ pthread_mutex_unlock
    /\ \/ pc[t] = "unlockHit" /\ Goto(t, "forward")
       \/ pc[t] = "unlockMiss" /\ Goto(t, "connect")
       \/ pc[t] = "unlockAdd" /\ Goto(t, "closeBoth")
    /\ UNCHANGED <<cacheVars, open, cell, argp, conn, time_count, settled>>

-----------------------------------------------------------------------------
(* The rest of doit: a hit is written and closed; a miss is fetched.       *)

close(f) == [g \in Fd |-> IF g = f THEN Closed ELSE open[g]]

Forward(t) ==
    /\ pc[t] = "forward"
    /\ open' = close(conn[t].fd)
    /\ cell' = [cell EXCEPT ![argp[t]] = FreeCell]
    /\ Goto(t, "ended")
    /\ UNCHANGED <<cacheVars, mutexVars, argp, conn, time_count, settled>>

(* send_request_to_server fails: there is no connection, or the request is *)
(* not written, and then the server's descriptor stays open.  doit closes  *)
(* the client's and returns.                                               *)
SendRequestFails(t) ==
    /\ pc[t] = "connect"
    /\ \/ open' = close(conn[t].fd) /\ Goto(t, "failed")
       \/ \E f \in Fd : /\ NewFd(f)
                        /\ open' = [close(conn[t].fd) EXCEPT ![f] = ServerOf(t)]
                        /\ Goto(t, "unsent")
    /\ UNCHANGED <<cacheVars, mutexVars, cell, argp, conn, time_count, settled>>

SendRequest(t, f, length) ==
    /\ pc[t] = "connect"
    /\ NewFd(f)
    /\ open' = [open EXCEPT ![f] = ServerOf(t)]
    /\ conn' = [conn EXCEPT ![t].server_fd = f, ![t].length = length]
    /\ Goto(t, "response")
    /\ UNCHANGED <<cacheVars, mutexVars, cell, argp, time_count, settled>>

(* One turn of send_response_to_client's loop, with n bytes; rio_readnb    *)
(* gives fewer than MAX_OBJECT_SIZE only at the end of the response.       *)
(* A bug: a response that turns out to be too long is kept, cut off.       *)
KeepSegment_KeepsPrefix(c, n) ==
    IF c.leftover > 0
    THEN [c EXCEPT !.leftover = @ - n, !.size = @ + n, !.got = @ + n]
    ELSE [c EXCEPT !.got = @ + n]

KeepSegment(c, n) ==
    IF c.leftover > 0
    THEN [c EXCEPT !.leftover = @ - n, !.size = @ + n, !.got = @ + n]
    ELSE [c EXCEPT !.size = 0, !.got = @ + n]

ReceiveSegment(t) ==
    LET rest == conn[t].length - conn[t].got
        n == IF rest < MAX_OBJECT_SIZE THEN rest ELSE MAX_OBJECT_SIZE
    IN  /\ pc[t] = "response" /\ n > 0
        /\ conn' = [conn EXCEPT ![t] = KeepSegment(conn[t], n)]
        /\ UNCHANGED <<cacheVars, mutexVars, pc, open, cell, argp, time_count, settled>>

(* rio_readnb returns -1, which is a size_t here: it passes the test > 0   *)
(* and is the length of a memcpy, which the process does not survive.      *)
ReceiveFails(t) ==
    /\ pc[t] = "response"
    /\ killed' = "memcpy"
    /\ UNCHANGED <<cacheVars, mutexVars, pc, open, cell, argp, conn, time_count, reinit>>

EndOfResponse(t) ==
    /\ pc[t] = "response" /\ conn[t].got = conn[t].length
    /\ Goto(t, IF conn[t].size > 0 THEN "relock" ELSE "closeBoth")
    /\ UNCHANGED <<cacheVars, mutexVars, open, cell, argp, conn, time_count, settled>>

(* A bug: the response is added without looking again.                     *)
SearchAgain_Not(t) ==
    /\ pc[t] = "research"
    /\ time_count' = time_count + 1
    /\ Goto(t, "evict")
    /\ UNCHANGED <<cacheVars, mutexVars, open, cell, argp, conn, settled>>

SearchAgain(t) ==
    /\ pc[t] = "research"
    /\ IF search_cache(conn[t].uri) = NULL
       THEN time_count' = time_count + 1 /\ Goto(t, "evict")
       ELSE UNCHANGED time_count /\ Goto(t, "unlockAdd")
    /\ UNCHANGED <<cacheVars, mutexVars, open, cell, argp, conn, settled>>

AddToCache(t) ==
    /\ pc[t] = "evict"
    /\ IF MustEvict(conn[t].size)
       THEN evict_block /\ UNCHANGED pc
       ELSE /\ \E n \in Node :
                   insert_block(n, conn[t].uri, conn[t].size, time_count)
            /\ Goto(t, "unlockAdd")
    /\ UNCHANGED <<mutexVars, open, cell, argp, conn, time_count, settled>>

(* A bug: the server's descriptor stays open.                              *)
CloseBoth_NotServer(t) ==
    /\ pc[t] = "closeBoth"
    /\ open' = close(conn[t].fd)
    /\ cell' = [cell EXCEPT ![argp[t]] = FreeCell]
    /\ Goto(t, "ended")
    /\ UNCHANGED <<cacheVars, mutexVars, argp, conn, time_count, settled>>

CloseBoth(t) ==
    /\ pc[t] = "closeBoth"
    /\ open' = [f \in Fd |-> IF f \in {conn[t].fd, conn[t].server_fd}
                             THEN Closed ELSE open[f]]
    /\ cell' = [cell EXCEPT ![argp[t]] = FreeCell]
    /\ Goto(t, "ended")
    /\ UNCHANGED <<cacheVars, mutexVars, argp, conn, time_count, settled>>

-----------------------------------------------------------------------------

(* What a thread does without waiting for its client or its server.        *)
Computes(t) ==
    \/ ReadArgument(t) \/ InitMutex(t) \/ Lock(t) \/ Lookup(t) \/ Unlock(t)
    \/ Forward(t) \/ SearchAgain(t) \/ AddToCache(t) \/ CloseBoth(t)

(* What a thread does when its client, or its server, does something.      *)
Waits(t) ==
    \/ \E uri \in Uri : ReadRequest(t, uri)
    \/ HeadersOverflow(t) \/ SendRequestFails(t)
    \/ \E f \in Fd, length \in Length : SendRequest(t, f, length)
    \/ ReceiveSegment(t) \/ ReceiveFails(t) \/ EndOfResponse(t)

TwoHold == \E s, t \in Thread : s # t /\ Holds(s) /\ Holds(t)

Defined == killed = "no" /\ ~TwoHold

Next ==
    /\ Defined
    /\ \E t \in Thread :
        Accept(t) \/ ThreadNotCreated(t) \/ Computes(t) \/ Waits(t)

Spec ==
    /\ Init /\ [][Next]_vars
    /\ \A t \in Thread : WF_vars(Defined /\ Computes(t))

-----------------------------------------------------------------------------
(* proxy.c:18-20: "Multiple concurrent connections allowed, through the    *)
(* use of threads and mutex (locks) to control the accessing of shared     *)
(* variables/data structures".                                             *)
LockExcludes == ~TwoHold

(* The lock excludes as long as no thread initialises it while another one *)
(* holds it or waits for it.                                               *)
LockExcludesUnlessReinit == TwoHold => reinit

(* While the lock excludes, the cache holds together whatever two threads  *)
(* missed at the same time: both come back with the response of one URI,   *)
(* and the second finds the first one's block (proxy.c:183-205).           *)
SharedCacheIsSound ==
    /\ ProxyTypeOK
    /\ TwoHold \/ (WellLinked /\ BytesAddUp /\ OneBlockPerUri)

(* A response on its way into the cache is the whole of what the server    *)
(* sent and no longer than MAX_OBJECT_SIZE (proxy.c:237-249).              *)
KeptIsWhole ==
    \A t \in Thread : pc[t] \in {"relock", "research", "evict"} =>
        /\ conn[t].size = conn[t].length
        /\ conn[t].size \in 1..MAX_OBJECT_SIZE

(* A thread reads from, writes to and closes its own connections only,     *)
(* whatever descriptors other threads close and main accepts meanwhile;    *)
(* each connection has a descriptor of its own cell (proxy.c:116-123).     *)
DescriptorsAreOwn ==
    \A t \in Thread :
        /\ (pc[t] \notin {"none", "start", "ended", "failed", "unsent", "lost"}
            /\ conn[t].fd # NoFd) => open[conn[t].fd] = ClientOf(t)
        /\ (pc[t] \in {"response", "relock", "research", "evict", "unlockAdd",
                       "closeBoth"}) => open[conn[t].server_fd] = ServerOf(t)

(* What is left of a connection: of one that was answered nothing, neither *)
(* a descriptor nor the cell; of one without a server no descriptor; of    *)
(* one whose request was not written not the client's (proxy.c:187-211).   *)
AnsweredLeavesNothing ==
    \A t \in Thread : \A f \in Fd :
        /\ pc[t] \in {"ended", "failed", "unsent"} => open[f] # ClientOf(t)
        /\ pc[t] \in {"ended", "failed"} => open[f] # ServerOf(t)
        /\ pc[t] = "ended" => cell[t] = FreeCell

(* proxy.c:142: "The file descriptors (client and server) are then         *)
(* closed.", whichever way a thread ends.                                  *)
EndsLeaveNothingOpen ==
    \A t \in Thread : pc[t] \in {"ended", "failed", "unsent"} =>
        \A f \in Fd : open[f] \notin {ClientOf(t), ServerOf(t)}

(* A thread that waits for the lock gets it, unless the lock was reset     *)
(* under a thread, which may leave another asleep on it for ever.          *)
LockIsObtained ==
    \A t \in Thread :
        (pc[t] \in {"lock", "relock"}) ~> (Holds(t) \/ reinit \/ ~Defined)

=============================================================================
