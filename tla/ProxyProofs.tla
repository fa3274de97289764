----------------------------- MODULE ProxyProofs -----------------------------
(* The safety invariants of the proxy's threads and of the cache that they *)
(* share, for every number of connections, descriptors, nodes and lengths  *)
(* of responses.                                                           *)
EXTENDS Proxy, WebCacheProofs

(* Every step is a step of one thread, while the model is defined.         *)
ThreadStep(t) == Accept(t) \/ ThreadNotCreated(t) \/ Computes(t) \/ Waits(t)

(* How a thread's pc moves, and who holds the mutex.                       *)
Answering == {"response", "relock", "research", "evict", "unlockAdd", "closeBoth"}
Asking == {"request", "init", "lock", "lookup", "unlockHit", "forward", "unlockMiss",
           "connect"}

(* pc, the mutex, the descriptors, the cells and doit's variables are of   *)
(* their types, and each thread was given the cell of its connection.      *)
ThreadsTypeOK ==
    /\ MutexTypeOK
    /\ pc \in [Thread -> PC]
    /\ open \in [Fd -> {Closed} \cup ({"client", "server"} \X Thread)]
    /\ cell \in [Thread -> Fd \cup {NoFd, FreeCell}]
    /\ argp = [t \in Thread |-> t]
    /\ conn \in [Thread -> Local]
    /\ \A t \in Thread : pc[t] = "start" => cell[t] # FreeCell

(* send_response_to_client so far: nothing read; all of a response that is *)
(* kept; the first segment, which fills the buffer; or more than fits.     *)
NothingRead(c) == c.got = 0 /\ c.size = 0 /\ c.leftover = MAX_OBJECT_SIZE
AllKept(c) ==
    /\ c.got = c.length /\ c.size = c.length
    /\ c.length \in 1..MAX_OBJECT_SIZE
    /\ c.leftover = MAX_OBJECT_SIZE - c.length
BufferFull(c) ==
    /\ c.got = MAX_OBJECT_SIZE /\ c.size = MAX_OBJECT_SIZE /\ c.leftover = 0
    /\ c.length >= MAX_OBJECT_SIZE
TooLong(c) == c.size = 0 /\ c.leftover = 0 /\ c.got <= c.length

ResponseSoFar ==
    \A t \in Thread :
        /\ pc[t] \in {"none", "start", "lost"} \cup Asking => NothingRead(conn[t])
        /\ pc[t] = "response" => \/ NothingRead(conn[t]) \/ AllKept(conn[t])
                                 \/ BufferFull(conn[t]) \/ TooLong(conn[t])

(* At most one thread holds the mutex, and only while its word is not 0,   *)
(* unless it was reset under a thread; only a thread in                    *)
(* pthread_mutex_lock waits.                                               *)
MutexHeldByOne ==
    /\ ~reinit => \A s, t \in Thread : Holds(s) /\ Holds(t) => s = t
    /\ ~reinit => \A t \in Thread : Holds(t) => word # 0
    /\ \A t \in Thread : waiter[t] # "no" => pc[t] \in {"lock", "relock"}

(* The descriptors open on a thread's connections are the ones it knows.   *)
NoneIs(entry) == \A f \in Fd : open[f] # entry
OnlyIs(f, entry) == \A g \in Fd : open[g] = entry <=> g = f

DescriptorsKnown ==
    \A t \in Thread :
        /\ pc[t] = "none" => NoneIs(ClientOf(t))
        /\ pc[t] = "start" => OnlyIs(cell[t], ClientOf(t))
        /\ pc[t] \in Asking \cup Answering => OnlyIs(conn[t].fd, ClientOf(t))
        /\ pc[t] \in {"none", "start"} \cup Asking => NoneIs(ServerOf(t))
        /\ pc[t] \in Answering => /\ conn[t].server_fd \in Fd
                                  /\ OnlyIs(conn[t].server_fd, ServerOf(t))
        /\ pc[t] = "ended" => /\ NoneIs(ClientOf(t)) /\ NoneIs(ServerOf(t))
                              /\ cell[t] = FreeCell
        /\ pc[t] = "failed" => NoneIs(ClientOf(t)) /\ NoneIs(ServerOf(t))
        /\ pc[t] = "unsent" => NoneIs(ClientOf(t))

ProxyInv ==
    /\ ThreadsTypeOK
    /\ ResponseSoFar
    /\ KeptIsWhole
    /\ MutexHeldByOne
    /\ DescriptorsKnown

-----------------------------------------------------------------------------
(* Types.                                                                  *)

(* What pthread_mutex_lock and its like do keeps the mutex's type.         *)
LEMMA MutexType ==
    ASSUME MutexTypeOK, NEW t \in Thread,
           \/ pthread_mutex_init \/ MutexAcquire(t) \/ MutexSleep(t)
           \/ pthread_mutex_unlock \/ UNCHANGED mutexVars
    PROVE  MutexTypeOK'
  BY DEF MutexTypeOK, pthread_mutex_init, MutexAcquire, MutexSleep,
     pthread_mutex_unlock, mutexVars

(* accept opens a descriptor in the thread's name, or none.                *)
LEMMA AcceptType ==
    ASSUME ThreadsTypeOK, NEW t \in Thread, AcceptInto(t, t)
    PROVE  /\ open' \in [Fd -> {Closed} \cup ({"client", "server"} \X Thread)]
           /\ cell' \in [Thread -> Fd \cup {NoFd, FreeCell}]
           /\ cell'[t] \in Fd \cup {NoFd}
           /\ \A s \in Thread \ {t} : cell'[s] = cell[s]
  BY DEF AcceptInto, ThreadsTypeOK, ClientOf

(* A step of a thread moves its own pc, to a value of its type.            *)
LEMMA PcMoves ==
    ASSUME ThreadsTypeOK, NEW t \in Thread, ThreadStep(t)
    PROVE  /\ pc' \in [Thread -> PC]
           /\ \A s \in Thread \ {t} : pc'[s] = pc[s]
<1> USE DEF ThreadsTypeOK, Goto, PC
<1>1. CASE Accept(t) \/ ThreadNotCreated(t)
  BY <1>1 DEF Accept, ThreadNotCreated
<1>2. CASE ReadArgument(t) \/ InitMutex(t) \/ Lock(t) \/ Unlock(t)
  BY <1>2 DEF ReadArgument, InitMutex, Lock, Unlock
<1>3. CASE Lookup(t) \/ SearchAgain(t) \/ AddToCache(t)
  BY <1>3 DEF Lookup, SearchAgain, AddToCache
<1>4. CASE Forward(t) \/ CloseBoth(t)
  BY <1>4 DEF Forward, CloseBoth
<1>5. CASE Waits(t)
  BY <1>5 DEF Waits, ReadRequest, HeadersOverflow, SendRequestFails, SendRequest,
     ReceiveSegment, ReceiveFails, EndOfResponse
<1>6. QED
  BY <1>1, <1>2, <1>3, <1>4, <1>5 DEF ThreadStep, Computes

(* A step of a thread writes no variable of another thread's doit.         *)
LEMMA LocalsMove ==
    ASSUME ThreadsTypeOK, NEW t \in Thread, ThreadStep(t)
    PROVE  /\ \A s \in Thread \ {t} : conn'[s] = conn[s] /\ cell'[s] = cell[s]
           /\ argp' = argp
<1> USE DEF ThreadsTypeOK
<1>1. CASE Accept(t) \/ ThreadNotCreated(t)
  BY <1>1, AcceptType DEF Accept, ThreadNotCreated
<1>2. CASE ReadArgument(t) \/ InitMutex(t) \/ Lock(t) \/ Unlock(t) \/ Lookup(t)
             \/ SearchAgain(t) \/ AddToCache(t)
  BY <1>2 DEF ReadArgument, InitMutex, Lock, Unlock, Lookup, SearchAgain, AddToCache
<1>3. CASE Forward(t) \/ CloseBoth(t)
  BY <1>3 DEF Forward, CloseBoth
<1>4. CASE Waits(t)
  BY <1>4 DEF Waits, ReadRequest, HeadersOverflow, SendRequestFails, SendRequest,
     ReceiveSegment, ReceiveFails, EndOfResponse
<1>5. QED
  BY <1>1, <1>2, <1>3, <1>4 DEF ThreadStep, Computes

-----------------------------------------------------------------------------
(* The response on its way into the cache.                                 *)

(* What is known of a response after each turn of the loop that reads it.  *)
ReadSoFar(c) == NothingRead(c) \/ AllKept(c) \/ BufferFull(c) \/ TooLong(c)

(* A turn of the loop with the n bytes that rio_readnb gives.              *)
LEMMA SegmentKept ==
    ASSUME NEW c \in Local, ReadSoFar(c), NEW n \in Nat \ {0},
           n = IF c.length - c.got < MAX_OBJECT_SIZE THEN c.length - c.got
                                                    ELSE MAX_OBJECT_SIZE
    PROVE  KeepSegment(c, n) \in Local /\ ReadSoFar(KeepSegment(c, n))
<1> USE DEF ReadSoFar, NothingRead, AllKept, BufferFull, TooLong
<1>1. MAX_OBJECT_SIZE \in Nat \ {0} /\ c.length \in Nat /\ c.got \in Nat
      /\ c.leftover \in Nat /\ c.size \in Nat
  BY LengthAssumption, SizeAssumption DEF Local
<1>2. ~AllKept(c)
  BY <1>1
<1>3. PICK d : d = KeepSegment(c, n)
  OBVIOUS
<1>4. CASE NothingRead(c)
  <2>1. d = [c EXCEPT !.leftover = c.leftover - n,
                      !.size = c.size + n, !.got = c.got + n]
    BY <1>1, <1>3, <1>4 DEF KeepSegment
  <2>2. c.leftover - n \in Nat /\ c.size + n \in Nat /\ c.got + n \in Nat
    BY <1>1, <1>4
  <2>3. d \in Local
    BY <2>1, <2>2 DEF Local
  <2>4. d.got = n /\ d.size = n /\ d.leftover = MAX_OBJECT_SIZE - n /\ d.length = c.length
    BY <1>1, <1>4, <2>1 DEF Local
  <2>5. CASE n = c.length
    BY <1>1, <1>3, <1>4, <2>3, <2>4, <2>5
  <2>6. CASE n = MAX_OBJECT_SIZE
    BY <1>1, <1>3, <1>4, <2>3, <2>4, <2>6
  <2>7. QED
    BY <1>1, <1>4, <2>5, <2>6
<1>5. CASE BufferFull(c) \/ TooLong(c)
  <2>1. d = [c EXCEPT !.size = 0, !.got = c.got + n]
    BY <1>1, <1>3, <1>5 DEF KeepSegment
  <2>2. c.got + n \in Nat
    BY <1>1
  <2>3. d \in Local
    BY <1>1, <2>1, <2>2 DEF Local
  <2>4. d.got = c.got + n /\ d.size = 0 /\ d.leftover = 0 /\ d.length = c.length
    BY <1>1, <1>5, <2>1 DEF Local
  <2>5. c.got + n <= c.length
    BY <1>1, <1>5
  <2>6. QED
    BY <1>3, <2>3, <2>4, <2>5
<1>6. QED
  BY <1>2, <1>4, <1>5

(* doit's variables keep their types, and a response that goes into the    *)
(* cache is whole.                                                         *)
LEMMA ResponseStep ==
    ASSUME ThreadsTypeOK, ResponseSoFar, KeptIsWhole, NEW t \in Thread, ThreadStep(t)
    PROVE  conn' \in [Thread -> Local] /\ ResponseSoFar' /\ KeptIsWhole'
<1> DEFINE Read(s) ==
              /\ pc'[s] \in {"none", "start", "lost"} \cup Asking => NothingRead(conn'[s])
              /\ pc'[s] = "response" => ReadSoFar(conn'[s])
              /\ pc'[s] \in {"relock", "research", "evict"} =>
                    /\ conn'[s].size = conn'[s].length
                    /\ conn'[s].size \in 1..MAX_OBJECT_SIZE
<1>1. /\ conn[t] \in Local /\ conn \in [Thread -> Local] /\ pc \in [Thread -> PC]
      /\ argp[t] = t /\ MAX_OBJECT_SIZE \in Nat \ {0}
  BY LengthAssumption, SizeAssumption DEF ThreadsTypeOK
<1>2. /\ pc[t] \in {"none", "start", "lost"} \cup Asking => NothingRead(conn[t])
      /\ pc[t] = "response" => ReadSoFar(conn[t])
      /\ pc[t] \in {"relock", "research", "evict"} =>
            /\ conn[t].size = conn[t].length
            /\ conn[t].size \in 1..MAX_OBJECT_SIZE
  BY DEF ResponseSoFar, KeptIsWhole, ReadSoFar
<1>3. ASSUME conn' \in [Thread -> Local], Read(t)
      PROVE  conn' \in [Thread -> Local] /\ ResponseSoFar' /\ KeptIsWhole'
  <2>1. ASSUME NEW s \in Thread \ {t} PROVE Read(s)
    <3>1. pc'[s] = pc[s] /\ conn'[s] = conn[s]
      BY PcMoves, LocalsMove
    <3>2. QED
      BY <3>1 DEF ResponseSoFar, KeptIsWhole, ReadSoFar
  <2>2. \A s \in Thread : Read(s)
    BY <1>3, <2>1
  <2>3. QED
    BY <1>3, <2>2 DEF ResponseSoFar, KeptIsWhole, ReadSoFar
<1> USE DEF Goto, Asking
<1>4. CASE Accept(t) \/ ThreadNotCreated(t) \/ InitMutex(t) \/ Lock(t) \/ Lookup(t)
             \/ Unlock(t) \/ Forward(t) \/ SearchAgain(t) \/ AddToCache(t)
             \/ CloseBoth(t) \/ SendRequestFails(t) \/ ReceiveFails(t)
             \/ HeadersOverflow(t)
  <2>1. conn' = conn
    BY <1>4 DEF Accept, ThreadNotCreated, InitMutex, Lock, Lookup, Unlock, Forward,
       SearchAgain, AddToCache, CloseBoth, SendRequestFails, ReceiveFails,
       HeadersOverflow
  <2>2. \/ pc[t] = pc'[t]
        \/ pc[t] \in {"none"} \cup Asking /\ pc'[t] \in {"start", "lost", "ended", "failed", "unsent"} \cup Asking
        \/ pc[t] = "relock" /\ pc'[t] = "research"
        \/ pc[t] = "research" /\ pc'[t] = "evict"
        \/ pc'[t] \in {"closeBoth", "unlockAdd", "ended"}
    <3>1. CASE Accept(t) \/ ThreadNotCreated(t) \/ InitMutex(t) \/ ReceiveFails(t)
                 \/ HeadersOverflow(t)
      BY <1>1, <3>1 DEF Accept, ThreadNotCreated, NextConnection, InitMutex, ReceiveFails,
         HeadersOverflow
    <3>2. CASE Lock(t) \/ Unlock(t)
      BY <1>1, <3>2 DEF Lock, Unlock
    <3>3. CASE Lookup(t) \/ Forward(t) \/ CloseBoth(t) \/ SendRequestFails(t)
      BY <1>1, <3>3 DEF Lookup, Forward, CloseBoth, SendRequestFails
    <3>4. CASE SearchAgain(t) \/ AddToCache(t)
      BY <1>1, <3>4 DEF SearchAgain, AddToCache
    <3>5. QED
      BY <1>4, <3>1, <3>2, <3>3, <3>4
  <2>3. Read(t)
    BY <1>2, <2>1, <2>2
  <2>4. QED
    BY <1>1, <1>3, <2>1, <2>3
<1>5. ASSUME NEW uri \in Uri, ReadRequest(t, uri)
      PROVE  conn' \in [Thread -> Local] /\ Read(t)
  <2>1. /\ pc[t] = "request" /\ pc'[t] = "init"
        /\ conn' = [conn EXCEPT ![t].uri = uri]
    BY <1>1, <1>5 DEF ReadRequest
  <2>2. /\ conn' \in [Thread -> Local]
        /\ conn'[t].size = conn[t].size /\ conn'[t].got = conn[t].got
        /\ conn'[t].leftover = conn[t].leftover
    BY <1>1, <2>1 DEF Local
  <2>3. QED
    BY <1>2, <2>1, <2>2 DEF NothingRead
<1>6. ASSUME ReadArgument(t) PROVE conn' \in [Thread -> Local] /\ Read(t)
  <2>1. /\ pc[t] = "start" /\ pc'[t] = "request"
        /\ conn' = [conn EXCEPT ![t].fd = cell[t]]
        /\ cell[t] \in Fd \cup {NoFd}
    BY <1>1, <1>6 DEF ReadArgument, ThreadsTypeOK
  <2>2. /\ conn' \in [Thread -> Local]
        /\ conn'[t].size = conn[t].size /\ conn'[t].got = conn[t].got
        /\ conn'[t].leftover = conn[t].leftover
    BY <1>1, <2>1 DEF Local
  <2>3. QED
    BY <1>2, <2>1, <2>2 DEF NothingRead
<1>7. ASSUME NEW f \in Fd, NEW length \in Length, SendRequest(t, f, length)
      PROVE  conn' \in [Thread -> Local] /\ Read(t)
  <2>1. /\ pc[t] = "connect" /\ pc'[t] = "response" /\ length \in Nat
        /\ conn' = [conn EXCEPT ![t].server_fd = f, ![t].length = length]
    BY <1>1, <1>7, LengthAssumption DEF SendRequest
  <2>2. /\ conn' \in [Thread -> Local]
        /\ conn'[t].size = conn[t].size /\ conn'[t].got = conn[t].got
        /\ conn'[t].leftover = conn[t].leftover
    BY <1>1, <2>1 DEF Local
  <2>3. QED
    BY <1>2, <2>1, <2>2 DEF NothingRead, ReadSoFar
<1>8. ASSUME ReceiveSegment(t) PROVE conn' \in [Thread -> Local] /\ Read(t)
  <2> DEFINE rest == conn[t].length - conn[t].got
             n == IF rest < MAX_OBJECT_SIZE THEN rest ELSE MAX_OBJECT_SIZE
  <2>1. /\ pc[t] = "response" /\ pc'[t] = "response" /\ n > 0
        /\ conn' = [conn EXCEPT ![t] = KeepSegment(conn[t], n)]
    BY <1>1, <1>8 DEF ReceiveSegment
  <2>2. n \in Nat \ {0}
    BY <1>1, <2>1 DEF Local
  <2>3. KeepSegment(conn[t], n) \in Local /\ ReadSoFar(KeepSegment(conn[t], n))
    BY <1>1, <1>2, <2>1, <2>2, SegmentKept
  <2>4. QED
    BY <1>1, <2>1, <2>3
<1>9. ASSUME EndOfResponse(t) PROVE conn' \in [Thread -> Local] /\ Read(t)
  <2>1. /\ pc[t] = "response" /\ conn' = conn /\ conn[t].got = conn[t].length
        /\ pc'[t] = IF conn[t].size > 0 THEN "relock" ELSE "closeBoth"
    BY <1>1, <1>9 DEF EndOfResponse
  <2>2. conn[t].size > 0 => /\ conn[t].size = conn[t].length
                            /\ conn[t].size \in 1..MAX_OBJECT_SIZE
    BY <1>1, <1>2, <2>1 DEF ReadSoFar, NothingRead, AllKept, BufferFull, TooLong
  <2>3. QED
    BY <1>1, <2>1, <2>2
<1>10. QED
  BY <1>3, <1>4, <1>5, <1>6, <1>7, <1>8, <1>9 DEF ThreadStep, Computes, Waits

(* Everything the threads own or share keeps its type.                     *)
LEMMA ThreadsTypeStep ==
    ASSUME ThreadsTypeOK, ResponseSoFar, KeptIsWhole, NEW t \in Thread, ThreadStep(t)
    PROVE  ThreadsTypeOK'
<1>1. pc' \in [Thread -> PC] /\ \A s \in Thread \ {t} : pc'[s] = pc[s]
  BY PcMoves
<1>2. argp' = argp /\ \A s \in Thread \ {t} : cell'[s] = cell[s]
  BY LocalsMove
<1>3. conn' \in [Thread -> Local]
  BY ResponseStep
<1>4. argp[t] = t
  BY DEF ThreadsTypeOK
<1>5. MutexTypeOK'
  <2>1. CASE pthread_mutex_init \/ MutexAcquire(t) \/ MutexSleep(t)
               \/ pthread_mutex_unlock \/ UNCHANGED mutexVars
    BY <2>1, MutexType DEF ThreadsTypeOK
  <2>2. QED
    BY <2>1 DEF ThreadStep, Computes, Waits, Accept, ThreadNotCreated, ReadArgument,
       InitMutex, Lock, Lookup, Unlock, Forward, SearchAgain, AddToCache, CloseBoth,
       ReadRequest, HeadersOverflow, SendRequestFails, SendRequest, ReceiveSegment,
       ReceiveFails, EndOfResponse
<1>6. open' \in [Fd -> {Closed} \cup ({"client", "server"} \X Thread)]
  <2> USE DEF ThreadsTypeOK
  <2>1. CASE Accept(t) \/ ThreadNotCreated(t)
    BY <2>1, AcceptType DEF Accept, ThreadNotCreated
  <2>2. CASE Forward(t) \/ CloseBoth(t)
    BY <2>2 DEF Forward, CloseBoth, close
  <2>3. CASE SendRequestFails(t)
    <3>. PICK d : d = close(conn[t].fd)
      OBVIOUS
    <3>1. d \in [Fd -> {Closed} \cup ({"client", "server"} \X Thread)]
      BY DEF close
    <3>2. ServerOf(t) \in {Closed} \cup ({"client", "server"} \X Thread)
      BY DEF ServerOf
    <3>3. open' = d \/ \E f \in Fd : open' = [d EXCEPT ![f] = ServerOf(t)]
      BY <2>3 DEF SendRequestFails
    <3>4. QED
      BY <3>1, <3>2, <3>3
  <2>4. CASE \E f \in Fd, length \in Length : SendRequest(t, f, length)
    BY <2>4 DEF SendRequest, ServerOf
  <2>5. CASE UNCHANGED open
    BY <2>5
  <2>6. QED
    BY <2>1, <2>2, <2>3, <2>4, <2>5 DEF ThreadStep, Computes, Waits, ReadArgument,
       InitMutex, Lock, Lookup, Unlock, SearchAgain, AddToCache, ReadRequest,
       HeadersOverflow, ReceiveSegment, ReceiveFails, EndOfResponse
<1>7. /\ cell' \in [Thread -> Fd \cup {NoFd, FreeCell}]
      /\ pc'[t] = "start" => cell'[t] # FreeCell
  <2> USE DEF ThreadsTypeOK, Goto
  <2>1. CASE Accept(t) \/ ThreadNotCreated(t)
    BY <2>1, AcceptType, FdAssumption DEF Accept, ThreadNotCreated
  <2>2. CASE Forward(t) \/ CloseBoth(t)
    BY <2>2 DEF Forward, CloseBoth
  <2>3. CASE UNCHANGED cell /\ pc'[t] # "start"
    BY <2>3
  <2>4. CASE ReadArgument(t) \/ InitMutex(t) \/ Lock(t) \/ Lookup(t) \/ Unlock(t)
               \/ SearchAgain(t) \/ AddToCache(t)
    BY <2>3, <2>4 DEF ReadArgument, InitMutex, Lock, Lookup, Unlock, SearchAgain, AddToCache
  <2>5. CASE Waits(t)
    BY <2>3, <2>5 DEF Waits, ReadRequest, HeadersOverflow, SendRequestFails, SendRequest,
       ReceiveSegment, ReceiveFails, EndOfResponse
  <2>6. QED
    BY <2>1, <2>2, <2>4, <2>5 DEF ThreadStep, Computes
<1>8. QED
  BY <1>1, <1>2, <1>3, <1>5, <1>6, <1>7 DEF ThreadsTypeOK

-----------------------------------------------------------------------------
(* The mutex.                                                              *)

(* Only pthread_mutex_init, lock and unlock touch the mutex, and a thread  *)
(* starts or stops holding it in lock and unlock only.                     *)
LEMMA HoldersMove ==
    ASSUME ThreadsTypeOK, NEW t \in Thread, ThreadStep(t),
           ~(InitMutex(t) \/ Lock(t) \/ Unlock(t))
    PROVE  /\ UNCHANGED <<word, waiter, reinit>>
           /\ Holds(t)' <=> Holds(t)
           /\ pc[t] \in {"lock", "relock"} => pc'[t] = pc[t]
<1> USE DEF ThreadsTypeOK, Goto, Holds, mutexVars, settled
<1>1. CASE Accept(t) \/ ThreadNotCreated(t)
  BY <1>1 DEF Accept, ThreadNotCreated, NextConnection
<1>2. CASE ReadArgument(t) \/ Forward(t) \/ CloseBoth(t)
  BY <1>2 DEF ReadArgument, Forward, CloseBoth
<1>3. CASE Lookup(t)
  BY <1>3 DEF Lookup
<1>4. CASE SearchAgain(t) \/ AddToCache(t)
  BY <1>4 DEF SearchAgain, AddToCache
<1>5. CASE HeadersOverflow(t) \/ \E uri \in Uri : ReadRequest(t, uri)
  BY <1>5 DEF ReadRequest, HeadersOverflow
<1>6. CASE SendRequestFails(t) \/ \E f \in Fd, length \in Length : SendRequest(t, f, length)
  BY <1>6 DEF SendRequestFails, SendRequest
<1>7. CASE ReceiveSegment(t) \/ ReceiveFails(t) \/ EndOfResponse(t)
  BY <1>7 DEF ReceiveSegment, ReceiveFails, EndOfResponse
<1>8. QED
  BY <1>1, <1>2, <1>3, <1>4, <1>5, <1>6, <1>7 DEF ThreadStep, Computes, Waits

(* The mutex is held by one thread at most, unless it was reset under one. *)
LEMMA MutexStep ==
    ASSUME ThreadsTypeOK, MutexHeldByOne, NEW t \in Thread, ThreadStep(t)
    PROVE  MutexHeldByOne'
<1>1. \A s \in Thread \ {t} : pc'[s] = pc[s]
  BY PcMoves
<1>2. \A s \in Thread \ {t} : Holds(s)' <=> Holds(s)
  BY <1>1 DEF Holds
<1>3. pc \in [Thread -> PC] /\ waiter \in [Thread -> {"no", "asleep", "woken"}]
  BY DEF ThreadsTypeOK, MutexTypeOK
<1>4. CASE InitMutex(t)
  <2>1. /\ pc[t] = "init" /\ pc'[t] = "lock" /\ waiter' = waiter
        /\ reinit' = (reinit \/ \E s \in Thread \ {t} : Holds(s) \/ waiter[s] # "no")
    BY <1>3, <1>4 DEF InitMutex, Goto, pthread_mutex_init
  <2>2. ~Holds(t)'
    BY <2>1 DEF Holds
  <2>3. ~reinit' => \A s \in Thread : ~Holds(s)'
    BY <1>2, <2>1, <2>2
  <2>4. QED
    BY <1>1, <2>1, <2>3 DEF MutexHeldByOne
<1>5. CASE Lock(t)
  <2>1. CASE MutexAcquire(t) /\ pc'[t] \in {"lookup", "research"}
    <3>1. /\ word = 0 /\ word' # 0 /\ reinit' = reinit
          /\ waiter' = [waiter EXCEPT ![t] = "no"]
      BY <1>5, <2>1 DEF Lock, MutexAcquire, settled
    <3>2. ~reinit => \A s \in Thread : ~Holds(s)
      BY <3>1 DEF MutexHeldByOne
    <3>3. waiter'[t] = "no" /\ \A s \in Thread \ {t} : waiter'[s] = waiter[s]
      BY <1>3, <3>1
    <3>4. \A s \in Thread : waiter'[s] # "no" => pc'[s] \in {"lock", "relock"}
      BY <1>1, <3>3 DEF MutexHeldByOne
    <3>5. QED
      BY <1>2, <3>1, <3>2, <3>4 DEF MutexHeldByOne
  <2>2. CASE MutexSleep(t) /\ pc' = pc /\ pc[t] \in {"lock", "relock"}
    <3>1. /\ word # 0 /\ word' # 0 /\ reinit' = reinit
          /\ waiter' = [waiter EXCEPT ![t] = "asleep"]
      BY <1>5, <2>2 DEF Lock, MutexSleep, settled
    <3>2. \A s \in Thread \ {t} : waiter'[s] = waiter[s]
      BY <1>3, <3>1
    <3>3. QED
      BY <2>2, <3>1, <3>2 DEF MutexHeldByOne, Holds
  <2>3. QED
    BY <1>3, <1>5, <2>1, <2>2 DEF Lock, Goto
<1>6. CASE Unlock(t)
  <2>1. /\ pc[t] \in {"unlockHit", "unlockMiss", "unlockAdd"}
        /\ pc'[t] \in {"forward", "connect", "closeBoth"} /\ reinit' = reinit
    BY <1>3, <1>6 DEF Unlock, Goto, settled
  <2>2. Holds(t) /\ ~Holds(t)'
    BY <2>1 DEF Holds
  <2>3. ~reinit => \A s \in Thread : ~Holds(s)'
    BY <1>2, <2>2 DEF MutexHeldByOne
  <2>4. \A s \in Thread : waiter'[s] # "no" => waiter[s] # "no"
    <3>1. CASE waiter' = waiter
      BY <3>1
    <3>2. ASSUME NEW s \in Thread, waiter[s] = "asleep",
                 waiter' = [waiter EXCEPT ![s] = "woken"]
          PROVE  \A r \in Thread : waiter'[r] # "no" => waiter[r] # "no"
      BY <1>3, <3>2
    <3>3. QED
      BY <1>6, <3>1, <3>2 DEF Unlock, pthread_mutex_unlock
  <2>5. pc[t] \notin {"lock", "relock"}
    BY <2>1
  <2>6. \A s \in Thread : waiter'[s] # "no" => pc'[s] \in {"lock", "relock"}
    BY <1>1, <2>4, <2>5 DEF MutexHeldByOne
  <2>7. QED
    BY <2>1, <2>3, <2>6 DEF MutexHeldByOne
<1>7. CASE ~(InitMutex(t) \/ Lock(t) \/ Unlock(t))
  <2>1. /\ UNCHANGED <<word, waiter, reinit>>
        /\ Holds(t)' <=> Holds(t)
        /\ pc[t] \in {"lock", "relock"} => pc'[t] = pc[t]
    BY <1>7, HoldersMove
  <2>2. QED
    BY <1>1, <1>2, <2>1 DEF MutexHeldByOne
<1>8. QED
  BY <1>4, <1>5, <1>6, <1>7

-----------------------------------------------------------------------------
(* Descriptors and cells.                                                  *)

(* accept gives a thread a descriptor that was closed, or none.            *)
LEMMA AcceptEffect ==
    ASSUME ThreadsTypeOK, NEW t \in Thread, AcceptInto(t, t)
    PROVE  \/ open' = open /\ cell'[t] = NoFd
           \/ \E f \in Fd : /\ open[f] = Closed /\ open'[f] = ClientOf(t)
                            /\ cell'[t] = f
                            /\ \A g \in Fd \ {f} : open'[g] = open[g]
  BY DEF AcceptInto, NewFd, ThreadsTypeOK

(* A request that fails closes the client's descriptor, and may leave a    *)
(* server's open in a place that was closed.                               *)
LEMMA SendRequestFailsEffect ==
    ASSUME ThreadsTypeOK, DescriptorsKnown, NEW t \in Thread, SendRequestFails(t)
    PROVE  \A g \in Fd : \/ g # conn[t].fd /\ open'[g] = open[g]
                         \/ g = conn[t].fd /\ open'[g] = Closed
                         \/ open[g] = Closed /\ open'[g] = ServerOf(t)
<1>1. CASE open' = close(conn[t].fd)
  BY <1>1 DEF close
<1>2. ASSUME NEW f \in Fd, NewFd(f), open' = [close(conn[t].fd) EXCEPT ![f] = ServerOf(t)]
      PROVE  \A g \in Fd : \/ g # conn[t].fd /\ open'[g] = open[g]
                           \/ g = conn[t].fd /\ open'[g] = Closed
                           \/ open[g] = Closed /\ open'[g] = ServerOf(t)
  BY <1>2 DEF close, NewFd
<1>3. QED
  BY <1>1, <1>2 DEF SendRequestFails

(* A step of a thread opens and closes descriptors of its own connections  *)
(* only.                                                                   *)
LEMMA OpenMoves ==
    ASSUME ThreadsTypeOK, DescriptorsKnown, NEW t \in Thread, ThreadStep(t)
    PROVE  \A f \in Fd : \/ open'[f] = open[f]
                         \/ /\ open[f] \in {Closed, ClientOf(t), ServerOf(t)}
                            /\ open'[f] \in {Closed, ClientOf(t), ServerOf(t)}
<1>1. CASE Accept(t) \/ ThreadNotCreated(t)
  BY <1>1, AcceptEffect DEF Accept, ThreadNotCreated
<1>2. CASE Forward(t) \/ CloseBoth(t)
  <2>1. /\ pc[t] \in Asking \cup Answering
        /\ pc[t] = "closeBoth" => pc[t] \in Answering
    BY <1>2 DEF Forward, CloseBoth, Asking, Answering
  <2>2. /\ \A f \in Fd : f = conn[t].fd => open[f] = ClientOf(t)
        /\ pc[t] = "closeBoth" => \A f \in Fd : f = conn[t].server_fd => open[f] = ServerOf(t)
    BY <2>1 DEF DescriptorsKnown, OnlyIs
  <2>3. QED
    BY <1>2, <2>2 DEF Forward, CloseBoth, close
<1>3. CASE SendRequestFails(t)
  <2>1. pc[t] \in Asking
    BY <1>3 DEF SendRequestFails, Asking
  <2>2. \A f \in Fd : f = conn[t].fd => open[f] = ClientOf(t)
    BY <2>1 DEF DescriptorsKnown, OnlyIs
  <2>3. QED
    BY <1>3, <2>2, SendRequestFailsEffect
<1>4. CASE \E f \in Fd, length \in Length : SendRequest(t, f, length)
  BY <1>4 DEF SendRequest, NewFd, ThreadsTypeOK
<1>5. CASE UNCHANGED open
  BY <1>5
<1>6. QED
  BY <1>1, <1>2, <1>3, <1>4, <1>5 DEF ThreadStep, Computes, Waits, ReadArgument,
     InitMutex, Lock, Lookup, Unlock, SearchAgain, AddToCache, ReadRequest,
     HeadersOverflow, ReceiveSegment, ReceiveFails, EndOfResponse

(* What DescriptorsKnown says of one thread.                               *)
KnownTo(t) ==
    /\ pc[t] = "none" => NoneIs(ClientOf(t))
    /\ pc[t] = "start" => OnlyIs(cell[t], ClientOf(t))
    /\ pc[t] \in Asking \cup Answering => OnlyIs(conn[t].fd, ClientOf(t))
    /\ pc[t] \in {"none", "start"} \cup Asking => NoneIs(ServerOf(t))
    /\ pc[t] \in Answering => /\ conn[t].server_fd \in Fd
                              /\ OnlyIs(conn[t].server_fd, ServerOf(t))
    /\ pc[t] = "ended" => /\ NoneIs(ClientOf(t)) /\ NoneIs(ServerOf(t))
                          /\ cell[t] = FreeCell
    /\ pc[t] = "failed" => NoneIs(ClientOf(t)) /\ NoneIs(ServerOf(t))
    /\ pc[t] = "unsent" => NoneIs(ClientOf(t))

(* Another thread's step takes nothing from what a thread knows.           *)
LEMMA KnownToOthers ==
    ASSUME ThreadsTypeOK, DescriptorsKnown, NEW t \in Thread, ThreadStep(t),
           NEW s \in Thread \ {t}
    PROVE  KnownTo(s)'
<1>1. pc'[s] = pc[s] /\ conn'[s] = conn[s] /\ cell'[s] = cell[s]
  BY PcMoves, LocalsMove
<1>2. /\ ClientOf(s) \notin {Closed, ClientOf(t), ServerOf(t)}
      /\ ServerOf(s) \notin {Closed, ClientOf(t), ServerOf(t)}
  BY DEF Closed, ClientOf, ServerOf
<1>3. \A f \in Fd : /\ open'[f] = ClientOf(s) <=> open[f] = ClientOf(s)
                    /\ open'[f] = ServerOf(s) <=> open[f] = ServerOf(s)
  BY <1>2, OpenMoves
<1>4. KnownTo(s)
  BY DEF DescriptorsKnown, KnownTo
<1>5. ClientOf(s)' = ClientOf(s) /\ ServerOf(s)' = ServerOf(s)
  BY DEF ClientOf, ServerOf
<1>6. QED
  BY <1>1, <1>3, <1>4, <1>5 DEF KnownTo, NoneIs, OnlyIs

(* A thread's own step leaves it knowing its descriptors.                  *)
LEMMA KnownToItself ==
    ASSUME ThreadsTypeOK, DescriptorsKnown, NEW t \in Thread, ThreadStep(t)
    PROVE  KnownTo(t)'
<1>1. /\ pc \in [Thread -> PC] /\ conn \in [Thread -> Local] /\ argp[t] = t
      /\ cell \in [Thread -> Fd \cup {NoFd, FreeCell}]
      /\ open \in [Fd -> {Closed} \cup ({"client", "server"} \X Thread)]
  BY DEF ThreadsTypeOK
<1>2. KnownTo(t)
  BY DEF DescriptorsKnown, KnownTo
<1>3. Closed # ClientOf(t) /\ Closed # ServerOf(t) /\ ClientOf(t) # ServerOf(t)
  BY DEF Closed, ClientOf, ServerOf
<1> DEFINE C == ClientOf(t)
           S == ServerOf(t)
<1>4. ClientOf(t)' = C /\ ServerOf(t)' = S
  BY DEF ClientOf, ServerOf
<1> USE DEF Goto, Asking, Answering, KnownTo, NoneIs, OnlyIs
<1>5. CASE Accept(t) \/ ThreadNotCreated(t)
  <2>1. pc[t] = "none" /\ pc'[t] \in {"start", "lost"} /\ AcceptInto(t, t)
    BY <1>1, <1>5 DEF Accept, ThreadNotCreated, NextConnection
  <2>2. CASE open' = open /\ cell'[t] = NoFd
    BY <1>2, <1>4, <2>1, <2>2, FdAssumption
  <2>3. ASSUME NEW f \in Fd, open[f] = Closed, open'[f] = C, cell'[t] = f,
               \A g \in Fd \ {f} : open'[g] = open[g]
        PROVE  KnownTo(t)'
    BY <1>2, <1>3, <1>4, <2>1, <2>3
  <2>4. QED
    BY <2>1, <2>2, <2>3, AcceptEffect
<1>6. CASE Forward(t) \/ CloseBoth(t)
  <2>1. cell'[t] = FreeCell /\ pc'[t] = "ended"
    BY <1>1, <1>6 DEF Forward, CloseBoth
  <2>2. CASE Forward(t)
    <3>1. \A f \in Fd : open'[f] = IF f = conn[t].fd THEN Closed ELSE open[f]
      BY <2>2 DEF Forward, close
    <3>2. QED
      BY <1>2, <1>3, <1>4, <2>1, <2>2, <3>1 DEF Forward
  <2>3. CASE CloseBoth(t)
    <3>1. \A f \in Fd : open'[f] = IF f \in {conn[t].fd, conn[t].server_fd}
                                   THEN Closed ELSE open[f]
      BY <2>3 DEF CloseBoth
    <3>2. QED
      BY <1>2, <1>3, <1>4, <2>1, <2>3, <3>1 DEF CloseBoth
  <2>4. QED
    BY <1>6, <2>2, <2>3
<1>7. CASE SendRequestFails(t)
  <2>1. pc[t] = "connect" /\ pc'[t] \in {"failed", "unsent"}
    BY <1>1, <1>7 DEF SendRequestFails
  <2>2. \A g \in Fd : open'[g] = C => g # conn[t].fd /\ open[g] = C
    BY <1>3, <1>7, SendRequestFailsEffect
  <2>3. /\ \A g \in Fd : open[g] = C => g = conn[t].fd
        /\ \A g \in Fd : open[g] # S
    BY <1>2, <2>1
  <2>4. \A g \in Fd : open'[g] # C
    BY <2>2, <2>3
  <2>5. pc'[t] = "failed" => open' = close(conn[t].fd)
    BY <1>1, <1>7 DEF SendRequestFails
  <2>6. pc'[t] = "failed" => \A g \in Fd : open'[g] # S
    BY <1>3, <2>3, <2>5 DEF close
  <2>7. QED
    BY <1>4, <2>1, <2>4, <2>6
<1>8. CASE \E f \in Fd, length \in Length : SendRequest(t, f, length)
  <2>1. PICK f \in Fd : /\ pc[t] = "connect" /\ pc'[t] = "response"
                        /\ open[f] = Closed /\ open' = [open EXCEPT ![f] = S]
                        /\ \E length \in Length :
                              conn' = [conn EXCEPT ![t].server_fd = f, ![t].length = length]
    BY <1>1, <1>8 DEF SendRequest, NewFd
  <2>2. conn'[t].server_fd = f /\ conn'[t].fd = conn[t].fd
    BY <1>1, <2>1 DEF Local
  <2>3. open'[f] = S /\ \A g \in Fd \ {f} : open'[g] = open[g]
    BY <1>1, <2>1
  <2>4. QED
    BY <1>2, <1>3, <1>4, <2>1, <2>2, <2>3
<1>9. CASE ReadArgument(t)
  <2>1. pc[t] = "start" /\ pc'[t] = "request" /\ open' = open /\ conn'[t].fd = cell[t]
    BY <1>1, <1>9 DEF ReadArgument, Local
  <2>2. QED
    BY <1>2, <1>4, <2>1
<1>10. ASSUME open' = open, conn'[t].fd = conn[t].fd,
              conn'[t].server_fd = conn[t].server_fd,
              \/ pc'[t] = pc[t] /\ cell' = cell
              \/ pc[t] \in Asking /\ pc'[t] \in Asking
              \/ pc[t] \in Answering /\ pc'[t] \in Answering
       PROVE  KnownTo(t)'
  BY <1>2, <1>4, <1>10
<1>11. CASE \E uri \in Uri : ReadRequest(t, uri)
  <2>1. conn'[t].fd = conn[t].fd /\ conn'[t].server_fd = conn[t].server_fd
    BY <1>1, <1>11 DEF ReadRequest, Local
  <2>2. QED
    BY <1>1, <1>10, <1>11, <2>1 DEF ReadRequest
<1>12. CASE ReceiveSegment(t)
  <2>1. \A c \in Local : \A n :
            /\ KeepSegment(c, n).fd = c.fd
            /\ KeepSegment(c, n).server_fd = c.server_fd
    BY DEF KeepSegment, Local
  <2>2. /\ open' = open /\ pc' = pc /\ cell' = cell
        /\ \E n : conn' = [conn EXCEPT ![t] = KeepSegment(conn[t], n)]
    BY <1>12 DEF ReceiveSegment
  <2>3. conn'[t].fd = conn[t].fd /\ conn'[t].server_fd = conn[t].server_fd
    BY <1>1, <2>1, <2>2
  <2>4. QED
    BY <1>10, <2>2, <2>3
<1>13. CASE InitMutex(t) \/ ReceiveFails(t) \/ EndOfResponse(t)
             \/ HeadersOverflow(t)
  BY <1>1, <1>10, <1>13 DEF InitMutex, ReceiveFails, EndOfResponse,
     HeadersOverflow
<1>14. CASE Lock(t) \/ Unlock(t)
  BY <1>1, <1>10, <1>14 DEF Lock, Unlock
<1>15. CASE Lookup(t) \/ SearchAgain(t) \/ AddToCache(t)
  BY <1>1, <1>10, <1>15 DEF Lookup, SearchAgain, AddToCache
<1>16. QED
  BY <1>5, <1>6, <1>7, <1>8, <1>9, <1>11, <1>12, <1>13, <1>14, <1>15
     DEF ThreadStep, Computes, Waits

(* Every step leaves the threads knowing their descriptors.                *)
LEMMA DescriptorsStep ==
    ASSUME ThreadsTypeOK, DescriptorsKnown, NEW t \in Thread, ThreadStep(t)
    PROVE  DescriptorsKnown'
<1>1. \A s \in Thread : KnownTo(s)'
  BY KnownToOthers, KnownToItself
<1>2. QED
  BY <1>1 DEF DescriptorsKnown, KnownTo

-----------------------------------------------------------------------------
(* The invariant.                                                          *)

(* ProxyInv holds when the proxy starts.                                   *)
LEMMA ProxyInvInit == Init => ProxyInv
<1> SUFFICES ASSUME Init PROVE ProxyInv
  OBVIOUS
<1>1. \A t \in Thread : pc[t] = "none" /\ conn[t] = Unset /\ waiter[t] = "no"
  BY DEF Init, MutexZero
<1>2. MAX_OBJECT_SIZE \in Nat
  BY LengthAssumption, SizeAssumption
<1>3. Unset \in Local /\ NothingRead(Unset)
  BY <1>2 DEF Unset, Local, NothingRead
<1>4. ThreadsTypeOK
  BY <1>3 DEF Init, MutexZero, ThreadsTypeOK, MutexTypeOK, PC
<1>5. ResponseSoFar /\ KeptIsWhole
  BY <1>1, <1>3 DEF ResponseSoFar, KeptIsWhole
<1>6. MutexHeldByOne
  BY <1>1 DEF MutexHeldByOne, Holds
<1>7. DescriptorsKnown
  <2>1. \A f \in Fd : open[f] = Closed
    BY DEF Init
  <2>2. QED
    BY <1>1, <2>1 DEF DescriptorsKnown, NoneIs, Closed, ClientOf, ServerOf, Asking, Answering
<1>8. QED
  BY <1>4, <1>5, <1>6, <1>7 DEF ProxyInv

(* ProxyInv is inductive.                                                  *)
LEMMA ProxyInvStep == ProxyInv /\ [Next]_vars => ProxyInv'
<1> SUFFICES ASSUME ProxyInv, [Next]_vars PROVE ProxyInv'
  OBVIOUS
<1> USE DEF ProxyInv
<1>1. CASE Next
  <2>1. PICK t \in Thread : ThreadStep(t)
    BY <1>1 DEF Next, ThreadStep
  <2>2. QED
    BY <2>1, ThreadsTypeStep, ResponseStep, MutexStep, DescriptorsStep
<1>2. CASE UNCHANGED vars
  BY <1>2 DEF vars, mutexVars, proxyVars, ThreadsTypeOK, MutexTypeOK, ResponseSoFar,
     KeptIsWhole, MutexHeldByOne, Holds, DescriptorsKnown, NoneIs, OnlyIs
<1>3. QED
  BY <1>1, <1>2

(* ProxyInv holds in every state (doit, thread and main of proxy.c).       *)
THEOREM ProxyInvariant == Spec => []ProxyInv
  BY ProxyInvInit, ProxyInvStep, PTL DEF Spec

(* One thread at most is between lock and unlock, unless the mutex was     *)
(* initialised while another thread used it.                               *)
THEOREM LockExcludesOtherwise == Spec => []LockExcludesUnlessReinit
<1>1. ProxyInv => LockExcludesUnlessReinit
  BY DEF ProxyInv, MutexHeldByOne, LockExcludesUnlessReinit, TwoHold
<1>2. QED
  BY <1>1, ProxyInvariant, PTL

(* What goes into the cache is the whole of a response that fits.          *)
THEOREM KeptResponsesAreWhole == Spec => []KeptIsWhole
<1>1. ProxyInv => KeptIsWhole
  BY DEF ProxyInv
<1>2. QED
  BY <1>1, ProxyInvariant, PTL

(* A thread uses and closes the descriptors of its own connections only.   *)
THEOREM ThreadsUseOwnDescriptors == Spec => []DescriptorsAreOwn
<1>1. ProxyInv => DescriptorsAreOwn
  <2> SUFFICES ASSUME ProxyInv PROVE DescriptorsAreOwn
    OBVIOUS
  <2>1. \A t \in Thread : pc[t] \in PC /\ conn[t].fd \in Fd \cup {NoFd}
    BY DEF ProxyInv, ThreadsTypeOK, Local
  <2>2. QED
    BY <2>1 DEF ProxyInv, DescriptorsKnown, OnlyIs, DescriptorsAreOwn, PC, Asking, Answering
<1>2. QED
  BY <1>1, ProxyInvariant, PTL

(* An answered connection leaves neither a descriptor nor a cell behind, a *)
(* connection without a server no descriptor, and one whose request was    *)
(* not written none of the client's.                                       *)
THEOREM AnsweredIsClosed == Spec => []AnsweredLeavesNothing
<1>1. ProxyInv => AnsweredLeavesNothing
  BY DEF ProxyInv, DescriptorsKnown, NoneIs, AnsweredLeavesNothing
<1>2. QED
  BY <1>1, ProxyInvariant, PTL

-----------------------------------------------------------------------------
(* The cache that the threads share.  While the lock excludes, the thread  *)
(* between its second lookup and its insertion is alone with the list, so  *)
(* what that lookup missed is still missing when the block is added.       *)

(* Who has read a request has a URI.                                       *)
HasUri == {"init", "lock", "lookup", "unlockHit", "forward", "unlockMiss",
           "connect", "failed", "unsent"} \cup Answering

SharedInv ==
    /\ CacheInv
    /\ time_count \in Nat
    /\ \A t \in Thread : pc[t] \in HasUri => conn[t].uri \in Uri
    /\ \A t \in Thread : pc[t] = "evict" => \A k \in List : block[k].uri # conn[t].uri

(* A thread's URI is the one of its request from there on.                 *)
LEMMA UriStep ==
    ASSUME ThreadsTypeOK, NEW t \in Thread, ThreadStep(t)
    PROVE  /\ pc'[t] \in HasUri =>
                \/ conn'[t].uri \in Uri
                \/ pc[t] \in HasUri /\ conn'[t].uri = conn[t].uri
           /\ pc'[t] = "evict" => pc[t] \in {"research", "evict"} /\ conn' = conn
<1> USE DEF Goto, HasUri, Answering
<1>1. pc \in [Thread -> PC] /\ conn \in [Thread -> Local]
  BY DEF ThreadsTypeOK
<1>2. CASE Accept(t) \/ ThreadNotCreated(t)
  BY <1>1, <1>2 DEF Accept, ThreadNotCreated
<1>3. CASE ReadArgument(t)
  BY <1>1, <1>3 DEF ReadArgument
<1>4. CASE InitMutex(t) \/ Lock(t) \/ Unlock(t)
  BY <1>1, <1>4 DEF InitMutex, Lock, Unlock
<1>5. CASE Lookup(t) \/ SearchAgain(t) \/ AddToCache(t)
  BY <1>1, <1>5 DEF Lookup, SearchAgain, AddToCache
<1>6. CASE Forward(t) \/ CloseBoth(t)
  BY <1>1, <1>6 DEF Forward, CloseBoth
<1>7. ASSUME NEW uri \in Uri, ReadRequest(t, uri)
      PROVE  conn'[t].uri \in Uri /\ pc'[t] = "init"
  BY <1>1, <1>7 DEF ReadRequest, Local
<1>8. CASE SendRequestFails(t) \/ ReceiveFails(t) \/ EndOfResponse(t)
             \/ HeadersOverflow(t)
  BY <1>1, <1>8 DEF SendRequestFails, ReceiveFails, EndOfResponse,
     HeadersOverflow
<1>9. ASSUME NEW f \in Fd, NEW length \in Length, SendRequest(t, f, length)
      PROVE  pc[t] \in HasUri /\ conn'[t].uri = conn[t].uri /\ pc'[t] = "response"
  BY <1>1, <1>9 DEF SendRequest, Local
<1>10. CASE ReceiveSegment(t)
  <2>1. \A c \in Local : \A n : KeepSegment(c, n).uri = c.uri
    BY DEF KeepSegment, Local
  <2>2. /\ pc[t] = "response" /\ pc' = pc
        /\ \E n : conn' = [conn EXCEPT ![t] = KeepSegment(conn[t], n)]
    BY <1>10 DEF ReceiveSegment
  <2>3. QED
    BY <1>1, <2>1, <2>2
<1>11. QED
  BY <1>2, <1>3, <1>4, <1>5, <1>6, <1>7, <1>8, <1>9, <1>10
     DEF ThreadStep, Computes, Waits

(* What a thread does to the cache: it holds the lock and makes a block    *)
(* young, evicts one or adds the block that is missing; or it changes      *)
(* nothing.                                                                *)
LEMMA CacheStep ==
    ASSUME ProxyInv, SharedInv, NEW t \in Thread, ThreadStep(t)
    PROVE  /\ CacheInv' /\ time_count' \in Nat
           /\ \/ List' = List /\ \A k \in List : block'[k].uri = block[k].uri
              \/ Holds(t)
           /\ pc'[t] = "evict" => \A k \in List' : block'[k].uri # conn[t].uri
<1>1. /\ CacheInv /\ ListIsWhole /\ time_count \in Nat /\ pc \in [Thread -> PC]
      /\ pc[t] = "evict" => \A k \in List : block[k].uri # conn[t].uri
  BY ListIsAllocated DEF SharedInv, CacheInv, ProxyInv, ThreadsTypeOK
<1>2. PICK uri : uri = conn[t].uri
  OBVIOUS
<1>3. CASE Lookup(t) /\ search_cache(uri) # NULL
  <2>1. /\ pc[t] = "lookup" /\ pc'[t] = "unlockHit" /\ time_count' = time_count + 1
        /\ read_response(search_cache(uri), time_count')
    BY <1>1, <1>2, <1>3 DEF Lookup, Goto
  <2>2. time_count' \in Nat
    BY <1>1, <2>1
  <2>3. PICK n \in Node : read_response(n, time_count')
    <3>1. search_cache(uri) \in List
      BY <1>1, <1>3, MissMeansAbsent
    <3>2. QED
      BY <1>1, <2>1, <3>1 DEF ListIsWhole
  <2>4. CacheInv' /\ List' = List /\ \A k \in Node : block'[k].uri = block[k].uri
    BY <1>1, <2>2, <2>3, ReadKeeps
  <2>5. QED
    BY <1>1, <2>1, <2>2, <2>4 DEF Holds
<1>4. CASE SearchAgain(t) /\ search_cache(uri) = NULL
  <2>1. UNCHANGED cacheVars /\ time_count' = time_count + 1
    BY <1>2, <1>4 DEF SearchAgain
  <2>2. CacheInv' /\ List' = List /\ block' = block
    BY <1>1, <2>1, CacheInvStays
  <2>3. \A k \in List : block[k].uri # uri
    BY <1>1, <1>4, MissMeansAbsent
  <2>4. QED
    BY <1>1, <1>2, <2>1, <2>2, <2>3
<1>5. CASE AddToCache(t) /\ MustEvict(conn[t].size)
  <2>1. evict_block /\ time_count' = time_count /\ pc[t] = "evict"
    BY <1>5 DEF AddToCache
  <2>2. CacheInv' /\ List' \in SUBSET List /\ \A k \in List' : block'[k].uri = block[k].uri
    BY <1>1, <2>1, EvictKeeps
  <2>3. QED
    BY <1>1, <2>1, <2>2 DEF Holds
<1>6. CASE AddToCache(t) /\ ~MustEvict(conn[t].size)
  <2>1. PICK n \in Node : insert_block(n, conn[t].uri, conn[t].size, time_count)
    BY <1>6 DEF AddToCache
  <2>2. pc[t] = "evict" /\ pc'[t] = "unlockAdd" /\ time_count' = time_count
    BY <1>1, <1>6 DEF AddToCache, Goto
  <2>3. conn[t].uri \in Uri /\ conn[t].size \in Nat
    BY <2>2 DEF SharedInv, HasUri, Answering, ProxyInv, ThreadsTypeOK, Local
  <2>4. PICK size \in Nat : size = conn[t].size
    BY <2>3
  <2>5. uri \in Uri /\ insert_block(n, uri, size, time_count) /\ ~MustEvict(size)
    BY <1>2, <1>6, <2>1, <2>3, <2>4
  <2>6. CacheInv'
    BY <1>1, <1>2, <2>2, <2>5, InsertKeeps
  <2>7. QED
    BY <1>1, <2>2, <2>6 DEF Holds
<1>7. CASE UNCHANGED <<cacheVars, time_count>>
  <2>1. CacheInv' /\ List' = List /\ block' = block
    BY <1>1, <1>7, CacheInvStays
  <2>2. CASE ~SearchAgain(t)
    <3>1. pc'[t] = "evict" => pc[t] = "evict"
      BY <1>1, <2>2 DEF ThreadStep, Computes, Waits, Goto, Accept, ThreadNotCreated,
         ReadArgument, InitMutex, Lock, Lookup, Unlock, Forward, AddToCache, CloseBoth,
         ReadRequest, HeadersOverflow, SendRequestFails, SendRequest, ReceiveSegment,
         ReceiveFails, EndOfResponse
    <3>2. QED
      BY <1>1, <1>7, <2>1, <3>1
  <2>3. CASE SearchAgain(t) /\ search_cache(uri) # NULL
    <3>1. pc'[t] = "unlockAdd"
      BY <1>1, <1>2, <2>3 DEF SearchAgain, Goto
    <3>2. QED
      BY <1>1, <1>7, <2>1, <3>1
  <2>4. QED
    BY <1>4, <2>2, <2>3
<1>8. Lookup(t) \/ SearchAgain(t) \/ AddToCache(t) \/ UNCHANGED <<cacheVars, time_count>>
  BY DEF ThreadStep, Computes, Waits, Accept, ThreadNotCreated, ReadArgument, InitMutex,
     Lock, Unlock, Forward, CloseBoth, ReadRequest, HeadersOverflow, SendRequestFails,
     SendRequest, ReceiveSegment, ReceiveFails, EndOfResponse
<1>9. Lookup(t) /\ search_cache(uri) = NULL => UNCHANGED <<cacheVars, time_count>>
  BY <1>2 DEF Lookup
<1>10. SearchAgain(t) /\ search_cache(uri) # NULL => UNCHANGED <<cacheVars, time_count>>
  BY <1>2 DEF SearchAgain
<1>11. QED
  BY <1>3, <1>4, <1>5, <1>6, <1>7, <1>8, <1>9, <1>10

(* SharedInv is inductive, given ProxyInv: a thread between its second     *)
(* lookup and its insertion holds the lock, so that while the model is     *)
(* defined no other thread changes the list.                               *)
LEMMA SharedInvStep == ProxyInv /\ SharedInv /\ [Next]_vars => SharedInv'
<1> SUFFICES ASSUME ProxyInv, SharedInv, [Next]_vars PROVE SharedInv'
  OBVIOUS
<1>1. ThreadsTypeOK
  BY DEF ProxyInv
<1>2. CASE Next
  <2>1. PICK t \in Thread : ThreadStep(t)
    BY <1>2 DEF Next, ThreadStep
  <2>2. /\ CacheInv' /\ time_count' \in Nat
        /\ \/ List' = List /\ \A k \in List : block'[k].uri = block[k].uri
           \/ Holds(t)
        /\ pc'[t] = "evict" => \A k \in List' : block'[k].uri # conn[t].uri
    BY <2>1, CacheStep
  <2>3. ASSUME NEW s \in Thread
        PROVE  /\ pc'[s] \in HasUri => conn'[s].uri \in Uri
               /\ pc'[s] = "evict" => \A k \in List' : block'[k].uri # conn'[s].uri
    <3>1. CASE s = t
      BY <1>1, <2>1, <2>2, <3>1, UriStep DEF SharedInv
    <3>2. CASE s # t
      <4>1. pc'[s] = pc[s] /\ conn'[s] = conn[s]
        BY <1>1, <2>1, <3>2, PcMoves, LocalsMove
      <4>2. pc[s] = "evict" => ~Holds(t)
        BY <1>2, <3>2 DEF Next, Defined, TwoHold, Holds
      <4>3. QED
        BY <2>2, <4>1, <4>2 DEF SharedInv
    <3>3. QED
      BY <3>1, <3>2
  <2>4. QED
    BY <2>2, <2>3 DEF SharedInv
<1>3. CASE UNCHANGED vars
  <2>1. UNCHANGED <<cacheVars, pc, conn, time_count>>
    BY <1>3 DEF vars, proxyVars
  <2>2. CacheInv' /\ List' = List /\ block' = block
    BY <2>1, CacheInvStays DEF SharedInv
  <2>3. QED
    BY <2>1, <2>2 DEF SharedInv
<1>4. QED
  BY <1>2, <1>3

(* The shared cache holds together, whatever two threads missed at the     *)
(* same time, up to the first state in which the mutex fails to exclude    *)
(* (doit's two critical sections, proxy.c:174-205).                        *)
THEOREM SharedCacheStaysSound == Spec => []SharedCacheIsSound
<1>1. Init => SharedInv
  <2> SUFFICES ASSUME Init PROVE SharedInv
    OBVIOUS
  <2>1. CacheInv
    BY CacheInvInit DEF Init
  <2>2. \A t \in Thread : pc[t] = "none"
    BY DEF Init
  <2>3. QED
    BY <2>1, <2>2 DEF Init, SharedInv, HasUri, Answering
<1>2. ProxyInv /\ SharedInv => SharedCacheIsSound
  <2> SUFFICES ASSUME ProxyInv, SharedInv PROVE SharedCacheIsSound
    OBVIOUS
  <2>1. argp \in [Thread -> Thread]
    BY DEF ProxyInv, ThreadsTypeOK
  <2>2. ProxyTypeOK
    BY <2>1 DEF ProxyInv, ThreadsTypeOK, SharedInv, CacheInv, ProxyTypeOK
  <2>3. WellLinked /\ BytesAddUp /\ OneBlockPerUri
    BY ChainIsWellLinked DEF SharedInv, CacheInv
  <2>4. QED
    BY <2>2, <2>3 DEF SharedCacheIsSound
<1>3. QED
  BY <1>1, <1>2, ProxyInvariant, SharedInvStep, PTL DEF Spec

=============================================================================
