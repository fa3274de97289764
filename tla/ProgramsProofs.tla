--------------------------- MODULE ProgramsProofs ---------------------------
(***************************************************************************)
(* Robust I/O implements the byte stream for every length of the stream,   *)
(* capacity of the connection, size of the reader's buffer and sizes asked *)
(* of it.  The refinement needs to know where each byte that was read is:  *)
(* it has been answered, or it is in the caller's buffer, or it is in the  *)
(* reader's, in that order, and none is in two places.                     *)
(*                                                                         *)
(* The cache simulator implements one of an LRU cache for every number of  *)
(* sets and lines, size of a block and trace.  The refinement needs to     *)
(* know that the lines in use come first and were last used at different   *)
(* times, so that they can be listed in order of use.                      *)
(***************************************************************************)
EXTENDS Programs, FiniteSetTheorems, WellFoundedInduction, SequenceTheorems,
        SequencesExt, TLAPS

BlockFns == {"rio_readn", "rio_readnb"}

Calls == [fn : BlockFns, n : BlockSizes, usrbuf : Seq(Nat)]
           \cup [fn : {"rio_readlineb"}, n : LineSizes, usrbuf : Seq(Nat)]

(* What is in the reader's buffer and not copied yet.                      *)
Buffered == IF rio.cnt > 0 THEN rio.cnt ELSE 0

RioTypeOK ==
    /\ newlines \in SUBSET (1 .. Length)
    /\ sent \in 0 .. Length
    /\ writer \in {"writing", "written", "failed", "closed"}
    /\ received \in 0 .. sent
    /\ readerOpen \in BOOLEAN
    /\ rio \in [cnt : Int, bufptr : Nat \ {0}, buf : [1 .. RIO_BUFSIZE -> Nat]]
    /\ call \in {NoCall} \cup Calls
    /\ answer \in [bytes : Seq(Nat), next : Nat \ {0}, ok : BOOLEAN]

(* The reader's buffer ends with the bytes that were read last.            *)
BufferHolds ==
    /\ rio.cnt > 0 => rio.bufptr + rio.cnt <= RIO_BUFSIZE + 1
    /\ \A i \in 1 .. RIO_BUFSIZE :
          rio.bufptr <= i /\ i < rio.bufptr + rio.cnt =>
              rio.buf[i] = received - rio.cnt + 1 + (i - rio.bufptr)

(* The caller's buffer holds the bytes between the last answer and those.  *)
CallHolds ==
    /\ answer.next - 1 + Len(call.usrbuf) = received - Buffered
    /\ \A i \in 1 .. Len(call.usrbuf) : call.usrbuf[i] = answer.next - 1 + i

(* No call has copied more than it was asked for, no line goes on behind a *)
(* newline, and rio_readn meets no buffered byte.                          *)
CallFits ==
    /\ call.fn \in BlockFns => Len(call.usrbuf) <= call.n
    /\ call.fn = "rio_readn" => rio.cnt <= 0
    /\ call.fn = "rio_readlineb" =>
          /\ Len(call.usrbuf) <= call.n - 1
          /\ \A i \in 1 .. Len(call.usrbuf) - 1 : call.usrbuf[i] \notin newlines

RioInv == RioTypeOK /\ BufferHolds /\ CallHolds /\ CallFits

-----------------------------------------------------------------------------
(* The operators of the buffer and of the calls.                           *)

(* Two runs of numbered bytes, one behind the other, are one run.          *)
LEMMA RunsJoin ==
    ASSUME NEW b \in Nat, NEW s \in Seq(Nat), NEW t \in Seq(Nat),
           \A i \in 1 .. Len(s) : s[i] = b + i,
           \A i \in 1 .. Len(t) : t[i] = b + Len(s) + i
    PROVE  /\ s \o t \in Seq(Nat)
           /\ Len(s \o t) = Len(s) + Len(t)
           /\ \A i \in 1 .. Len(s \o t) : (s \o t)[i] = b + i
<1>1. /\ s \o t \in Seq(Nat)
      /\ Len(s \o t) = Len(s) + Len(t)
      /\ \A i \in 1 .. Len(s) + Len(t) :
            (s \o t)[i] = IF i <= Len(s) THEN s[i] ELSE t[i - Len(s)]
  BY ConcatProperties
<1>2. Len(s) \in Nat /\ Len(t) \in Nat
  BY LenProperties
<1>3. ASSUME NEW i \in 1 .. Len(s) + Len(t)
      PROVE  (s \o t)[i] = b + i
  <2>1. CASE i <= Len(s)
    BY <1>1, <1>2, <2>1
  <2>2. CASE i > Len(s)
    <3>1. i - Len(s) \in 1 .. Len(t)
      BY <1>2, <2>2
    <3>2. t[i - Len(s)] = b + Len(s) + (i - Len(s))
      BY <3>1
    <3>. QED
      BY <1>1, <1>2, <2>2, <3>2
  <2>. QED
    BY <1>2, <2>1, <2>2
<1>. QED
  BY <1>1, <1>3

(* The function that Refill and rio_readn_some build is a run.             *)
LEMMA RunIsSeq ==
    ASSUME NEW k \in Nat, NEW b \in Nat
    PROVE  /\ [i \in 1 .. k |-> b + i] \in Seq(Nat)
           /\ Len([i \in 1 .. k |-> b + i]) = k
<1>1. [i \in 1 .. k |-> b + i] \in [1 .. k -> Nat]
  OBVIOUS
<1>2. [i \in 1 .. k |-> b + i] \in Seq(Nat)
  BY <1>1, SeqDef
<1>. QED
  BY <1>2, LenProperties

(* What Copy takes out of the buffer: a part of a run is a run.            *)
LEMMA PartOfRun ==
    ASSUME NEW N \in Nat, NEW f \in [1 .. N -> Nat], NEW p \in Nat, p >= 1,
           NEW k \in Nat, p + k <= N + 1, NEW r \in Nat,
           NEW c \in Nat, c >= 1, c <= k,
           \A i \in 1 .. N : p <= i /\ i < p + k => f[i] = r - k + 1 + (i - p)
    PROVE  /\ SubSeq(f, p, p + c - 1) \in Seq(Nat)
           /\ Len(SubSeq(f, p, p + c - 1)) = c
           /\ \A i \in 1 .. c : SubSeq(f, p, p + c - 1)[i] = r - k + i
<1>1. \A i \in p .. p + c - 1 : f[i] \in Nat
  OBVIOUS
<1>2. PICK m \in Int : m = p + c - 1
  OBVIOUS
<1>3. /\ SubSeq(f, p, m) \in Seq(Nat)
      /\ Len(SubSeq(f, p, m)) = IF p <= m THEN m - p + 1 ELSE 0
      /\ \A i \in 1 .. m - p + 1 : SubSeq(f, p, m)[i] = f[p + i - 1]
  <2>1. \A i \in p .. m : f[i] \in Nat
    BY <1>1, <1>2
  <2>. QED
    BY <1>2, <2>1, SubSeqProperties
<1>4. m - p + 1 = c /\ p <= m
  BY <1>2
<1>5. ASSUME NEW i \in 1 .. c
      PROVE  SubSeq(f, p, m)[i] = r - k + i
  <2>1. PICK j \in 1 .. N : j = p + i - 1 /\ p <= j /\ j < p + k
    OBVIOUS
  <2>2. f[j] = r - k + 1 + (j - p)
    BY <2>1
  <2>3. SubSeq(f, p, m)[i] = f[j]
    BY <1>3, <1>4, <2>1
  <2>. QED
    BY <2>1, <2>2, <2>3
<1>. QED
  BY <1>2, <1>3, <1>4, <1>5

(* What a call in progress is, and what it lacks: a line in progress has   *)
(* no newline yet.                                                         *)
LEMMA CallFacts ==
    ASSUME RioAssumption, RioInv, call # NoCall
    PROVE  /\ call \in Calls
           /\ call.usrbuf \in Seq(Nat) /\ Len(call.usrbuf) \in Nat
           /\ call.n \in Nat /\ nleft \in Nat
           /\ call.fn \in BlockFns =>
                 call.n \in BlockSizes /\ nleft = call.n - Len(call.usrbuf)
           /\ call.fn \notin BlockFns =>
                 /\ call.fn = "rio_readlineb" /\ call.n \in LineSizes
                 /\ nleft > 0 =>
                       /\ Len(call.usrbuf) < call.n - 1
                       /\ \A i \in 1 .. Len(call.usrbuf) :
                             call.usrbuf[i] \notin newlines
<1>1. call \in Calls
  BY DEF RioInv, RioTypeOK
<1>2. /\ call.usrbuf \in Seq(Nat) /\ call.n \in Nat
      /\ call.fn \in BlockFns => call.n \in BlockSizes
      /\ call.fn \notin BlockFns =>
            call.fn = "rio_readlineb" /\ call.n \in LineSizes
  BY <1>1 DEF Calls, BlockFns, RioAssumption
<1>3. Len(call.usrbuf) \in Nat
  BY <1>2, LenProperties
<1>4. CASE call.fn \in BlockFns
  <2>1. nleft = call.n - Len(call.usrbuf)
    BY <1>4 DEF nleft, BlockFns
  <2>2. Len(call.usrbuf) <= call.n
    BY <1>4 DEF RioInv, CallFits
  <2>. QED
    BY <1>1, <1>2, <1>3, <1>4, <2>1, <2>2
<1>5. CASE call.fn \notin BlockFns
  <2>1. call.fn = "rio_readlineb"
    BY <1>2, <1>5
  <2>2. /\ Len(call.usrbuf) <= call.n - 1
        /\ \A i \in 1 .. Len(call.usrbuf) - 1 : call.usrbuf[i] \notin newlines
    BY <2>1 DEF RioInv, CallFits
  <2>3. CASE call.usrbuf # <<>> /\ call.usrbuf[Len(call.usrbuf)] \in newlines
    BY <1>1, <1>2, <1>3, <1>5, <2>1, <2>3 DEF nleft
  <2>4. CASE ~ (call.usrbuf # <<>> /\ call.usrbuf[Len(call.usrbuf)] \in newlines)
    <3>1. nleft = call.n - 1 - Len(call.usrbuf)
      BY <2>1, <2>4 DEF nleft
    <3>2. \A i \in 1 .. Len(call.usrbuf) : call.usrbuf[i] \notin newlines
      <4>1. CASE call.usrbuf = <<>>
        BY <4>1
      <4>2. CASE call.usrbuf # <<>>
        <5>1. call.usrbuf[Len(call.usrbuf)] \notin newlines
          BY <2>4, <4>2
        <5>. QED
          BY <1>3, <2>2, <5>1
      <4>. QED
        BY <4>1, <4>2
    <3>. QED
      BY <1>1, <1>2, <1>3, <1>5, <2>1, <2>2, <3>1, <3>2
  <2>. QED
    BY <2>3, <2>4
<1>. QED
  BY <1>4, <1>5

-----------------------------------------------------------------------------
(* The invariant holds at the start.                                       *)
LEMMA RioInvInit ==
    ASSUME RioAssumption
    PROVE  RioInit => RioInv
<1>. SUFFICES ASSUME RioInit PROVE RioInv
  OBVIOUS
<1>1. /\ call = NoCall /\ call.usrbuf = <<>> /\ call.fn = "none"
      /\ rio = [cnt |-> 0, bufptr |-> 1, buf |-> [i \in 1 .. RIO_BUFSIZE |-> 0]]
      /\ answer = [bytes |-> <<>>, next |-> 1, ok |-> TRUE]
  BY DEF RioInit, rio_readinitb, NoCall
<1>2. <<>> \in Seq(Nat) /\ Len(<<>>) = 0
  BY EmptySeq
<1>3. rio.cnt = 0 /\ answer.next = 1
  BY <1>1
<1>4. RioTypeOK
  <2>1. [i \in 1 .. RIO_BUFSIZE |-> 0] \in [1 .. RIO_BUFSIZE -> Nat]
    OBVIOUS
  <2>2. rio \in [cnt : Int, bufptr : Nat \ {0}, buf : [1 .. RIO_BUFSIZE -> Nat]]
    BY <1>1, <2>1
  <2>3. answer \in [bytes : Seq(Nat), next : Nat \ {0}, ok : BOOLEAN]
    BY <1>1, <1>2
  <2>. QED
    BY <1>1, <2>2, <2>3 DEF RioTypeOK, RioInit, RioAssumption
<1>5. BufferHolds
  BY <1>1 DEF BufferHolds
<1>6. CallHolds
  BY <1>1, <1>2, <1>3 DEF CallHolds, Buffered, RioInit
<1>7. CallFits
  BY <1>1 DEF CallFits, BlockFns
<1>. QED
  BY <1>4, <1>5, <1>6, <1>7 DEF RioInv

(* The writer, the closing of the reader and a step that changes nothing:  *)
(* no byte of the reader's moves.                                          *)
LEMMA WriterKeeps ==
    ASSUME RioAssumption, RioInv,
           WriteSome \/ WriteReturns \/ WriterCloses \/ ReaderCloses
             \/ UNCHANGED rioVars
    PROVE  RioInv'
<1>1. UNCHANGED <<newlines, received, rio, call, answer>>
  BY DEF WriteSome, WriteReturns, WriterCloses, ReaderCloses, writerVars, rioVars
<1>2. sent' \in 0 .. Length /\ received \in 0 .. sent'
  <2>1. CASE WriteSome
    BY <2>1 DEF WriteSome, Least, RioInv, RioTypeOK, RioAssumption
  <2>2. CASE ~ WriteSome
    BY <2>2 DEF WriteReturns, WriterCloses, ReaderCloses, writerVars, rioVars,
                RioInv, RioTypeOK
  <2>. QED
    BY <2>1, <2>2
<1>3. /\ writer' \in {"writing", "written", "failed", "closed"}
      /\ readerOpen' \in BOOLEAN
  BY DEF WriteSome, WriteReturns, WriterCloses, ReaderCloses, writerVars,
         rioVars, RioInv, RioTypeOK
<1>4. RioTypeOK'
  BY <1>1, <1>2, <1>3 DEF RioInv, RioTypeOK
<1>. QED
  BY <1>1, <1>4 DEF RioInv, BufferHolds, CallHolds, CallFits, Buffered

(* A new call has copied nothing.                                          *)
LEMMA CallKeeps ==
    ASSUME RioAssumption, RioInv, NEW fn, NEW n, Call(fn, n),
           \/ fn \in BlockFns /\ n \in BlockSizes
           \/ fn = "rio_readlineb" /\ n \in LineSizes
    PROVE  RioInv'
<1>1. /\ call = NoCall /\ call' = [fn |-> fn, n |-> n, usrbuf |-> <<>>]
      /\ UNCHANGED <<newlines, sent, writer, received, readerOpen, rio, answer>>
  BY DEF Call, writerVars
<1>2. /\ call.usrbuf = <<>> /\ call'.usrbuf = <<>>
      /\ call'.fn = fn /\ call'.n = n
  BY <1>1 DEF NoCall
<1>3. <<>> \in Seq(Nat) /\ Len(<<>>) = 0
  BY EmptySeq
<1>4. RioTypeOK'
  <2>1. call' \in Calls
    BY <1>1, <1>3 DEF Calls
  <2>. QED
    BY <1>1, <2>1 DEF RioInv, RioTypeOK
<1>5. BufferHolds' /\ CallHolds'
  BY <1>1, <1>2 DEF RioInv, BufferHolds, CallHolds, Buffered
<1>6. CallFits'
  <2>1. n \in Nat /\ (fn = "rio_readlineb" => n >= 1)
    <3>1. CASE fn \in BlockFns /\ n \in BlockSizes
      <4>1. n \in Nat
        BY <3>1 DEF RioAssumption
      <4>2. fn # "rio_readlineb"
        BY <3>1 DEF BlockFns
      <4>. QED
        BY <4>1, <4>2
    <3>2. CASE n \in LineSizes
      <4>1. n \in Nat \ {0}
        BY <3>2 DEF RioAssumption
      <4>. QED
        BY <4>1
    <3>. QED
      BY <3>1, <3>2
  <2>2. fn = "rio_readn" => rio.cnt <= 0
    BY DEF Call, Unbuffered
  <2>. QED
    BY <1>1, <1>2, <1>3, <2>1, <2>2 DEF CallFits
<1>. QED
  BY <1>4, <1>5, <1>6 DEF RioInv

-----------------------------------------------------------------------------
(* Steps that move bytes.                                                  *)

(* rio_readn reads into its caller's buffer, with nothing buffered.        *)
LEMMA ReadnKeeps ==
    ASSUME RioAssumption, RioInv, rio_readn_some
    PROVE  RioInv'
<1>1. call # NoCall /\ nleft > 0 /\ call.fn = "rio_readn"
  BY DEF rio_readn_some, ReadsNext
<1>. DEFINE arrived(k) == [i \in 1 .. k |-> received + i]
<1>2. PICK k \in Readable(nleft) :
          /\ received' = received + k
          /\ call' = [call EXCEPT !.usrbuf = @ \o arrived(k)]
  BY DEF rio_readn_some
<1>3. UNCHANGED <<newlines, sent, writer, readerOpen, rio, answer>>
  BY DEF rio_readn_some, writerVars
<1>4. /\ call \in Calls /\ call.usrbuf \in Seq(Nat) /\ Len(call.usrbuf) \in Nat
      /\ call.n \in Nat /\ nleft \in Nat /\ call.n \in BlockSizes
      /\ nleft = call.n - Len(call.usrbuf) /\ call.fn \in BlockFns
  BY <1>1, CallFacts DEF BlockFns
<1>5. /\ received \in Nat /\ sent \in Nat /\ received <= sent
      /\ rio.cnt \in Int /\ answer.next \in Nat /\ answer.next >= 1
  BY DEF RioInv, RioTypeOK, RioAssumption
<1>6. rio.cnt <= 0 /\ Buffered = 0
  BY <1>1, <1>5 DEF RioInv, CallFits, Buffered
<1>7. k \in Nat /\ k >= 1 /\ k <= nleft /\ k <= sent - received
  BY <1>4, <1>5 DEF Readable, Least
<1>8. /\ answer.next - 1 + Len(call.usrbuf) = received
      /\ \A i \in 1 .. Len(call.usrbuf) : call.usrbuf[i] = answer.next - 1 + i
  BY <1>5, <1>6 DEF RioInv, CallHolds
<1>9. arrived(k) \in Seq(Nat) /\ Len(arrived(k)) = k
  BY <1>5, <1>7, RunIsSeq
<1>10. /\ call.usrbuf \o arrived(k) \in Seq(Nat)
       /\ Len(call.usrbuf \o arrived(k)) = Len(call.usrbuf) + k
       /\ \A i \in 1 .. Len(call.usrbuf \o arrived(k)) :
             (call.usrbuf \o arrived(k))[i] = answer.next - 1 + i
  <2>1. \A i \in 1 .. Len(arrived(k)) :
           arrived(k)[i] = answer.next - 1 + Len(call.usrbuf) + i
    BY <1>8, <1>9
  <2>2. answer.next - 1 \in Nat
    BY <1>5
  <2>. HIDE DEF arrived
  <2>3. /\ call.usrbuf \o arrived(k) \in Seq(Nat)
        /\ Len(call.usrbuf \o arrived(k)) = Len(call.usrbuf) + Len(arrived(k))
        /\ \A i \in 1 .. Len(call.usrbuf \o arrived(k)) :
              (call.usrbuf \o arrived(k))[i] = answer.next - 1 + i
    <3>1. call.usrbuf \in Seq(Nat) /\ arrived(k) \in Seq(Nat)
      BY <1>4, <1>9
    <3>2. \A i \in 1 .. Len(call.usrbuf) : call.usrbuf[i] = answer.next - 1 + i
      BY <1>8
    <3>. QED
      BY <2>1, <2>2, <3>1, <3>2, RunsJoin
  <2>. QED
    BY <1>9, <2>3
<1>. HIDE DEF arrived
<1>11. call' = [fn |-> "rio_readn", n |-> call.n, usrbuf |-> call.usrbuf \o arrived(k)]
  BY <1>1, <1>2, <1>4 DEF Calls
<1>12. call'.fn = "rio_readn" /\ call'.n = call.n
         /\ call'.usrbuf = call.usrbuf \o arrived(k)
  BY <1>11
<1>13. RioTypeOK'
  <2>1. call' \in Calls
    BY <1>4, <1>10, <1>11 DEF Calls, BlockFns
  <2>2. received' \in 0 .. sent
    BY <1>2, <1>5, <1>7
  <2>. QED
    BY <1>3, <2>1, <2>2 DEF RioInv, RioTypeOK
<1>14. BufferHolds'
  BY <1>3, <1>5, <1>6 DEF RioInv, RioTypeOK, BufferHolds
<1>15. CallHolds'
  <2>1. Buffered' = 0
    BY <1>3, <1>6 DEF Buffered
  <2>2. answer.next - 1 + (Len(call.usrbuf) + k) = received + k
    <3>1. \A p, h, r, m \in Int : p - 1 + h = r => p - 1 + (h + m) = r + m
      OBVIOUS
    <3>2. answer.next - 1 + Len(call.usrbuf) = received
      BY <1>8
    <3>3. /\ answer.next \in Int /\ Len(call.usrbuf) \in Int
          /\ received \in Int /\ k \in Int
      BY <1>4, <1>5, <1>7
    <3>. QED
      BY <3>1, <3>2, <3>3
  <2>3. answer'.next = answer.next /\ received' - Buffered' = received + k
    BY <1>2, <1>3, <1>5, <1>7, <2>1
  <2>. QED
    BY <1>10, <1>12, <2>2, <2>3 DEF CallHolds
<1>16. CallFits'
  BY <1>3, <1>4, <1>6, <1>7, <1>10, <1>12 DEF CallFits
<1>. QED
  BY <1>13, <1>14, <1>15, <1>16 DEF RioInv

(* A read into the empty buffer, or one that was interrupted: the caller's *)
(* buffer stays as it is.                                                  *)
LEMMA RefillKeeps ==
    ASSUME RioAssumption, RioInv, Refill \/ Interrupted
    PROVE  RioInv'
<1>1. call # NoCall /\ nleft > 0 /\ call.fn # "rio_readn" /\ rio.cnt <= 0
  BY DEF Refill, Interrupted, Refills, ReadsNext
<1>2. UNCHANGED <<newlines, sent, writer, readerOpen, call, answer>>
  BY DEF Refill, Interrupted, writerVars
<1>3. /\ received \in Nat /\ sent \in Nat /\ received <= sent
      /\ rio \in [cnt : Int, bufptr : Nat \ {0}, buf : [1 .. RIO_BUFSIZE -> Nat]]
      /\ answer.next \in Nat /\ answer.next >= 1 /\ RIO_BUFSIZE \in Nat
  BY DEF RioInv, RioTypeOK, RioAssumption
<1>4. Buffered = 0
  BY <1>1, <1>3 DEF Buffered
<1>5. CASE Interrupted
  <2>1. received' = received /\ rio' = [rio EXCEPT !.cnt = -1]
    BY <1>5 DEF Interrupted
  <2>2. /\ rio' \in [cnt : Int, bufptr : Nat \ {0},
                     buf : [1 .. RIO_BUFSIZE -> Nat]]
        /\ rio'.cnt = -1 /\ rio'.bufptr \in Nat
    BY <1>3, <2>1
  <2>3. RioTypeOK'
    BY <1>2, <2>1, <2>2 DEF RioInv, RioTypeOK
  <2>4. BufferHolds'
    BY <2>2 DEF BufferHolds
  <2>5. Buffered' = 0
    BY <2>2 DEF Buffered
  <2>6. CallHolds'
    BY <1>2, <1>4, <2>1, <2>5 DEF RioInv, CallHolds
  <2>7. CallFits'
    BY <1>1, <1>2 DEF RioInv, CallFits
  <2>. QED
    BY <2>3, <2>4, <2>6, <2>7 DEF RioInv
<1>6. CASE Refill
  <2>1. PICK k \in Readable(RIO_BUFSIZE) :
          /\ received' = received + k
          /\ rio' = [cnt |-> k, bufptr |-> 1,
                     buf |-> [i \in 1 .. RIO_BUFSIZE |->
                                IF i <= k THEN received + i ELSE rio.buf[i]]]
    BY <1>6 DEF Refill
  <2>2. k \in Nat /\ k >= 1 /\ k <= RIO_BUFSIZE /\ k <= sent - received
    BY <1>3 DEF Readable, Least
  <2>3. /\ rio'.cnt = k /\ rio'.bufptr = 1
        /\ \A i \in 1 .. RIO_BUFSIZE : i <= k => rio'.buf[i] = received + i
    BY <2>1
  <2>4. RioTypeOK'
    <3>1. [i \in 1 .. RIO_BUFSIZE |-> IF i <= k THEN received + i ELSE rio.buf[i]]
             \in [1 .. RIO_BUFSIZE -> Nat]
      BY <1>3, <2>2
    <3>2. rio' \in [cnt : Int, bufptr : Nat \ {0},
                    buf : [1 .. RIO_BUFSIZE -> Nat]]
      BY <2>1, <2>2, <3>1
    <3>3. received' \in 0 .. sent
      BY <1>3, <2>1, <2>2
    <3>. QED
      BY <1>2, <3>2, <3>3 DEF RioInv, RioTypeOK
  <2>5. BufferHolds'
    <3>1. ASSUME NEW i \in 1 .. RIO_BUFSIZE, i < 1 + k
          PROVE  rio'.buf[i] = (received + k) - k + 1 + (i - 1)
      BY <1>3, <2>2, <2>3, <3>1
    <3>. QED
      BY <1>3, <2>1, <2>2, <2>3, <3>1 DEF BufferHolds
  <2>6. Buffered' = k
    BY <2>2, <2>3 DEF Buffered
  <2>7. CallHolds'
    BY <1>2, <1>3, <1>4, <2>1, <2>2, <2>6 DEF RioInv, CallHolds
  <2>8. CallFits'
    BY <1>1, <1>2 DEF RioInv, CallFits
  <2>. QED
    BY <2>4, <2>5, <2>7, <2>8 DEF RioInv
<1>. QED
  BY <1>5, <1>6

(* A copy out of the buffer takes its first bytes, which are the next of   *)
(* the stream.                                                             *)
LEMMA CopyKeeps ==
    ASSUME RioAssumption, RioInv, Copy
    PROVE  RioInv'
<1>. DEFINE n == IF call.fn = "rio_readlineb" THEN 1 ELSE nleft
            cnt == Least(n, rio.cnt)
            chunk == SubSeq(rio.buf, rio.bufptr, rio.bufptr + cnt - 1)
<1>1. /\ call # NoCall /\ nleft > 0 /\ call.fn # "rio_readn" /\ rio.cnt > 0
      /\ call' = [call EXCEPT !.usrbuf = @ \o chunk]
      /\ rio' = [rio EXCEPT !.cnt = @ - cnt, !.bufptr = @ + cnt]
      /\ UNCHANGED <<newlines, sent, writer, received, readerOpen, answer>>
  BY DEF Copy, ReadsNext, Advanced, writerVars
<1>2. /\ received \in Nat /\ sent \in Nat /\ received <= sent
      /\ rio \in [cnt : Int, bufptr : Nat \ {0}, buf : [1 .. RIO_BUFSIZE -> Nat]]
      /\ answer.next \in Nat /\ answer.next >= 1 /\ RIO_BUFSIZE \in Nat
  BY DEF RioInv, RioTypeOK, RioAssumption
<1>3. /\ call \in Calls /\ call.usrbuf \in Seq(Nat) /\ Len(call.usrbuf) \in Nat
      /\ call.n \in Nat /\ nleft \in Nat
      /\ call.fn \in BlockFns =>
            call.n \in BlockSizes /\ nleft = call.n - Len(call.usrbuf)
      /\ call.fn \notin BlockFns =>
            /\ call.fn = "rio_readlineb" /\ call.n \in LineSizes
            /\ Len(call.usrbuf) < call.n - 1
            /\ \A i \in 1 .. Len(call.usrbuf) : call.usrbuf[i] \notin newlines
  BY <1>1, CallFacts
<1>4. /\ cnt \in Nat /\ cnt >= 1 /\ cnt <= rio.cnt
      /\ call.fn \in BlockFns => cnt <= nleft
      /\ call.fn = "rio_readlineb" => cnt = 1
  BY <1>1, <1>2, <1>3, SMTT(60) DEF Least, BlockFns
<1>5. /\ rio.cnt \in Nat /\ rio.bufptr \in Nat /\ rio.bufptr >= 1
      /\ rio.buf \in [1 .. RIO_BUFSIZE -> Nat]
      /\ rio.bufptr + rio.cnt <= RIO_BUFSIZE + 1
  BY <1>1, <1>2 DEF RioInv, BufferHolds
<1>6. /\ answer.next - 1 + Len(call.usrbuf) = received - rio.cnt
      /\ \A i \in 1 .. Len(call.usrbuf) : call.usrbuf[i] = answer.next - 1 + i
  BY <1>1 DEF RioInv, CallHolds, Buffered
<1>. HIDE DEF n, cnt
<1>7. \A i \in 1 .. RIO_BUFSIZE :
          rio.bufptr <= i /\ i < rio.bufptr + rio.cnt =>
              rio.buf[i] = received - rio.cnt + 1 + (i - rio.bufptr)
  BY DEF RioInv, BufferHolds
<1>8. /\ chunk \in Seq(Nat) /\ Len(chunk) = cnt
      /\ \A i \in 1 .. cnt : chunk[i] = received - rio.cnt + i
  <2>1. PICK f \in [1 .. RIO_BUFSIZE -> Nat] : f = rio.buf
    BY <1>5
  <2>2. PICK p \in Nat : p = rio.bufptr
    BY <1>5
  <2>3. PICK k \in Nat : k = rio.cnt
    BY <1>5
  <2>4. \A i \in 1 .. RIO_BUFSIZE : p <= i /\ i < p + k =>
            f[i] = received - k + 1 + (i - p)
    BY <1>7, <2>1, <2>2, <2>3
  <2>5. p >= 1 /\ p + k <= RIO_BUFSIZE + 1 /\ cnt \in Nat /\ cnt >= 1 /\ cnt <= k
          /\ received \in Nat /\ RIO_BUFSIZE \in Nat
    BY <1>2, <1>4, <1>5, <2>2, <2>3
  <2>6. /\ SubSeq(f, p, p + cnt - 1) \in Seq(Nat)
        /\ Len(SubSeq(f, p, p + cnt - 1)) = cnt
        /\ \A i \in 1 .. cnt : SubSeq(f, p, p + cnt - 1)[i] = received - k + i
    <3>1. PICK c \in Nat : c = cnt
      BY <2>5
    <3>2. /\ SubSeq(f, p, p + c - 1) \in Seq(Nat)
          /\ Len(SubSeq(f, p, p + c - 1)) = c
          /\ \A i \in 1 .. c : SubSeq(f, p, p + c - 1)[i] = received - k + i
      <4>1. c >= 1 /\ c <= k
        BY <2>5, <3>1
      <4>. QED
        BY ONLY <2>4, <2>5, <4>1, PartOfRun
    <3>. QED
      BY <3>1, <3>2
  <2>. QED
    BY <2>1, <2>2, <2>3, <2>6
<1>. HIDE DEF chunk
<1>9. \A i \in 1 .. Len(chunk) : chunk[i] = answer.next - 1 + Len(call.usrbuf) + i
  BY <1>6, <1>8
<1>10. /\ call.usrbuf \o chunk \in Seq(Nat)
       /\ Len(call.usrbuf \o chunk) = Len(call.usrbuf) + cnt
       /\ \A i \in 1 .. Len(call.usrbuf \o chunk) :
             (call.usrbuf \o chunk)[i] = answer.next - 1 + i
  <2>1. answer.next - 1 \in Nat
    BY <1>2
  <2>2. PICK b \in Nat : b = answer.next - 1
    BY <2>1
  <2>3. PICK s \in Seq(Nat) : s = call.usrbuf
    BY <1>3
  <2>4. /\ \A i \in 1 .. Len(s) : s[i] = b + i
        /\ \A i \in 1 .. Len(chunk) : chunk[i] = b + Len(s) + i
    BY <1>6, <1>9, <2>2, <2>3
  <2>5. /\ s \o chunk \in Seq(Nat)
        /\ Len(s \o chunk) = Len(s) + Len(chunk)
        /\ \A i \in 1 .. Len(s \o chunk) : (s \o chunk)[i] = b + i
    BY ONLY <1>8, <2>4, RunsJoin
  <2>. QED
    BY <1>8, <2>2, <2>3, <2>5
<1>11. /\ call'.fn = call.fn /\ call'.n = call.n
       /\ call'.usrbuf = call.usrbuf \o chunk
       /\ call' \in Calls
  BY <1>1, <1>3, <1>10 DEF Calls
<1>12. /\ rio'.cnt = rio.cnt - cnt /\ rio'.bufptr = rio.bufptr + cnt
       /\ rio'.buf = rio.buf
       /\ rio' \in [cnt : Int, bufptr : Nat \ {0}, buf : [1 .. RIO_BUFSIZE -> Nat]]
  <2>1. rio.cnt - cnt \in Int /\ rio.bufptr + cnt \in Nat \ {0}
    BY <1>4, <1>5
  <2>2. rio' = [cnt |-> rio.cnt - cnt, bufptr |-> rio.bufptr + cnt,
                buf |-> rio.buf]
    BY <1>1, <1>2
  <2>. QED
    BY <1>5, <2>1, <2>2
<1>13. RioTypeOK'
  BY <1>1, <1>11, <1>12 DEF RioInv, RioTypeOK
<1>14. BufferHolds'
  <2>. DEFINE p == rio.bufptr + cnt
              h == rio.cnt - cnt
  <2>1. ASSUME NEW i \in 1 .. RIO_BUFSIZE, p <= i, i < p + h
        PROVE  rio.buf[i] = received - h + 1 + (i - p)
    <3>1. rio.bufptr <= i /\ i < rio.bufptr + rio.cnt
      BY <1>4, <1>5, <2>1
    <3>2. rio.buf[i] = received - rio.cnt + 1 + (i - rio.bufptr)
      BY <1>7, <3>1
    <3>. QED
      BY <1>2, <1>4, <1>5, <3>2, SMTT(60)
  <2>2. p + h <= RIO_BUFSIZE + 1
    BY <1>2, <1>4, <1>5
  <2>3. /\ rio'.bufptr = p /\ rio'.cnt = h /\ rio'.buf = rio.buf
        /\ received' = received
    BY <1>1, <1>12
  <2>. HIDE DEF p, h
  <2>4. ASSUME NEW i \in 1 .. RIO_BUFSIZE,
               rio'.bufptr <= i, i < rio'.bufptr + rio'.cnt
        PROVE  rio'.buf[i] = received' - rio'.cnt + 1 + (i - rio'.bufptr)
    BY <2>1, <2>3, <2>4
  <2>5. rio'.cnt > 0 => rio'.bufptr + rio'.cnt <= RIO_BUFSIZE + 1
    BY <2>2, <2>3
  <2>. QED
    BY ONLY <2>4, <2>5 DEF BufferHolds
<1>15. CallHolds'
  <2>1. Buffered' = rio.cnt - cnt
    BY <1>4, <1>5, <1>12 DEF Buffered
  <2>2. answer.next - 1 + (Len(call.usrbuf) + cnt) = received - (rio.cnt - cnt)
    <3>1. /\ answer.next \in Int /\ Len(call.usrbuf) \in Int
          /\ received \in Int /\ rio.cnt \in Int /\ cnt \in Int
      BY <1>2, <1>3, <1>4, <1>5
    <3>2. PICK a1, l1, r1, c1, m1 \in Int :
             /\ a1 = answer.next /\ l1 = Len(call.usrbuf) /\ r1 = received
             /\ c1 = rio.cnt /\ m1 = cnt
      BY <3>1
    <3>3. a1 - 1 + l1 = r1 - c1
      BY <1>6, <3>2
    <3>4. a1 - 1 + (l1 + m1) = r1 - (c1 - m1)
      BY <3>3
    <3>. QED
      BY <3>2, <3>4
  <2>. QED
    BY <1>1, <1>10, <1>11, <2>1, <2>2 DEF CallHolds
<1>16. CallFits'
  <2>1. CASE call.fn \in BlockFns
    BY <1>1, <1>3, <1>4, <1>10, <1>11, <2>1, SMTT(60) DEF CallFits, BlockFns
  <2>2. CASE call.fn \notin BlockFns
    <3>1. call.fn = "rio_readlineb" /\ cnt = 1
      BY <1>3, <1>4, <2>2
    <3>2. ASSUME NEW i \in 1 .. Len(call.usrbuf)
          PROVE  call'.usrbuf[i] \notin newlines
      <4>1. i \in 1 .. Len(call.usrbuf \o chunk)
        BY <1>3, <1>4, <1>10
      <4>2. call'.usrbuf[i] = call.usrbuf[i]
        BY <1>6, <1>10, <1>11, <4>1
      <4>. QED
        BY <1>3, <2>2, <4>2
    <3>3. Len(call'.usrbuf) = Len(call.usrbuf) + 1
      BY <1>10, <1>11, <3>1
    <3>4. Len(call'.usrbuf) - 1 = Len(call.usrbuf)
      BY <1>3, <3>3
    <3>5. Len(call'.usrbuf) <= call'.n - 1
      BY <1>3, <1>11, <2>2, <3>3
    <3>. QED
      BY <1>1, <1>11, <2>2, <3>1, <3>2, <3>4, <3>5 DEF CallFits, BlockFns
  <2>. QED
    BY <2>1, <2>2
<1>. QED
  BY <1>13, <1>14, <1>15, <1>16 DEF RioInv

(* What a call leaves when it returns, whatever it returns: the next answer*)
(* begins behind the bytes it had copied, and the buffer is as it was.     *)
LEMMA ReturnFacts ==
    ASSUME RioAssumption, RioInv, EndOfFile \/ ReadFails \/ Finish
    PROVE  /\ call # NoCall /\ call' = NoCall
           /\ UNCHANGED <<newlines, sent, writer, received, readerOpen>>
           /\ answer'.next = answer.next + Len(call.usrbuf)
           /\ answer' = [bytes |-> answer'.bytes, ok |-> answer'.ok,
                         next |-> answer'.next]
           /\ answer'.bytes = <<>> \/ answer'.bytes = call.usrbuf
           /\ answer'.ok \in BOOLEAN
           /\ rio' \in [cnt : Int, bufptr : Nat \ {0},
                        buf : [1 .. RIO_BUFSIZE -> Nat]]
           /\ Buffered' = Buffered
           /\ rio' = rio \/ rio'.cnt <= 0
<1>1. /\ call # NoCall /\ call' = NoCall
      /\ UNCHANGED <<newlines, sent, writer, received, readerOpen>>
  BY DEF EndOfFile, ReadFails, Finish, ReadsNext, Return, writerVars
<1>2. /\ received \in Nat /\ answer.next \in Nat
      /\ rio \in [cnt : Int, bufptr : Nat \ {0}, buf : [1 .. RIO_BUFSIZE -> Nat]]
  BY DEF RioInv, RioTypeOK, RioAssumption
<1>3. \/ rio' = rio
      \/ rio.cnt <= 0 /\ rio' = [rio EXCEPT !.cnt = 0]
      \/ rio.cnt <= 0 /\ rio' = [rio EXCEPT !.cnt = -1]
  BY DEF EndOfFile, ReadFails, Finish
<1>4. /\ rio' \in [cnt : Int, bufptr : Nat \ {0}, buf : [1 .. RIO_BUFSIZE -> Nat]]
      /\ rio' = rio \/ (rio.cnt <= 0 /\ rio'.cnt <= 0)
  BY <1>2, <1>3
<1>5. rio.cnt \in Int /\ rio'.cnt \in Int
  BY <1>2, <1>4
<1>6. Buffered' = Buffered /\ Buffered \in Nat
  BY <1>4, <1>5 DEF Buffered
<1>7. PICK bytes \in {<<>>, call.usrbuf}, ok \in BOOLEAN :
          answer' = [bytes |-> bytes, ok |-> ok,
                     next |-> received + 1 - IF rio'.cnt > 0 THEN rio'.cnt ELSE 0]
  BY DEF EndOfFile, ReadFails, Finish, Return
<1>8. answer'.next = received + 1 - Buffered
  BY <1>6, <1>7 DEF Buffered
<1>9. answer'.next = answer.next + Len(call.usrbuf)
  <2>1. \A p, h, r, m \in Int : p - 1 + h = r - m => r + 1 - m = p + h
    OBVIOUS
  <2>2. answer.next - 1 + Len(call.usrbuf) = received - Buffered
    BY DEF RioInv, CallHolds
  <2>3. Len(call.usrbuf) \in Int
    BY <1>1, CallFacts
  <2>4. answer.next \in Int /\ received \in Int /\ Buffered \in Int
    BY <1>2, <1>6
  <2>5. received + 1 - Buffered = answer.next + Len(call.usrbuf)
    BY ONLY <2>1, <2>2, <2>3, <2>4
  <2>. QED
    BY <1>8, <2>5
<1>. QED
  BY <1>1, <1>4, <1>6, <1>7, <1>9

(* The return of a call.                                                   *)
LEMMA ReturnKeeps ==
    ASSUME RioAssumption, RioInv, EndOfFile \/ ReadFails \/ Finish
    PROVE  RioInv'
<1>1. /\ call # NoCall /\ call' = NoCall
      /\ UNCHANGED <<newlines, sent, writer, received, readerOpen>>
      /\ answer'.next = answer.next + Len(call.usrbuf)
      /\ answer' = [bytes |-> answer'.bytes, ok |-> answer'.ok,
                    next |-> answer'.next]
      /\ answer'.bytes = <<>> \/ answer'.bytes = call.usrbuf
      /\ answer'.ok \in BOOLEAN
      /\ rio' \in [cnt : Int, bufptr : Nat \ {0}, buf : [1 .. RIO_BUFSIZE -> Nat]]
      /\ Buffered' = Buffered
      /\ rio' = rio \/ rio'.cnt <= 0
  BY ReturnFacts
<1>2. call.usrbuf \in Seq(Nat) /\ Len(call.usrbuf) \in Nat
  BY <1>1, CallFacts
<1>3. call'.usrbuf = <<>> /\ Len(<<>>) = 0 /\ call'.fn = "none"
        /\ <<>> \in Seq(Nat)
  BY <1>1, EmptySeq DEF NoCall
<1>4. answer.next \in Nat /\ answer.next >= 1 /\ received \in Nat
  BY DEF RioInv, RioTypeOK, RioAssumption
<1>5. RioTypeOK'
  <2>1. answer' \in [bytes : Seq(Nat), next : Nat \ {0}, ok : BOOLEAN]
    <3>1. answer'.next \in Nat \ {0}
      BY <1>1, <1>2, <1>4
    <3>2. answer'.bytes \in Seq(Nat)
      BY <1>1, <1>2, <1>3
    <3>. QED
      BY <1>1, <3>1, <3>2
  <2>. QED
    BY <1>1, <2>1 DEF RioInv, RioTypeOK
<1>6. BufferHolds'
  <2>1. CASE rio' = rio
    BY <1>1, <2>1 DEF RioInv, BufferHolds
  <2>2. CASE rio'.cnt <= 0
    <3>1. rio'.cnt \in Int /\ rio'.bufptr \in Nat
      BY <1>1
    <3>. QED
      BY <2>2, <3>1 DEF BufferHolds
  <2>. QED
    BY <1>1, <2>1, <2>2
<1>7. CallHolds'
  <2>1. \A p, h, b \in Int : p - 1 + h = b => p + h - 1 + 0 = b
    OBVIOUS
  <2>2. answer.next - 1 + Len(call.usrbuf) = received - Buffered
    BY DEF RioInv, CallHolds
  <2>3. Buffered \in Int
    BY DEF Buffered, RioInv, RioTypeOK
  <2>4. answer'.next - 1 + 0 = received' - Buffered'
    BY <1>1, <1>2, <1>4, <2>1, <2>2, <2>3, SMTT(60)
  <2>. QED
    BY <1>3, <2>4 DEF CallHolds
<1>8. CallFits'
  BY <1>3 DEF CallFits, BlockFns
<1>. QED
  BY <1>5, <1>6, <1>7, <1>8 DEF RioInv

(* Every step of the connection keeps the invariant.                       *)
LEMMA RioInvStep ==
    ASSUME RioAssumption
    PROVE  RioInv /\ (RioNext \/ UNCHANGED rioVars) => RioInv'
<1>. SUFFICES ASSUME RioInv, RioNext \/ UNCHANGED rioVars PROVE RioInv'
  OBVIOUS
<1>1. CASE WriteSome \/ WriteReturns \/ WriterCloses \/ ReaderCloses
             \/ UNCHANGED rioVars
  BY <1>1, WriterKeeps
<1>2. CASE \E n \in BlockSizes : Call("rio_readn", n) \/ Call("rio_readnb", n)
  <2>1. PICK n \in BlockSizes : Call("rio_readn", n) \/ Call("rio_readnb", n)
    BY <1>2
  <2>2. "rio_readn" \in BlockFns /\ "rio_readnb" \in BlockFns
    BY DEF BlockFns
  <2>3. CASE Call("rio_readn", n)
    BY <2>2, <2>3, CallKeeps
  <2>4. CASE Call("rio_readnb", n)
    BY <2>2, <2>4, CallKeeps
  <2>. QED
    BY <2>1, <2>3, <2>4
<1>3. CASE \E n \in LineSizes : Call("rio_readlineb", n)
  BY <1>3, CallKeeps
<1>4. CASE rio_readn_some
  BY <1>4, ReadnKeeps
<1>5. CASE Refill \/ Interrupted
  BY <1>5, RefillKeeps
<1>6. CASE Copy
  BY <1>6, CopyKeeps
<1>7. CASE EndOfFile \/ ReadFails \/ Finish
  BY <1>7, ReturnKeeps
<1>. QED
  BY <1>1, <1>2, <1>3, <1>4, <1>5, <1>6, <1>7 DEF RioNext

-----------------------------------------------------------------------------
(* The refinement.                                                         *)

(* An answer that is the next part of the stream is an interval.           *)
LEMMA IntervalOfRun ==
    ASSUME NEW b \in Nat, NEW s \in Seq(Nat),
           \A i \in 1 .. Len(s) : s[i] = b + i
    PROVE  Interval(s, b + 1 + Len(s)) = [from |-> b + 1, to |-> b + Len(s)]
<1>1. Len(s) \in Nat
  BY LenProperties
<1>2. PICK n \in Nat : n = b + 1 + Len(s)
  BY <1>1
<1>3. \A i \in 1 .. Len(s) : s[i] = n - 1 - Len(s) + i
  BY <1>1, <1>2
<1>4. Interval(s, n) = [from |-> n - Len(s), to |-> n - 1]
  BY <1>3 DEF Interval
<1>5. n - Len(s) = b + 1 /\ n - 1 = b + Len(s)
  BY <1>1, <1>2
<1>. QED
  BY <1>2, <1>4, <1>5

(* So is an empty one.                                                     *)
LEMMA IntervalOfNone ==
    ASSUME NEW b \in Nat
    PROVE  Interval(<<>>, b + 1) = [from |-> b + 1, to |-> b]
<1>1. Len(<<>>) = 0
  BY EmptySeq
<1>2. Interval(<<>>, b + 1) = [from |-> b + 1 - Len(<<>>), to |-> b + 1 - 1]
  BY <1>1 DEF Interval
<1>3. b + 1 - Len(<<>>) = b + 1 /\ b + 1 - 1 = b
  BY <1>1
<1>. QED
  BY <1>2, <1>3

(* What the last answer amounts to is untouched while a call runs.         *)
LEMMA AnswerStays ==
    ASSUME UNCHANGED answer
    PROVE  UNCHANGED <<answer.next - 1,
               [from |-> Interval(answer.bytes, answer.next).from,
                to |-> Interval(answer.bytes, answer.next).to, ok |-> answer.ok]>>
<1>1. answer'.bytes = answer.bytes /\ answer'.next = answer.next
        /\ answer'.ok = answer.ok
  OBVIOUS
<1>. QED
  BY <1>1 DEF Interval

(* A call that returns what it copied gives the abstract reader the next   *)
(* bytes, up to some byte that has been sent.                              *)
LEMMA ReturnedBytes ==
    ASSUME RioAssumption, RioInv, EndOfFile \/ Finish
    PROVE  \E to \in answer.next - 1 .. sent :
              /\ to = answer.next - 1 + Len(call.usrbuf)
              /\ to = received - Buffered
              /\ answer'.next - 1 = to
              /\ [from |-> Interval(answer'.bytes, answer'.next).from,
                  to |-> Interval(answer'.bytes, answer'.next).to,
                  ok |-> answer'.ok] = [from |-> answer.next - 1 + 1, to |-> to,
                                        ok |-> TRUE]
<1>1. /\ call # NoCall /\ answer'.next = answer.next + Len(call.usrbuf)
      /\ UNCHANGED sent
  BY ReturnFacts
<1>2. call.usrbuf \in Seq(Nat) /\ Len(call.usrbuf) \in Nat
  BY <1>1, CallFacts
<1>3. /\ answer.next \in Nat /\ answer.next >= 1 /\ received \in Nat /\ sent \in Nat
      /\ received <= sent /\ Buffered \in Nat
  BY DEF RioInv, RioTypeOK, RioAssumption, Buffered
<1>4. PICK b \in Nat : b = answer.next - 1
  BY <1>3
<1>5. PICK to \in Nat : to = b + Len(call.usrbuf)
  BY <1>2
<1>6. to = received - Buffered
  BY <1>4, <1>5 DEF RioInv, CallHolds
<1>7. \A i \in 1 .. Len(call.usrbuf) : call.usrbuf[i] = b + i
  BY <1>4 DEF RioInv, CallHolds
<1>8. answer'.bytes = call.usrbuf /\ answer'.ok = TRUE
  BY DEF EndOfFile, Finish, Return
<1>9. PICK n \in Nat : n = answer'.next
  BY <1>1, <1>2, <1>3
<1>10. PICK l \in Nat : l = Len(call.usrbuf)
  BY <1>2
<1>11. n = b + 1 + l /\ to = b + l /\ n - 1 = to
  <2>1. n = b + 1 + l
    BY <1>1, <1>3, <1>4, <1>9, <1>10
  <2>2. to = b + l
    BY <1>5, <1>10
  <2>. QED
    BY <2>1, <2>2
<1>12. Interval(call.usrbuf, n).from = b + 1 /\ Interval(call.usrbuf, n).to = to
  <2>1. Interval(call.usrbuf, b + 1 + Len(call.usrbuf))
          = [from |-> b + 1, to |-> b + Len(call.usrbuf)]
    BY <1>2, <1>7, IntervalOfRun
  <2>2. Interval(call.usrbuf, n) = [from |-> b + 1, to |-> to]
    BY <1>10, <1>11, <2>1, Zenon
  <2>. QED
    BY <2>2
<1>13. to \in answer.next - 1 .. sent
  <2>1. b <= to
    BY <1>2, <1>5
  <2>2. to <= sent
    <3>1. to <= received
      BY <1>3, <1>6
    <3>. QED
      BY <1>3, <3>1
  <2>3. to \in b .. sent
    BY <1>3, <2>1, <2>2
  <2>. QED
    BY <1>4, <2>3, Zenon
<1>14. answer'.next - 1 = to /\ answer.next - 1 + 1 = b + 1
  BY <1>4, <1>9, <1>11
<1>15. [from |-> Interval(answer'.bytes, answer'.next).from,
        to |-> Interval(answer'.bytes, answer'.next).to, ok |-> answer'.ok]
         = [from |-> answer.next - 1 + 1, to |-> to, ok |-> TRUE]
  BY <1>8, <1>9, <1>12, <1>14, Zenon
<1>. QED
  BY <1>4, <1>5, <1>6, <1>13, <1>14, <1>15

(* A call returns at the end of the stream, or when nothing is wanted.     *)
LEMMA WhyReturned ==
    ASSUME RioAssumption, RioInv, EndOfFile \/ Finish
    PROVE  \/ nleft = 0
           \/ nleft > 0 /\ writer = "closed" /\ received - Buffered = sent
<1>1. call.fn = "rio_readn" => rio.cnt <= 0
  BY DEF RioInv, CallFits
<1>2. rio.cnt \in Int /\ received \in Int
  BY DEF RioInv, RioTypeOK, RioAssumption
<1>3. CASE EndOfFile
  <2>1. nleft > 0 /\ writer = "closed" /\ received = sent /\ rio.cnt <= 0
    BY <1>1, <1>3 DEF EndOfFile, ReadsNext, AtEnd
  <2>. QED
    BY <1>2, <2>1 DEF Buffered
<1>4. CASE Finish
  BY <1>4 DEF Finish
<1>. QED
  BY <1>3, <1>4

(* The return of a block and of a line.                                    *)
LEMMA ReturnImplements ==
    ASSUME RioAssumption, RioInv, EndOfFile \/ Finish
    PROVE  \/ \E n \in BlockSizes : Stream!ReadBlock(n)
           \/ \E n \in LineSizes : Stream!ReadLine(n)
<1>1. PICK to \in answer.next - 1 .. sent :
              /\ to = answer.next - 1 + Len(call.usrbuf)
              /\ to = received - Buffered
              /\ answer'.next - 1 = to
              /\ [from |-> Interval(answer'.bytes, answer'.next).from,
                  to |-> Interval(answer'.bytes, answer'.next).to,
                  ok |-> answer'.ok] = [from |-> answer.next - 1 + 1, to |-> to,
                                        ok |-> TRUE]
  BY ReturnedBytes
<1>2. call # NoCall /\ UNCHANGED <<newlines, sent, writer>>
  BY ReturnFacts
<1>3. answer.next \in Nat /\ answer.next >= 1 /\ sent \in Nat
  BY DEF RioInv, RioTypeOK, RioAssumption
<1>4. nleft = 0 \/ (nleft > 0 /\ writer = "closed" /\ to = sent)
  BY <1>1, WhyReturned
<1>5. Len(call.usrbuf) \in Nat /\ call.usrbuf \in Seq(Nat) /\ call.n \in Nat
        /\ nleft \in Nat
  BY <1>2, CallFacts
<1>6. to - (answer.next - 1) = Len(call.usrbuf) /\ to \in Nat
  <2>1. PICK n \in Nat : n = answer.next /\ n >= 1
    BY <1>3
  <2>2. PICK m \in Nat : m = Len(call.usrbuf)
    BY <1>5
  <2>3. to = n - 1 + m
    BY <1>1, <2>1, <2>2
  <2>. QED
    BY ONLY <2>1, <2>2, <2>3
<1>7. \A i \in 1 .. Len(call.usrbuf) : call.usrbuf[i] = answer.next - 1 + i
  BY DEF RioInv, CallHolds
<1>8. CASE call.fn \in BlockFns
  <2>1. call.n \in BlockSizes /\ nleft = call.n - Len(call.usrbuf)
    BY <1>2, <1>8, CallFacts
  <2>2. \/ to - (answer.next - 1) = call.n
        \/ to - (answer.next - 1) < call.n /\ Stream!Ended(to)
    BY <1>4, <1>5, <1>6, <2>1 DEF Stream!Ended
  <2>3. Stream!ReadBlock(call.n)
    BY <1>1, <1>2, <2>2 DEF Stream!ReadBlock
  <2>. QED
    BY <2>1, <2>3
<1>9. CASE call.fn \notin BlockFns
  <2>1. call.fn = "rio_readlineb" /\ call.n \in LineSizes
    BY <1>2, <1>9, CallFacts
  <2>2. /\ Len(call.usrbuf) <= call.n - 1
        /\ \A i \in 1 .. Len(call.usrbuf) - 1 : call.usrbuf[i] \notin newlines
    BY <2>1 DEF RioInv, CallFits
  <2>3. \A i \in (answer.next - 1) + 1 .. to - 1 : i \notin newlines
    <3>1. ASSUME NEW i \in (answer.next - 1) + 1 .. to - 1
          PROVE  i \notin newlines
      <4>1. PICK j \in 1 .. Len(call.usrbuf) - 1 : i = answer.next - 1 + j
        <5>1. PICK b \in Int : b = answer.next - 1
          BY <1>3
        <5>2. PICK l \in Nat : l = Len(call.usrbuf)
          BY <1>5
        <5>3. to - b = l /\ i \in b + 1 .. to - 1
          BY <1>6, <5>1, <5>2
        <5>4. i - b \in 1 .. l - 1 /\ i = b + (i - b)
          BY ONLY <5>1, <5>2, <5>3, <1>6
        <5>. QED
          BY <5>1, <5>2, <5>4
      <4>2. call.usrbuf[j] = i /\ call.usrbuf[j] \notin newlines
        BY <1>5, <1>7, <2>2, <4>1
      <4>. QED
        BY <4>2
    <3>. QED
      BY <3>1
  <2>4. \/ to > answer.next - 1 /\ to \in newlines
        \/ to - (answer.next - 1) = call.n - 1
        \/ Stream!Ended(to)
    <3>1. CASE nleft > 0
      BY <1>4, <1>5, <3>1 DEF Stream!Ended
    <3>2. CASE nleft = 0
      <4>1. CASE call.usrbuf # <<>> /\ call.usrbuf[Len(call.usrbuf)] \in newlines
        <5>1. Len(call.usrbuf) >= 1
          BY <1>5, <4>1, EmptySeq
        <5>2. call.usrbuf[Len(call.usrbuf)] = to
          BY <1>1, <1>5, <1>7, <5>1
        <5>. QED
          BY <1>3, <1>5, <1>6, <4>1, <5>1, <5>2
      <4>2. CASE ~ (call.usrbuf # <<>>
                      /\ call.usrbuf[Len(call.usrbuf)] \in newlines)
        <5>1. nleft = call.n - 1 - Len(call.usrbuf)
          BY <2>1, <4>2 DEF nleft
        <5>. QED
          BY <1>5, <1>6, <3>2, <5>1
      <4>. QED
        BY <4>1, <4>2
    <3>. QED
      BY <1>5, <3>1, <3>2
  <2>5. to - (answer.next - 1) <= call.n - 1
    BY <1>6, <2>2
  <2>6. Stream!ReadLine(call.n)
    BY <1>1, <1>2, <2>3, <2>4, <2>5 DEF Stream!ReadLine
  <2>. QED
    BY <2>1, <2>6
<1>. QED
  BY <1>8, <1>9

(* An error: what was copied is lost, and the answer is empty.             *)
LEMMA FailureImplements ==
    ASSUME RioAssumption, RioInv, ReadFails
    PROVE  Stream!ReadFails
<1>1. /\ call # NoCall /\ answer'.next = answer.next + Len(call.usrbuf)
      /\ UNCHANGED <<newlines, sent, writer>>
  BY ReturnFacts
<1>2. Len(call.usrbuf) \in Nat
  BY <1>1, CallFacts
<1>3. /\ answer.next \in Nat /\ answer.next >= 1 /\ received \in Nat /\ sent \in Nat
      /\ received <= sent /\ Buffered \in Nat
  BY DEF RioInv, RioTypeOK, RioAssumption, Buffered
<1>4. answer.next - 1 + Len(call.usrbuf) = received - Buffered
  BY DEF RioInv, CallHolds
<1>5. answer'.bytes = <<>> /\ answer'.ok = FALSE /\ writer = "closed"
  BY DEF ReadFails, Return
<1>6. PICK b \in Nat : b = answer.next - 1 + Len(call.usrbuf)
  BY <1>2, <1>3
<1>7. answer'.next = b + 1
  BY <1>1, <1>2, <1>3, <1>6
<1>8. <<>> \in Seq(Nat) /\ Len(<<>>) = 0
  BY EmptySeq
<1>9. Interval(<<>>, b + 1).from = b + 1 /\ Interval(<<>>, b + 1).to = b
  <2>1. Interval(<<>>, b + 1) = [from |-> b + 1, to |-> b]
    BY IntervalOfNone
  <2>. QED
    BY <2>1
<1>10. b \in answer.next - 1 .. sent
  BY <1>2, <1>3, <1>4, <1>6
<1>11. answer'.next - 1 = b
  BY <1>7
<1>. QED
  BY <1>1, <1>5, <1>7, <1>9, <1>10, <1>11 DEF Stream!ReadFails

(* Every step of the connection is a step of the byte stream, or leaves it *)
(* as it is: the pieces in which the bytes travel do not show.             *)
LEMMA RioStepImplements ==
    ASSUME RioAssumption, RioInv, RioNext \/ UNCHANGED rioVars
    PROVE  [Stream!Next]_(Stream!vars)
<1>1. CASE WriteSome
  <2>1. sent' \in sent .. Length /\ UNCHANGED <<newlines, writer, answer>>
          /\ writer = "writing"
    BY <1>1 DEF WriteSome, Least, RioInv, RioTypeOK, RioAssumption
  <2>2. Stream!Write
    BY <2>1, AnswerStays DEF Stream!Write
  <2>. QED
    BY <2>2 DEF Stream!Next
<1>2. CASE WriteReturns
  <2>1. Stream!WriteReturns
    BY <1>2, AnswerStays DEF WriteReturns, Stream!WriteReturns
  <2>. QED
    BY <2>1 DEF Stream!Next
<1>3. CASE WriterCloses
  <2>1. Stream!Close
    BY <1>3, AnswerStays DEF WriterCloses, Stream!Close
  <2>. QED
    BY <2>1 DEF Stream!Next
<1>4. CASE EndOfFile \/ Finish
  BY <1>4, ReturnImplements DEF Stream!Next
<1>5. CASE ReadFails
  BY <1>5, FailureImplements DEF Stream!Next
<1>6. CASE UNCHANGED <<newlines, sent, writer, answer>>
  BY <1>6, AnswerStays DEF Stream!vars
<1>. QED
  <2>1. CASE \/ \E n \in BlockSizes : Call("rio_readn", n) \/ Call("rio_readnb", n)
             \/ \E n \in LineSizes : Call("rio_readlineb", n)
             \/ ReaderCloses \/ rio_readn_some \/ Refill \/ Interrupted \/ Copy
             \/ UNCHANGED rioVars
    BY <1>6, <2>1 DEF Call, ReaderCloses, rio_readn_some, Refill, Interrupted,
                      Copy, writerVars, rioVars
  <2>. QED
    BY <1>1, <1>2, <1>3, <1>4, <1>5, <2>1 DEF RioNext

(* The connection starts as the empty stream does.                         *)
LEMMA RioInitImplements == RioInit => Stream!Init
<1>. SUFFICES ASSUME RioInit PROVE Stream!Init
  OBVIOUS
<1>1. <<>> \in Seq(Nat) /\ Len(<<>>) = 0
  BY EmptySeq
<1>2. Interval(<<>>, 1).from = 1 /\ Interval(<<>>, 1).to = 0
  <2>1. Interval(<<>>, 0 + 1) = [from |-> 0 + 1, to |-> 0]
    BY IntervalOfNone
  <2>. QED
    BY <2>1
<1>3. answer.bytes = <<>> /\ answer.next = 1 /\ answer.ok = TRUE
  BY DEF RioInit
<1>4. [from |-> Interval(answer.bytes, answer.next).from,
       to |-> Interval(answer.bytes, answer.next).to, ok |-> answer.ok]
        = [from |-> 1, to |-> 0, ok |-> TRUE]
  BY <1>2, <1>3
<1>5. answer.next - 1 = 0
  BY <1>3
<1>. QED
  BY <1>4, <1>5 DEF RioInit, Stream!Init

-----------------------------------------------------------------------------
(* A non-empty set of naturals has a smallest element.                     *)
LEMMA LeastExists ==
    ASSUME NEW T \in SUBSET Nat, T # {}
    PROVE  \E x \in T : \A y \in T : x <= y
<1>1. PICK x \in T : \A y \in T : ~(<<y, x>> \in OpToRel(<, Nat))
  BY NatLessThanWellFounded, WFMin
<1>2. \A y \in T : ~(y < x)
  BY <1>1 DEF OpToRel
<1>3. QED
  BY <1>2

(* A non-empty set of finite sets has one of the fewest elements.          *)
LEMMA FewestExists ==
    ASSUME NEW S, IsFiniteSet(S), NEW B \in SUBSET (SUBSET S), B # {}
    PROVE  \E T \in B : \A U \in B : Cardinality(T) <= Cardinality(U)
<1>1. \A T \in B : Cardinality(T) \in Nat
  BY FS_Subset, FS_CardinalityType
<1>. DEFINE C == {Cardinality(T) : T \in B}
<1>2. C \in SUBSET Nat /\ C # {}
  BY <1>1
<1>3. PICK c \in C : \A d \in C : c <= d
  BY <1>2, LeastExists
<1>4. PICK T \in B : c = Cardinality(T)
  BY <1>3
<1>. QED
  BY <1>3, <1>4

(* h lists the lines of L, the one used last first; b is the set.          *)
Ordered(h, L, b) ==
    /\ h \in [1 .. Cardinality(L) -> L]
    /\ \A n \in L : \E i \in 1 .. Cardinality(L) : h[i] = n
    /\ \A i, j \in 1 .. Cardinality(L) : i < j => b[h[i]].LRU > b[h[j]].LRU

(* No two lines of L were used at one time.                                *)
Timed(L, b) ==
    /\ \A n \in L : b[n].LRU \in Nat
    /\ \A m, n \in L : b[m].LRU = b[n].LRU => m = n

(* Such a list exists: the line used longest ago goes behind the others.   *)
LEMMA OrderExists ==
    ASSUME NEW S, IsFiniteSet(S), NEW b, Timed(S, b)
    PROVE  \E h : Ordered(h, S, b)
<1> DEFINE Bad == {L \in SUBSET S : ~ \E h : Ordered(h, L, b)}
<1> SUFFICES ASSUME Bad # {} PROVE FALSE
  OBVIOUS
<1>1. PICK L \in Bad : \A M \in Bad : Cardinality(L) <= Cardinality(M)
  <2>1. Bad \in SUBSET (SUBSET S)
    OBVIOUS
  <2> HIDE DEF Bad
  <2>2. QED
    BY <2>1, FewestExists
<1>2. L \in SUBSET S /\ ~ \E h : Ordered(h, L, b)
  OBVIOUS
<1>3. IsFiniteSet(L) /\ Cardinality(L) \in Nat
  BY <1>2, FS_Subset, FS_CardinalityType
<1>4. L # {}
  <2>1. SUFFICES ASSUME L = {} PROVE FALSE
    OBVIOUS
  <2>2. Cardinality(L) = 0
    BY <2>1, FS_EmptySet
  <2>3. Ordered([i \in 1 .. 0 |-> 0], L, b)
    BY <2>1, <2>2 DEF Ordered
  <2>4. QED
    BY <1>2, <2>3
<1>5. PICK x \in L : \A y \in L : b[x].LRU <= b[y].LRU
  <2>1. {b[y].LRU : y \in L} \in SUBSET Nat /\ {b[y].LRU : y \in L} # {}
    BY <1>2, <1>4 DEF Timed
  <2>2. PICK d \in {b[y].LRU : y \in L} : \A c \in {b[y].LRU : y \in L} : d <= c
    BY <2>1, LeastExists
  <2>3. QED
    BY <2>2
<1> DEFINE M == L \ {x}
           k == Cardinality(M)
<1>6. k = Cardinality(L) - 1 /\ k \in Nat
  BY <1>3, FS_RemoveElement, FS_CardinalityType
<1>7. PICK h : Ordered(h, M, b)
  <2>1. M \in SUBSET S /\ M \notin Bad
    BY <1>1, <1>2, <1>3, <1>6
  <2>2. QED
    BY <2>1
<1> DEFINE r == [i \in 1 .. k + 1 |-> IF i <= k THEN h[i] ELSE x]
<1>8. Cardinality(L) = k + 1
  BY <1>3, <1>6
<1> HIDE DEF k, Bad
<1>9. /\ h \in [1 .. k -> M]
      /\ \A n \in M : \E i \in 1 .. k : h[i] = n
      /\ \A i, j \in 1 .. k : i < j => b[h[i]].LRU > b[h[j]].LRU
  BY <1>7 DEF Ordered, k
<1>10. r \in [1 .. k + 1 -> L]
  BY <1>6, <1>9
<1>11. ASSUME NEW n \in L PROVE \E i \in 1 .. k + 1 : r[i] = n
  <2>1. CASE n = x
    <3>1. k + 1 \in 1 .. k + 1 /\ r[k + 1] = x
      BY <1>6
    <3>2. QED
      BY <2>1, <3>1
  <2>2. CASE n # x
    <3>1. PICK i \in 1 .. k : h[i] = n
      BY <1>9, <2>2
    <3>2. i \in 1 .. k + 1 /\ r[i] = n
      BY <1>6, <3>1
    <3>3. QED
      BY <3>2
  <2>3. QED
    BY <2>1, <2>2
<1>12. ASSUME NEW i \in 1 .. k + 1, NEW j \in 1 .. k + 1, i < j
       PROVE  b[r[i]].LRU > b[r[j]].LRU
  <2>1. i \in 1 .. k /\ r[i] = h[i] /\ h[i] \in M
    BY <1>6, <1>9, <1>12
  <2>2. CASE j = k + 1
    <3>1. r[j] = x
      BY <1>6, <2>2
    <3>2. b[x].LRU <= b[h[i]].LRU /\ b[x].LRU # b[h[i]].LRU
      BY <1>2, <1>5, <2>1 DEF Timed
    <3>3. b[x].LRU \in Nat /\ b[h[i]].LRU \in Nat
      BY <1>2, <2>1 DEF Timed
    <3>4. QED
      BY <2>1, <3>1, <3>2, <3>3
  <2>3. CASE j # k + 1
    <3>1. j \in 1 .. k /\ r[j] = h[j]
      BY <1>6, <2>3
    <3>2. QED
      BY <1>9, <1>12, <2>1, <3>1
  <2>4. QED
    BY <2>2, <2>3
<1>13. Ordered(r, L, b)
  BY <1>8, <1>10, <1>11, <1>12 DEF Ordered
<1>14. QED
  BY <1>2, <1>13

(* As Recency, of any set i0 with lines b and used lines L.                *)
Item(b, i0, n) == [block |-> b[n].tag * numSets + i0, dirty |-> b[n].dirty]

Younger(L, b, n) == {m \in L : b[m].LRU > b[n].LRU}

ListOf(L, b, i0) ==
    [i \in 1 .. Cardinality(L) |->
        Item(b, i0, CHOOSE n \in L : Cardinality(Younger(L, b, n)) = i - 1)]

(* The i-th of them, the one with i - 1 younger ones, is the i-th line in  *)
(* order.                                                                  *)
ListIs(L, b, i0, h) ==
    ListOf(L, b, i0) = [i \in 1 .. Cardinality(L) |-> Item(b, i0, h[i])]

LEMMA ListInOrder ==
    ASSUME NEW L, IsFiniteSet(L), NEW b, Timed(L, b), NEW i0, NEW h, Ordered(h, L, b)
    PROVE  ListIs(L, b, i0, h)
<1> DEFINE k == Cardinality(L)
<1>1. k \in Nat
  BY FS_CardinalityType
<1>2. /\ h \in [1 .. k -> L]
      /\ \A n \in L : \E i \in 1 .. k : h[i] = n
      /\ \A i, j \in 1 .. k : i < j => b[h[i]].LRU > b[h[j]].LRU
      /\ \A n \in L : b[n].LRU \in Nat
  BY DEF Ordered, Timed
<1> HIDE DEF k
<1>3. ASSUME NEW i \in 1 .. k PROVE Cardinality(Younger(L, b, h[i])) = i - 1
  <2> DEFINE f == [j \in 1 .. i - 1 |-> h[j]]
             T == Younger(L, b, h[i])
  <2>1. i - 1 \in Nat /\ \A j \in 1 .. i - 1 : j \in 1 .. k /\ j < i
    BY <1>1
  <2>2. \A j \in 1 .. i - 1 : h[j] \in T
    BY <1>2, <2>1 DEF Younger
  <2>3. \A n \in T : \E j \in 1 .. i - 1 : h[j] = n
    <3>1. ASSUME NEW n \in T PROVE \E j \in 1 .. i - 1 : h[j] = n
      <4>1. n \in L /\ b[n].LRU > b[h[i]].LRU
        BY DEF Younger
      <4>2. PICK j \in 1 .. k : h[j] = n
        BY <1>2, <4>1
      <4>3. ~(i < j) /\ i # j
        BY <1>2, <4>1, <4>2
      <4>4. j \in 1 .. i - 1
        BY <1>1, <4>3
      <4>5. QED
        BY <4>2, <4>4
    <3>2. QED
      BY <3>1
  <2>4. \A j, l \in 1 .. i - 1 : h[j] = h[l] => j = l
    <3>1. ASSUME NEW j \in 1 .. i - 1, NEW l \in 1 .. i - 1, j < l PROVE h[j] # h[l]
      <4>1. h[j] \in L /\ h[l] \in L /\ b[h[j]].LRU > b[h[l]].LRU
        BY <1>2, <2>1, <3>1
      <4>2. QED
        BY <1>2, <4>1
    <3>2. QED
      BY <2>1, <3>1
  <2> HIDE DEF T
  <2>5. f \in Bijection(1 .. i - 1, T)
    BY <2>2, <2>3, <2>4 DEF Bijection, Injection, Surjection, IsInjective
  <2>6. Cardinality(1 .. i - 1) = i - 1 /\ IsFiniteSet(1 .. i - 1)
    BY <2>1, FS_Interval
  <2>7. Cardinality(T) = Cardinality(1 .. i - 1)
    BY <2>5, <2>6, FS_Bijection DEF ExistsBijection
  <2>8. QED
    BY <2>6, <2>7 DEF T
<1>4. ASSUME NEW i \in 1 .. k
      PROVE  (CHOOSE n \in L : Cardinality(Younger(L, b, n)) = i - 1) = h[i]
  <2>1. h[i] \in L /\ Cardinality(Younger(L, b, h[i])) = i - 1
    BY <1>2, <1>3
  <2>2. ASSUME NEW n \in L, Cardinality(Younger(L, b, n)) = i - 1 PROVE n = h[i]
    <3>1. PICK j \in 1 .. k : h[j] = n
      BY <1>2
    <3>2. j - 1 = i - 1
      BY <1>3, <2>2, <3>1
    <3>3. QED
      BY <3>1, <3>2
  <2>3. QED
    BY <2>1, <2>2
<1>5. ListOf(L, b, i0) = [i \in 1 .. k |->
          Item(b, i0, CHOOSE n \in L : Cardinality(Younger(L, b, n)) = i - 1)]
  BY Zenon DEF ListOf, k
<1>6. ListOf(L, b, i0) = [i \in 1 .. k |-> Item(b, i0, h[i])]
  BY <1>4, <1>5, Zenon
<1>7. QED
  BY <1>6, Zenon DEF k, ListIs

(* Line x is used at t, after every line of L; b becomes c.                *)
LastUsed(L, b, c, x, t) ==
    /\ c[x].LRU = t
    /\ \A n \in L : b[n].LRU < t
    /\ \A n \in L : n # x => c[n].LRU = b[n].LRU

(* The order of the lines after a hit of h[i] and after n is filled.       *)
Renewed(h, k, i) ==
    [j \in 1 .. k |-> IF j = 1 THEN h[i] ELSE IF j <= i THEN h[j - 1] ELSE h[j]]

Joined(h, k, n) == [j \in 1 .. k + 1 |-> IF j = 1 THEN n ELSE h[j - 1]]

(* The line used now moves to the front.                                    *)
LEMMA OrderAfterHit ==
    ASSUME NEW L, IsFiniteSet(L), NEW b, Timed(L, b), NEW h, Ordered(h, L, b),
           NEW i \in 1 .. Cardinality(L), NEW c, NEW t \in Nat, LastUsed(L, b, c, h[i], t)
    PROVE  Timed(L, c) /\ Ordered(Renewed(h, Cardinality(L), i), L, c)
<1> DEFINE k == Cardinality(L)
           r == Renewed(h, k, i)
<1>a. c[h[i]].LRU = t
  BY DEF LastUsed
<1>b. \A n \in L : b[n].LRU < t
  BY DEF LastUsed
<1>c. \A n \in L : n # h[i] => c[n].LRU = b[n].LRU
  BY DEF LastUsed
<1> USE <1>a, <1>b, <1>c
<1>1. k \in Nat /\ i \in 1 .. k
  BY FS_CardinalityType
<1>2. /\ h \in [1 .. k -> L]
      /\ \A n \in L : \E j \in 1 .. k : h[j] = n
      /\ \A j, l \in 1 .. k : j < l => b[h[j]].LRU > b[h[l]].LRU
      /\ \A n \in L : b[n].LRU \in Nat
      /\ \A m, n \in L : b[m].LRU = b[n].LRU => m = n
  BY DEF Ordered, Timed
<1> HIDE DEF k
<1>3. Timed(L, c)
  <2>1. ASSUME NEW n \in L PROVE c[n].LRU \in Nat
    BY <1>2
  <2>2. ASSUME NEW m \in L, NEW n \in L, c[m].LRU = c[n].LRU PROVE m = n
    <3>1. b[m].LRU < t /\ b[n].LRU < t /\ b[m].LRU \in Nat /\ b[n].LRU \in Nat
      BY <1>2
    <3>2. CASE m = h[i] \/ n = h[i]
      BY <2>2, <3>1, <3>2
    <3>3. CASE m # h[i] /\ n # h[i]
      BY <1>2, <2>2, <3>3
    <3>4. QED
      BY <3>2, <3>3
  <2>3. QED
    BY <2>1, <2>2 DEF Timed
<1>4. \A j, l \in 1 .. k : h[j] = h[l] => j = l
  <2>1. ASSUME NEW j \in 1 .. k, NEW l \in 1 .. k, j < l PROVE h[j] # h[l]
    BY <1>2, <2>1
  <2>2. QED
    BY <2>1
<1>5. ASSUME NEW j \in 1 .. k
      PROVE  r[j] = IF j = 1 THEN h[i] ELSE IF j <= i THEN h[j - 1] ELSE h[j]
  BY Zenon DEF Renewed
<1>6. ASSUME NEW j \in 1 .. k
      PROVE  /\ r[j] \in L
             /\ j = 1 => c[r[j]].LRU = t
             /\ j # 1 => \E l \in 1 .. k :
                            /\ l = (IF j <= i THEN j - 1 ELSE j) /\ l # i
                            /\ r[j] = h[l] /\ c[r[j]].LRU = b[h[l]].LRU
  <2>1. CASE j = 1
    BY <1>1, <1>2, <1>5, <2>1
  <2>2. CASE j # 1
    <3>1. PICK l \in 1 .. k : l = (IF j <= i THEN j - 1 ELSE j) /\ l # i
      BY <1>1, <2>2
    <3>2. r[j] = h[l]
      BY <1>5, <2>2, <3>1
    <3>3. h[l] \in L /\ h[l] # h[i]
      BY <1>1, <1>2, <1>4, <3>1
    <3>4. QED
      BY <2>2, <3>1, <3>2, <3>3
  <2>3. QED
    BY <2>1, <2>2
<1>7. r \in [1 .. k -> L]
  <2>1. r = [j \in 1 .. k |-> r[j]]
    BY DEF Renewed
  <2> HIDE DEF r
  <2>2. QED
    BY <1>6, <2>1, Zenon
<1> HIDE DEF r
<1>8. ASSUME NEW n \in L PROVE \E j \in 1 .. k : r[j] = n
  <2>1. PICK l \in 1 .. k : h[l] = n
    BY <1>2
  <2>2. CASE l = i
    <3>1. 1 \in 1 .. k /\ r[1] = h[i]
      BY <1>1, <1>5
    <3>2. QED
      BY <2>1, <2>2, <3>1
  <2>3. CASE l < i
    <3>1. l + 1 \in 1 .. k /\ l + 1 <= i /\ l + 1 # 1 /\ (l + 1) - 1 = l
      BY <1>1, <2>3
    <3>2. r[l + 1] = h[l]
      BY <1>5, <3>1
    <3>3. QED
      BY <2>1, <3>1, <3>2
  <2>4. CASE l > i
    <3>1. l # 1 /\ ~(l <= i)
      BY <1>1, <2>4
    <3>2. r[l] = h[l]
      BY <1>5, <3>1
    <3>3. QED
      BY <2>1, <3>2
  <2>5. QED
    BY <1>1, <2>2, <2>3, <2>4
<1>9. ASSUME NEW j \in 1 .. k, NEW l \in 1 .. k, j < l
      PROVE  c[r[j]].LRU > c[r[l]].LRU
  <2>1. l # 1
    BY <1>9
  <2>2. PICK l1 \in 1 .. k : /\ l1 = (IF l <= i THEN l - 1 ELSE l) /\ l1 # i
                             /\ r[l] = h[l1] /\ c[r[l]].LRU = b[h[l1]].LRU
    BY <1>6, <2>1
  <2>3. h[l1] \in L
    BY <1>2
  <2>4. CASE j = 1
    <3>1. c[r[j]].LRU = t
      BY <1>6, <2>4
    <3>2. b[h[l1]].LRU < t /\ b[h[l1]].LRU \in Nat
      BY <1>2, <2>3
    <3>3. QED
      BY <2>2, <3>1, <3>2
  <2>5. CASE j # 1
    <3>1. PICK j1 \in 1 .. k : /\ j1 = (IF j <= i THEN j - 1 ELSE j) /\ j1 # i
                               /\ r[j] = h[j1] /\ c[r[j]].LRU = b[h[j1]].LRU
      BY <1>6, <2>5
    <3>2. j1 < l1
      BY <1>1, <1>9, <2>2, <3>1
    <3>3. b[h[j1]].LRU > b[h[l1]].LRU
      BY <1>2, <3>2
    <3>4. QED
      BY <2>2, <3>1, <3>3
  <2>6. QED
    BY <2>4, <2>5
<1>10. Ordered(r, L, c)
  BY <1>7, <1>8, <1>9 DEF Ordered, k
<1>11. QED
  BY <1>3, <1>10 DEF r, k

(* The line used longest ago is the last.                                  *)
LEMMA OldestIsLast ==
    ASSUME NEW L, IsFiniteSet(L), NEW b, Timed(L, b), NEW h, Ordered(h, L, b),
           NEW x \in L, \A n \in L : b[x].LRU <= b[n].LRU
    PROVE  Cardinality(L) \in 1 .. Cardinality(L) /\ h[Cardinality(L)] = x
<1> DEFINE k == Cardinality(L)
<1>1. k \in Nat /\ k # 0
  BY FS_CardinalityType, FS_EmptySet
<1>2. /\ h \in [1 .. k -> L]
      /\ \A n \in L : \E j \in 1 .. k : h[j] = n
      /\ \A j, l \in 1 .. k : j < l => b[h[j]].LRU > b[h[l]].LRU
      /\ \A n \in L : b[n].LRU \in Nat
  BY DEF Ordered, Timed
<1> HIDE DEF k
<1>3. k \in 1 .. k
  BY <1>1
<1>4. PICK j \in 1 .. k : h[j] = x
  BY <1>2
<1>5. ~(j < k)
  BY <1>2, <1>3, <1>4
<1>6. j = k
  BY <1>1, <1>5
<1>7. QED
  BY <1>3, <1>4, <1>6 DEF k

(* A line filled now is put in front.                                      *)
LEMMA OrderAfterInsertion ==
    ASSUME NEW L, IsFiniteSet(L), NEW b, Timed(L, b), NEW h, Ordered(h, L, b),
           NEW x, x \notin L, NEW c, NEW t \in Nat, LastUsed(L, b, c, x, t)
    PROVE  /\ Timed(L \cup {x}, c)
           /\ Cardinality(L) \in Nat /\ Cardinality(L \cup {x}) = Cardinality(L) + 1
           /\ Ordered(Joined(h, Cardinality(L), x), L \cup {x}, c)
<1> DEFINE k == Cardinality(L)
           r == Joined(h, k, x)
           M == L \cup {x}
<1>a. c[x].LRU = t
  BY DEF LastUsed
<1>b. \A n \in L : b[n].LRU < t /\ c[n].LRU = b[n].LRU
  BY DEF LastUsed
<1> USE <1>a, <1>b
<1>1. k \in Nat /\ Cardinality(M) = k + 1
  BY FS_CardinalityType, FS_AddElement
<1>2. /\ h \in [1 .. k -> L]
      /\ \A n \in L : \E j \in 1 .. k : h[j] = n
      /\ \A j, l \in 1 .. k : j < l => b[h[j]].LRU > b[h[l]].LRU
      /\ \A n \in L : b[n].LRU \in Nat
      /\ \A m, n \in L : b[m].LRU = b[n].LRU => m = n
  BY DEF Ordered, Timed
<1> HIDE DEF k
<1>3. /\ r[1] = x
      /\ \A j \in 2 .. k + 1 : j - 1 \in 1 .. k /\ r[j] = h[j - 1] /\ r[j] \in L
      /\ r = [j \in 1 .. k + 1 |-> r[j]]
  BY <1>1, <1>2 DEF Joined
<1> HIDE DEF r
<1>4. r \in [1 .. k + 1 -> M]
  <2>1. ASSUME NEW j \in 1 .. k + 1 PROVE r[j] \in M
    <3>1. CASE j = 1
      BY <1>3, <3>1
    <3>2. CASE j # 1
      <4>1. j \in 2 .. k + 1
        BY <1>1, <3>2
      <4>2. r[j] \in L
        BY <1>3, <4>1
      <4>3. QED
        BY <4>2
    <3>3. QED
      BY <3>1, <3>2
  <2>2. QED
    BY <1>3, <2>1, Zenon
<1>5. ASSUME NEW n \in M PROVE \E j \in 1 .. k + 1 : r[j] = n
  <2>1. CASE n = x
    BY <1>1, <1>3, <2>1
  <2>2. CASE n \in L
    <3>1. PICK j \in 1 .. k : h[j] = n
      BY <1>2, <2>2
    <3>2. j + 1 \in 2 .. k + 1 /\ (j + 1) - 1 = j /\ j + 1 \in 1 .. k + 1
      BY <1>1
    <3>3. r[j + 1] = n
      BY <1>3, <3>1, <3>2
    <3>4. QED
      BY <3>2, <3>3
  <2>3. QED
    BY <2>1, <2>2
<1>6. ASSUME NEW j \in 1 .. k + 1, NEW l \in 1 .. k + 1, j < l
      PROVE  c[r[j]].LRU > c[r[l]].LRU
  <2>1. l \in 2 .. k + 1
    BY <1>1, <1>6
  <2>2. /\ l - 1 \in 1 .. k /\ r[l] = h[l - 1] /\ r[l] \in L
        /\ c[r[l]].LRU = b[r[l]].LRU /\ b[r[l]].LRU < t /\ b[r[l]].LRU \in Nat
    BY <1>2, <1>3, <2>1
  <2>3. CASE j = 1
    BY <1>3, <2>2, <2>3
  <2>4. CASE j # 1
    <3>1. j \in 2 .. k + 1
      BY <1>1, <2>4
    <3>2. /\ j - 1 \in 1 .. k /\ r[j] = h[j - 1] /\ r[j] \in L
          /\ c[r[j]].LRU = b[r[j]].LRU
      BY <1>3, <3>1
    <3>3. j - 1 < l - 1
      BY <1>6
    <3>4. b[h[j - 1]].LRU > b[h[l - 1]].LRU
      BY <1>2, <2>2, <3>2, <3>3
    <3>5. QED
      BY <2>2, <3>2, <3>4
  <2>5. QED
    BY <2>3, <2>4
<1>7. Ordered(r, M, c)
  BY <1>1, <1>4, <1>5, <1>6 DEF Ordered
<1>8. Timed(M, c)
  <2>1. ASSUME NEW n \in M PROVE c[n].LRU \in Nat
    BY <1>2
  <2>2. ASSUME NEW m \in M, NEW n \in M, c[m].LRU = c[n].LRU PROVE m = n
    <3>1. CASE m = x \/ n = x
      BY <1>2, <2>2, <3>1
    <3>2. CASE m \in L /\ n \in L
      BY <1>2, <2>2, <3>2
    <3>3. QED
      BY <3>1, <3>2
  <2>3. QED
    BY <2>1, <2>2 DEF Timed
<1>9. QED
  BY <1>1, <1>7, <1>8 DEF k, r

-----------------------------------------------------------------------------
(* What a list s of k elements is with the n-th replaced by e in front,    *)
(* and with e put in front.                                                *)
Moved(s, k, n, e) ==
    [l \in 1 .. k |-> IF l = 1 THEN e ELSE IF l <= n THEN s[l - 1] ELSE s[l]]

Put(s, k, e) == [l \in 1 .. k + 1 |-> IF l = 1 THEN e ELSE s[l - 1]]

(* What the sequences hold that the actions of LRUSim build: one element *)
(* moved to the front, one put in front, the last one taken away.          *)
LEMMA MovedToFront ==
    ASSUME NEW C, NEW s \in Seq(C), NEW i \in 1 .. Len(s), NEW e \in C
    PROVE  <<e>> \o RemoveAt(s, i) = Moved(s, Len(s), i, e)
<1> DEFINE k == Len(s)
           u == SubSeq(s, 1, i - 1)
           v == SubSeq(s, i + 1, k)
           w == <<e>>
           r == [j \in 1 .. k |-> IF j = 1 THEN e ELSE IF j <= i THEN s[j - 1] ELSE s[j]]
<1>1. k \in Nat /\ i \in 1 .. k /\ \A j \in 1 .. k : s[j] \in C
  OBVIOUS
<1>2. RemoveAt(s, i) = u \o v
  BY Zenon DEF RemoveAt
<1> HIDE DEF k
<1>3. /\ u \in Seq(C) /\ Len(u) = i - 1
      /\ \A j \in 1 .. i - 1 : u[j] = s[j]
  <2>1. 1 \in Int /\ i - 1 \in Int /\ \A j \in 1 .. i - 1 : s[j] \in C
    BY <1>1
  <2>2. /\ u \in Seq(C) /\ Len(u) = (IF 1 <= i - 1 THEN (i - 1) - 1 + 1 ELSE 0)
        /\ \A j \in 1 .. (i - 1) - 1 + 1 : u[j] = s[1 + j - 1]
    <3> HIDE DEF u
    <3>1. QED
      BY <2>1, SubSeqProperties DEF u
  <2> HIDE DEF u
  <2>3. Len(u) = i - 1
    BY <1>1, <2>2
  <2>4. ASSUME NEW j \in 1 .. i - 1
        PROVE  u[j] = s[j]
    <3>1. j \in 1 .. (i - 1) - 1 + 1 /\ 1 + j - 1 = j
      BY <1>1
    <3>. QED
      BY <2>2, <3>1
  <2>5. QED
    BY <2>2, <2>3, <2>4
<1>4. /\ v \in Seq(C) /\ Len(v) = k - i
      /\ \A j \in 1 .. k - i : v[j] = s[i + j]
  <2>1. i + 1 \in Int /\ k \in Int /\ \A j \in i + 1 .. k : s[j] \in C
    BY <1>1
  <2>2. /\ v \in Seq(C) /\ Len(v) = (IF i + 1 <= k THEN k - (i + 1) + 1 ELSE 0)
        /\ \A j \in 1 .. k - (i + 1) + 1 : v[j] = s[(i + 1) + j - 1]
    <3> HIDE DEF v
    <3>1. QED
      BY <2>1, SubSeqProperties DEF v
  <2> HIDE DEF v
  <2>3. QED
    BY <1>1, <2>2
<1> HIDE DEF u, v
<1> DEFINE uv == u \o v
<1>5. /\ uv \in Seq(C) /\ Len(uv) = k - 1
      /\ \A j \in 1 .. k - 1 : uv[j] = IF j <= i - 1 THEN u[j] ELSE v[j - (i - 1)]
  <2>1. /\ uv \in Seq(C) /\ Len(uv) = Len(u) + Len(v)
        /\ \A j \in 1 .. Len(u) + Len(v) : uv[j] = IF j <= Len(u) THEN u[j] ELSE v[j - Len(u)]
    BY <1>3, <1>4, ConcatProperties
  <2> HIDE DEF uv
  <2>2. QED
    BY <1>1, <1>3, <1>4, <2>1
<1> HIDE DEF uv
<1>6. w \in Seq(C) /\ Len(w) = 1 /\ w[1] = e
  BY <1>1
<1> HIDE DEF w
<1> DEFINE z == w \o uv
<1>7. /\ z \in Seq(C) /\ Len(z) = k
      /\ \A j \in 1 .. k : z[j] = IF j <= 1 THEN w[j] ELSE uv[j - 1]
  <2>1. /\ z \in Seq(C) /\ Len(z) = Len(w) + Len(uv)
        /\ \A j \in 1 .. Len(w) + Len(uv) : z[j] = IF j <= Len(w) THEN w[j] ELSE uv[j - Len(w)]
    BY <1>5, <1>6, ConcatProperties
  <2> HIDE DEF z
  <2>2. QED
    BY <1>1, <1>5, <1>6, <2>1
<1> HIDE DEF z
<1>8. r \in Seq(C) /\ Len(r) = k
  BY <1>1
<1>9. ASSUME NEW j \in 1 .. k PROVE z[j] = r[j]
  <2>1. r[j] = IF j = 1 THEN e ELSE IF j <= i THEN s[j - 1] ELSE s[j]
    OBVIOUS
  <2> HIDE DEF r
  <2>2. CASE j = 1
    BY <1>6, <1>7, <2>1, <2>2
  <2>3. CASE j # 1
    <3>1. j - 1 \in 1 .. k - 1 /\ z[j] = uv[j - 1]
      BY <1>1, <1>7, <2>3
    <3>2. CASE j <= i
      <4>1. uv[j - 1] = u[j - 1] /\ j - 1 \in 1 .. i - 1
        BY <1>1, <1>5, <3>1, <3>2
      <4>2. QED
        BY <1>3, <2>1, <2>3, <3>1, <3>2, <4>1
    <3>3. CASE ~(j <= i)
      <4>1. uv[j - 1] = v[(j - 1) - (i - 1)] /\ (j - 1) - (i - 1) = j - i /\ j - i \in 1 .. k - i
        BY <1>1, <1>5, <3>1, <3>3
      <4>2. v[j - i] = s[i + (j - i)] /\ i + (j - i) = j
        BY <1>1, <1>4, <4>1
      <4>3. QED
        BY <2>1, <2>3, <3>1, <3>3, <4>1, <4>2
    <3>4. QED
      BY <3>2, <3>3
  <2>4. QED
    BY <2>2, <2>3
<1> HIDE DEF r
<1>10. z = r
  BY <1>7, <1>8, <1>9, SeqEqual
<1>11. QED
  BY <1>2, <1>10, Zenon DEF z, uv, w, r, k, Moved

LEMMA PutInFront ==
    ASSUME NEW C, NEW s \in Seq(C), NEW e \in C
    PROVE  <<e>> \o s = Put(s, Len(s), e)
<1> DEFINE w == <<e>>
           z == w \o s
           k == Len(s)
           r == [j \in 1 .. k + 1 |-> IF j = 1 THEN e ELSE s[j - 1]]
<1>1. k \in Nat /\ \A j \in 1 .. k : s[j] \in C
  OBVIOUS
<1>2. w \in Seq(C) /\ Len(w) = 1 /\ w[1] = e
  OBVIOUS
<1> HIDE DEF w
<1>3. /\ z \in Seq(C) /\ Len(z) = 1 + Len(s)
      /\ \A j \in 1 .. 1 + Len(s) : z[j] = IF j <= 1 THEN w[j] ELSE s[j - 1]
  <2>1. /\ z \in Seq(C) /\ Len(z) = Len(w) + Len(s)
        /\ \A j \in 1 .. Len(w) + Len(s) : z[j] = IF j <= Len(w) THEN w[j] ELSE s[j - Len(w)]
    BY <1>2, ConcatProperties
  <2> HIDE DEF z
  <2>2. QED
    BY <1>2, <2>1
<1> HIDE DEF z
<1>4. /\ \A j \in 1 .. k + 1 : r[j] = (IF j = 1 THEN e ELSE s[j - 1]) /\ r[j] \in C
      /\ r = [j \in 1 .. k + 1 |-> r[j]]
  <2> HIDE DEF k
  <2>1. \A j \in 1 .. k + 1 : r[j] = (IF j = 1 THEN e ELSE s[j - 1])
    OBVIOUS
  <2>2. r = [j \in 1 .. k + 1 |-> r[j]]
    OBVIOUS
  <2> HIDE DEF r
  <2>3. \A j \in 1 .. k + 1 : j # 1 => j - 1 \in 1 .. k
    BY <1>1
  <2>4. QED
    BY <1>1, <2>1, <2>2, <2>3
<1> HIDE DEF r
<1>5. r \in Seq(C) /\ Len(r) = k + 1
  <2> HIDE DEF k
  <2>1. r \in [1 .. k + 1 -> C]
    BY <1>4, Zenon
  <2>2. k + 1 \in Nat
    BY <1>1
  <2>3. QED
    BY <2>1, <2>2
<1>6. Len(z) = Len(r) /\ \A j \in 1 .. Len(z) : z[j] = r[j]
  <2>1. Len(z) = k + 1 /\ Len(r) = k + 1
    BY <1>1, <1>3, <1>5
  <2>2. ASSUME NEW j \in 1 .. k + 1 PROVE z[j] = r[j]
    <3>1. z[j] = IF j <= 1 THEN w[j] ELSE s[j - 1]
      BY <1>1, <1>3
    <3>2. r[j] = IF j = 1 THEN e ELSE s[j - 1]
      BY <1>4
    <3> HIDE DEF k
    <3>3. j <= 1 <=> j = 1
      BY <1>1
    <3>4. QED
      BY <1>2, <3>1, <3>2, <3>3
  <2>3. QED
    BY <2>1, <2>2, Zenon
<1>7. z = r
  BY <1>3, <1>5, <1>6, SeqEqual
<1>8. QED
  BY <1>7, Zenon DEF z, w, r, k, Put

LEMMA LastTaken ==
    ASSUME NEW C, NEW s \in Seq(C), s # <<>>
    PROVE  Front(s) = [j \in 1 .. Len(s) - 1 |-> s[j]]
<1> DEFINE k == Len(s)
           u == SubSeq(s, 1, k - 1)
           r == [j \in 1 .. k - 1 |-> s[j]]
<1>1. k \in Nat /\ k # 0 /\ \A j \in 1 .. k : s[j] \in C
  OBVIOUS
<1> HIDE DEF k
<1>2. 1 \in Int /\ k - 1 \in Int /\ \A j \in 1 .. k - 1 : s[j] \in C
  BY <1>1
<1>3. /\ u \in Seq(C) /\ Len(u) = (IF 1 <= k - 1 THEN (k - 1) - 1 + 1 ELSE 0)
      /\ \A j \in 1 .. (k - 1) - 1 + 1 : u[j] = s[1 + j - 1]
  <2> HIDE DEF u
  <2>1. QED
    BY <1>2, SubSeqProperties DEF u
<1> HIDE DEF u
<1>4. Len(u) = k - 1 /\ \A j \in 1 .. k - 1 : u[j] = s[j]
  BY <1>1, <1>3
<1>5. r \in Seq(C) /\ Len(r) = k - 1 /\ \A j \in 1 .. k - 1 : r[j] = s[j]
  BY <1>1
<1> HIDE DEF r
<1>6. u = r
  BY <1>3, <1>4, <1>5, SeqEqual
<1>7. QED
  BY <1>6, Zenon DEF Front, u, r, k

(* The last one gives way to e in front.                                   *)
LEMMA LastMoved ==
    ASSUME NEW C, NEW s \in Seq(C), NEW e \in C, s # <<>>
    PROVE  <<e>> \o Front(s) = Moved(s, Len(s), Len(s), e)
<1> DEFINE k == Len(s)
           f == Front(s)
<1>1. k \in Nat /\ k # 0 /\ \A j \in 1 .. k : s[j] \in C
  OBVIOUS
<1>2. f = [j \in 1 .. k - 1 |-> s[j]]
  BY LastTaken
<1> HIDE DEF k, f
<1>3. f \in Seq(C) /\ Len(f) = k - 1 /\ \A j \in 1 .. k - 1 : f[j] = s[j]
  <2>1. f \in [1 .. k - 1 -> C]
    BY <1>1, <1>2
  <2>2. k - 1 \in Nat
    BY <1>1
  <2>3. QED
    BY <1>2, <2>1, <2>2
<1>4. <<e>> \o f = Put(f, k - 1, e)
  <2>1. <<e>> \o f = Put(f, Len(f), e)
    BY <1>3, PutInFront
  <2>2. QED
    BY <1>3, <2>1, Zenon
<1>5. (k - 1) + 1 = k
  BY <1>1
<1>6. ASSUME NEW j \in 1 .. k
      PROVE  (IF j = 1 THEN e ELSE f[j - 1])
               = (IF j = 1 THEN e ELSE IF j <= k THEN s[j - 1] ELSE s[j])
  <2>1. j # 1 => j - 1 \in 1 .. k - 1 /\ j <= k
    BY <1>1
  <2>2. QED
    BY <1>3, <2>1
<1>7. Put(f, k - 1, e) = Moved(s, k, k, e)
  BY <1>5, <1>6, Zenon DEF Put, Moved
<1>8. QED
  BY <1>4, <1>7, Zenon DEF f, k

-----------------------------------------------------------------------------
(* Powers of two count subsets.                                            *)
LEMMA PowerIsPositive ==
    ASSUME NEW n \in Nat
    PROVE  2^n \in Nat \ {0}
<1> DEFINE S == 1 .. n
<1>1. IsFiniteSet(S) /\ Cardinality(S) = n
  BY FS_Interval
<1> HIDE DEF S
<1>2. IsFiniteSet(SUBSET S) /\ Cardinality(SUBSET S) = 2^n
  BY <1>1, FS_SUBSET
<1>3. SUBSET S # {}
  OBVIOUS
<1>4. QED
  BY <1>2, <1>3, FS_CardinalityType, FS_EmptySet

LEMMA PowerOfSum ==
    ASSUME NEW n \in Nat, NEW m \in Nat
    PROVE  2^(n + m) = 2^n * 2^m
<1> DEFINE S == 1 .. n
           T == n + 1 .. n + m
           U == 1 .. n + m
           P == (SUBSET S) \X (SUBSET T)
           f == [p \in P |-> p[1] \cup p[2]]
<1>1. IsFiniteSet(S) /\ Cardinality(S) = n
  BY FS_Interval
<1>2. IsFiniteSet(T) /\ Cardinality(T) = m
  <2>1. n + 1 \in Int /\ n + m \in Int
    OBVIOUS
  <2>2. IsFiniteSet(T) /\ Cardinality(T) = IF n + 1 > n + m THEN 0 ELSE (n + m) - (n + 1) + 1
    BY <2>1, FS_Interval
  <2> HIDE DEF T
  <2>3. QED
    BY <2>2
<1>3. IsFiniteSet(U) /\ Cardinality(U) = n + m
  <2>1. n + m \in Nat
    OBVIOUS
  <2>2. QED
    BY <2>1, FS_Interval
<1>4. S \cup T = U /\ S \cap T = {}
  OBVIOUS
<1> HIDE DEF S, T, U
<1>5. f \in Bijection(P, SUBSET U)
  <2>1. \A p \in P : f[p] = p[1] \cup p[2] /\ p = <<p[1], p[2]>>
                     /\ p[1] \in SUBSET S /\ p[2] \in SUBSET T
    OBVIOUS
  <2>2. f \in [P -> SUBSET U]
    BY <1>4
  <2> HIDE DEF f
  <2>3. ASSUME NEW p \in P, NEW r \in P, f[p] = f[r] PROVE p = r
    <3>1. p[1] = f[p] \cap S /\ r[1] = f[r] \cap S
      BY <1>4, <2>1
    <3>2. p[2] = f[p] \cap T /\ r[2] = f[r] \cap T
      BY <1>4, <2>1
    <3>3. p[1] = r[1] /\ p[2] = r[2]
      BY <2>3, <3>1, <3>2
    <3>4. p = <<p[1], p[2]>> /\ r = <<r[1], r[2]>>
      BY <2>1, Zenon
    <3>5. QED
      BY <3>3, <3>4, Zenon
  <2>4. ASSUME NEW V \in SUBSET U PROVE \E p \in P : f[p] = V
    <3>1. <<V \cap S, V \cap T>> \in P
      OBVIOUS
    <3>2. f[<<V \cap S, V \cap T>>] = (V \cap S) \cup (V \cap T)
      BY <2>1, <3>1
    <3>3. (V \cap S) \cup (V \cap T) = V
      BY <1>4
    <3>4. QED
      BY <3>1, <3>2, <3>3
  <2> HIDE DEF P
  <2>5. QED
    BY <2>2, <2>3, <2>4 DEF Bijection, Injection, Surjection, IsInjective
<1>6. /\ IsFiniteSet(SUBSET S) /\ Cardinality(SUBSET S) = 2^n
      /\ IsFiniteSet(SUBSET T) /\ Cardinality(SUBSET T) = 2^m
      /\ Cardinality(SUBSET U) = 2^(n + m)
  BY <1>1, <1>2, <1>3, FS_SUBSET
<1>7. IsFiniteSet(P) /\ Cardinality(P) = Cardinality(SUBSET S) * Cardinality(SUBSET T)
  BY <1>6, FS_Product
<1> HIDE DEF P
<1>8. Cardinality(P) = Cardinality(SUBSET U)
  BY <1>5, <1>7, FS_Bijection DEF ExistsBijection
<1>9. QED
  BY <1>6, <1>7, <1>8

(* Dividing twice, and what is left over.                                  *)
LEMMA DividedTwice ==
    ASSUME NEW x \in Nat, NEW B \in Nat \ {0}, NEW S \in Nat \ {0}
    PROVE  /\ (x \div (S * B)) * S + ((x \div B) % S) = x \div B
           /\ x \div (S * B) \in Nat /\ x \div B \in Nat /\ (x \div B) % S \in 0 .. S - 1
<1>1. S * B \in Nat \ {0}
  OBVIOUS
<1>2. (x \div B) \div S = x \div (S * B)
  BY <1>1
<1>3. PICK y \in Nat : y = x \div B
  OBVIOUS
<1>4. (y \div S) * S + (y % S) = y /\ y % S \in 0 .. S - 1 /\ y \div S \in Nat
  OBVIOUS
<1>5. QED
  BY <1>2, <1>3, <1>4

(* Tag and set index are the block number in two parts.                    *)
LEMMA BlockInTwo ==
    ASSUME NEW addr \in Nat
    PROVE  /\ getTag(addr) \in Nat /\ getSetIndex(addr) \in SetIndex
           /\ getTag(addr) * numSets + getSetIndex(addr) = addr \div blockSize
           /\ getSetIndex(addr) = (addr \div blockSize) % numSets
           /\ numSets \in Nat \ {0} /\ blockSize \in Nat \ {0}
<1>1. numSets \in Nat \ {0} /\ blockSize \in Nat \ {0}
  BY PowerIsPositive, GeometryAssumption DEF numSets, blockSize
<1>2. 2^(setBits + blockBits) = numSets * blockSize
  BY PowerOfSum, GeometryAssumption DEF numSets, blockSize
<1>3. /\ getTag(addr) = addr \div (numSets * blockSize)
      /\ getSetIndex(addr) = (addr \div blockSize) % numSets
  BY <1>2 DEF getTag, getSetIndex, numSets, blockSize
<1>4. /\ (addr \div (numSets * blockSize)) * numSets + ((addr \div blockSize) % numSets)
            = addr \div blockSize
      /\ addr \div (numSets * blockSize) \in Nat
      /\ (addr \div blockSize) % numSets \in 0 .. numSets - 1
  BY ONLY <1>1, DividedTwice, Zenon
<1>. QED
  BY <1>1, <1>3, <1>4, Zenon DEF SetIndex

(* Blocks of one set differ in their tags.                                 *)
LEMMA TagsDiffer ==
    ASSUME NEW s \in Nat, NEW u \in Nat, NEW i \in Nat, numSets \in Nat \ {0},
           s * numSets + i = u * numSets + i
    PROVE  s = u
<1>1. PICK S \in Nat \ {0} : S = numSets
  OBVIOUS
<1>2. s * S = u * S
  BY <1>1
<1>3. QED
  BY <1>2

-----------------------------------------------------------------------------
(* A line, and the lines in use.                                           *)
Line == [valid : BOOLEAN, dirty : BOOLEAN, LRU : Nat, tag : Nat]

Used(lines) == {j \in Lines : lines[j].valid}

(* The lines of a set at time t: those in use come first, were used at     *)
(* different times up to t and hold different blocks, and only they may be *)
(* dirty.                                                                  *)
SetOK(lines, t) ==
    /\ lines \in [Lines -> Line]
    /\ \A j \in Lines, k \in Lines : k < j /\ lines[j].valid => lines[k].valid
    /\ \A j \in Lines : lines[j].dirty => lines[j].valid
    /\ \A j \in Lines : lines[j].LRU <= t
    /\ Timed(Used(lines), lines)
    /\ \A j \in Used(lines), k \in Used(lines) : lines[j].tag = lines[k].tag => j = k

(* No line but j holds the block of a tag.                                 *)
NoOther(lines, j, tag) == \A k \in Used(lines) : lines[k].tag = tag => k = j

Listing(lines, i) == ListOf(Used(lines), lines, i)

Listed == [block : Nat, dirty : BOOLEAN]

(* The lines in use are as many first ones.                                *)
LEMMA UsedComeFirst ==
    ASSUME NEW t, NEW lines, SetOK(lines, t)
    PROVE  /\ IsFiniteSet(Used(lines)) /\ Cardinality(Used(lines)) \in 0 .. numLines
           /\ Used(lines) = 0 .. Cardinality(Used(lines)) - 1
           /\ Searched(lines) = Used(lines)
<1> DEFINE T == {m \in 0 .. numLines : m \notin Used(lines)}
<1>1. numLines \in Nat \ {0}
  BY GeometryAssumption
<1>2. T \in SUBSET Nat /\ T # {}
  <2>1. numLines \in T
    BY <1>1 DEF Used, Lines
  <2>2. QED
    BY <1>1, <2>1
<1>3. PICK m \in T : \A n \in T : m <= n
  <2> HIDE DEF T
  <2>1. QED
    BY <1>2, LeastExists
<1>4. m \in 0 .. numLines /\ m \notin Used(lines)
  OBVIOUS
<1>5. \A j \in 0 .. m - 1 : j \in Used(lines)
  <2>1. ASSUME NEW j \in 0 .. m - 1 PROVE j \in Used(lines)
    <3>1. j \in 0 .. numLines /\ ~(m <= j)
      BY <1>1, <1>4
    <3>2. j \notin T
      BY <1>3, <3>1
    <3>3. QED
      BY <3>1, <3>2
  <2>2. QED
    BY <2>1
<1>6. \A j \in Used(lines) : j \in 0 .. m - 1
  <2>1. ASSUME NEW j \in Used(lines) PROVE j \in 0 .. m - 1
    <3>1. j \in Lines /\ j \in 0 .. numLines - 1 /\ lines[j].valid
      BY DEF Used, Lines
    <3>2. CASE j < m
      BY <3>1, <3>2
    <3>3. CASE j = m
      BY <1>4, <3>3
    <3>4. CASE m < j
      <4>1. m \in Lines
        BY <1>1, <1>4, <3>1, <3>4 DEF Lines
      <4>2. lines[m].valid
        BY <3>1, <3>4, <4>1 DEF SetOK
      <4>3. QED
        BY <1>4, <4>1, <4>2 DEF Used
    <3>5. QED
      BY <1>1, <1>4, <3>1, <3>2, <3>3, <3>4
  <2>2. QED
    BY <2>1
<1> HIDE DEF T
<1>7. Used(lines) = 0 .. m - 1
  BY <1>5, <1>6
<1>8. IsFiniteSet(Used(lines)) /\ Cardinality(Used(lines)) = m
  <2>1. IsFiniteSet(0 .. m - 1) /\ Cardinality(0 .. m - 1) = IF 0 > m - 1 THEN 0 ELSE (m - 1) - 0 + 1
    BY <1>1, <1>4, FS_Interval
  <2>2. QED
    BY <1>1, <1>4, <1>7, <2>1
<1>9. Searched(lines) = Used(lines)
  <2>1. ASSUME NEW j \in Searched(lines) PROVE j \in Used(lines)
    <3>1. j \in Lines /\ j \in 0 .. j
      BY DEF Searched, Lines
    <3>2. QED
      BY <3>1 DEF Searched, Used
  <2>2. ASSUME NEW j \in Used(lines) PROVE j \in Searched(lines)
    <3>1. j \in Lines
      BY DEF Used
    <3>2. ASSUME NEW k \in 0 .. j PROVE lines[k].valid
      <4>1. k \in 0 .. m - 1
        BY <1>1, <1>4, <1>6
      <4>2. QED
        BY <1>5, <4>1 DEF Used
    <3>3. QED
      BY <3>1, <3>2 DEF Searched
  <2>3. QED
    BY <2>1, <2>2
<1>10. QED
  BY <1>1, <1>4, <1>7, <1>8, <1>9

(* Their list has an element for each.                                     *)
LEMMA ListOfUsed ==
    ASSUME NEW t, NEW lines, SetOK(lines, t), NEW i \in SetIndex,
           NEW h, Ordered(h, Used(lines), lines)
    PROVE  /\ Listing(lines, i) \in Seq(Listed)
           /\ Len(Listing(lines, i)) = Cardinality(Used(lines))
           /\ \A n \in 1 .. Cardinality(Used(lines)) :
                 /\ h[n] \in Used(lines)
                 /\ Listing(lines, i)[n] = Item(lines, i, h[n])
           /\ Listing(lines, i)
                = [n \in 1 .. Cardinality(Used(lines)) |-> Item(lines, i, h[n])]
<1> DEFINE k == Cardinality(Used(lines))
           L == Used(lines)
           list == Listing(lines, i)
<1>1. IsFiniteSet(L) /\ k \in Nat /\ Timed(L, lines)
  BY UsedComeFirst, FS_CardinalityType DEF SetOK
<1>2. list = [n \in 1 .. k |-> Item(lines, i, h[n])]
  <2> HIDE DEF L
  <2>1. Ordered(h, L, lines)
    BY DEF L
  <2>2. ListIs(L, lines, i, h)
    BY <1>1, <2>1, ListInOrder
  <2>3. QED
    BY <2>2, Zenon DEF L, k, list, Listing, ListIs
<1>3. \A n \in 1 .. k : h[n] \in L
  BY DEF Ordered
<1>4. ASSUME NEW j \in L PROVE Item(lines, i, j) \in Listed
  <2>1. j \in Lines
    BY DEF Used
  <2>2. lines[j] \in Line
    BY <2>1 DEF SetOK
  <2>3. numSets \in Nat \ {0} /\ i \in Nat
    BY PowerIsPositive, GeometryAssumption DEF numSets, SetIndex
  <2>4. lines[j].tag * numSets + i \in Nat
    BY <2>2, <2>3 DEF Line
  <2>5. QED
    BY <2>2, <2>4 DEF Item, Listed, Line
<1> HIDE DEF k, L, list
<1>5. \A n \in 1 .. k : Item(lines, i, h[n]) \in Listed
  BY <1>3, <1>4
<1>6. list \in [1 .. k -> Listed] /\ \A n \in 1 .. k : list[n] = Item(lines, i, h[n])
  BY <1>2, <1>5
<1>7. list \in Seq(Listed) /\ Len(list) = k
  BY <1>1, <1>6
<1>8. QED
  BY <1>2, <1>3, <1>6, <1>7, Zenon DEF k, L, list

(* They can be listed.                                                     *)
LEMMA UsedAreOrdered ==
    ASSUME NEW t, NEW lines, SetOK(lines, t)
    PROVE  \E h : Ordered(h, Used(lines), lines)
<1> DEFINE L == Used(lines)
<1>1. IsFiniteSet(L) /\ Timed(L, lines)
  BY UsedComeFirst DEF SetOK
<1> HIDE DEF L
<1>2. \E h : Ordered(h, L, lines)
  BY <1>1, OrderExists
<1>3. QED
  BY <1>2 DEF L

-----------------------------------------------------------------------------
(* The set after line j is used at the next time for the block of a tag.   *)
UsedNow(lines, j, t, d, tag) ==
    [lines EXCEPT ![j] = [valid |-> TRUE, dirty |-> d, LRU |-> t + 1, tag |-> tag]]

LEMMA UsedNowLines ==
    ASSUME NEW t \in Nat, NEW lines, SetOK(lines, t), NEW j \in Lines,
           NEW d \in BOOLEAN, NEW tag \in Nat,
           NEW new, new = UsedNow(lines, j, t, d, tag)
    PROVE  /\ new[j].valid /\ new[j].dirty = d /\ new[j].LRU = t + 1 /\ new[j].tag = tag
           /\ \A k \in Lines : k # j => new[k] = lines[k]
           /\ Used(new) = Used(lines) \cup {j}
           /\ /\ \A k \in Lines : k < j => lines[k].valid
              /\ Timed(Used(new), new) /\ NoOther(lines, j, tag)
              => SetOK(new, t + 1)
<1>1. /\ lines \in [Lines -> Line]
      /\ \A m \in Lines, k \in Lines : k < m /\ lines[m].valid => lines[k].valid
      /\ \A m \in Lines : lines[m].dirty => lines[m].valid
      /\ \A m \in Lines : lines[m].LRU <= t
  BY DEF SetOK
<1>2. /\ new[j] = [valid |-> TRUE, dirty |-> d, LRU |-> t + 1, tag |-> tag]
      /\ \A k \in Lines : k # j => new[k] = lines[k]
      /\ new = [k \in Lines |-> new[k]]
  BY <1>1 DEF UsedNow
<1>3. new[j] \in Line /\ new[j].valid /\ new[j].dirty = d /\ new[j].LRU = t + 1 /\ new[j].tag = tag
  BY <1>2 DEF Line
<1>4. Used(new) = Used(lines) \cup {j}
  BY <1>2, <1>3 DEF Used
<1>5. ASSUME \A k \in Lines : k < j => lines[k].valid, Timed(Used(new), new),
             NoOther(lines, j, tag)
      PROVE  SetOK(new, t + 1)
  <2>1. new \in [Lines -> Line]
    <3>1. \A k \in Lines : new[k] \in Line
      BY <1>1, <1>2, <1>3
    <3>2. QED
      BY <1>2, <3>1, Zenon
  <2>2. ASSUME NEW m \in Lines, NEW k \in Lines, k < m, new[m].valid
        PROVE  new[k].valid
    <3>1. CASE k = j
      BY <1>3, <3>1
    <3>2. CASE k # j /\ m = j
      BY <1>2, <1>5, <2>2, <3>2
    <3>3. CASE k # j /\ m # j
      BY <1>1, <1>2, <2>2, <3>3
    <3>4. QED
      BY <3>1, <3>2, <3>3
  <2>3. ASSUME NEW m \in Lines PROVE (new[m].dirty => new[m].valid) /\ new[m].LRU <= t + 1
    <3>1. CASE m = j
      BY <1>3, <3>1
    <3>2. CASE m # j
      <4>1. lines[m].LRU \in Nat /\ lines[m].LRU <= t /\ new[m] = lines[m]
        BY <1>1, <1>2, <3>2 DEF Line
      <4>2. QED
        BY <1>1, <4>1
    <3>3. QED
      BY <3>1, <3>2
  <2>4. ASSUME NEW m \in Used(new), NEW k \in Used(new), new[m].tag = new[k].tag
        PROVE  m = k
    <3>1. m \in Used(lines) \cup {j} /\ k \in Used(lines) \cup {j}
      BY <1>4
    <3>2. \A l \in Used(lines) : l # j => new[l].tag = lines[l].tag /\ lines[l].tag # tag
      BY <1>2, <1>5 DEF NoOther, Used
    <3>3. CASE m = j \/ k = j
      BY <1>3, <2>4, <3>1, <3>2, <3>3
    <3>4. CASE m # j /\ k # j
      BY <2>4, <3>1, <3>2, <3>4 DEF SetOK
    <3>5. QED
      BY <3>3, <3>4
  <2>5. QED
    BY <1>5, <2>1, <2>2, <2>3, <2>4 DEF SetOK
<1>6. QED
  BY <1>2, <1>3, <1>4, <1>5

(* A line in use that is used again comes to the front.                    *)
LEMMA UsedAgain ==
    ASSUME NEW t \in Nat, NEW lines, SetOK(lines, t), NEW i \in SetIndex,
           NEW h, Ordered(h, Used(lines), lines),
           NEW n \in 1 .. Cardinality(Used(lines)), NEW j, j = h[n],
           NEW d \in BOOLEAN, NEW tag \in Nat, NoOther(lines, j, tag),
           NEW new, new = UsedNow(lines, j, t, d, tag)
    PROVE  /\ SetOK(new, t + 1) /\ Used(new) = Used(lines)
           /\ Listing(new, i) = Moved(Listing(lines, i), Cardinality(Used(lines)), n, Item(new, i, j))
<1> DEFINE L == Used(lines)
           k == Cardinality(L)
           r == Renewed(h, k, n)
<1>1. /\ IsFiniteSet(L) /\ k \in Nat /\ Timed(L, lines) /\ n \in 1 .. k
      /\ lines \in [Lines -> Line] /\ L = {m \in Lines : lines[m].valid}
      /\ \A m \in Lines : lines[m].LRU \in Nat /\ lines[m].LRU <= t
  BY UsedComeFirst, FS_CardinalityType DEF SetOK, Used, Line
<1>2. /\ Ordered(h, L, lines) /\ h \in [1 .. k -> L]
      /\ \A l, m \in 1 .. k : l < m => lines[h[l]].LRU > lines[h[m]].LRU
  BY DEF Ordered
<1>3. j \in L /\ j \in Lines
  BY <1>1, <1>2
<1>4. /\ new[j].valid /\ new[j].dirty = d /\ new[j].LRU = t + 1 /\ new[j].tag = tag
      /\ \A m \in Lines : m # j => new[m] = lines[m]
      /\ Used(new) = L
      /\ (/\ \A m \in Lines : m < j => lines[m].valid
          /\ Timed(Used(new), new) /\ NoOther(lines, j, tag)) => SetOK(new, t + 1)
  <2>1. /\ new[j].valid /\ new[j].dirty = d /\ new[j].LRU = t + 1 /\ new[j].tag = tag
        /\ \A m \in Lines : m # j => new[m] = lines[m]
        /\ Used(new) = Used(lines) \cup {j}
        /\ (/\ \A m \in Lines : m < j => lines[m].valid
          /\ Timed(Used(new), new) /\ NoOther(lines, j, tag)) => SetOK(new, t + 1)
    BY <1>3, UsedNowLines
  <2> HIDE DEF L
  <2>2. Used(lines) \cup {j} = L
    BY <1>3 DEF L
  <2>3. QED
    BY <2>1, <2>2
<1>5. \A m \in Lines : m < j => lines[m].valid
  BY <1>1, <1>3 DEF SetOK
<1>6. Timed(L, new) /\ Ordered(r, L, new)
  <2>0. PICK u \in Nat : u = t + 1
    OBVIOUS
  <2>1. /\ new[h[n]].LRU = u
        /\ \A m \in L : lines[m].LRU < u
        /\ \A m \in L : m # h[n] => new[m].LRU = lines[m].LRU
    BY <1>1, <1>4, <2>0
  <2>a. LastUsed(L, lines, new, h[n], u)
    BY <2>1, Zenon DEF LastUsed
  <2> HIDE DEF L
  <2>2. Timed(L, new) /\ Ordered(Renewed(h, Cardinality(L), n), L, new)
    BY <1>1, <1>2, <2>a, OrderAfterHit
  <2>3. QED
    BY <2>2
<1>7. SetOK(new, t + 1)
  BY <1>4, <1>5, <1>6
<1>8. Listing(new, i) = [l \in 1 .. k |-> Item(new, i, r[l])]
  <2>1. Ordered(r, Used(new), new)
    BY <1>4, <1>6
  <2> HIDE DEF r, L
  <2>2. Listing(new, i) = [l \in 1 .. Cardinality(Used(new)) |-> Item(new, i, r[l])]
    BY <1>7, <2>1, ListOfUsed
  <2>3. QED
    BY <1>4, <2>2, Zenon
<1>9. \A l \in 1 .. k : Listing(lines, i)[l] = Item(lines, i, h[l]) /\ h[l] \in L
  BY ListOfUsed
<1>10. \A l \in 1 .. k : l # n => h[l] # j
  <2>1. ASSUME NEW l \in 1 .. k, l # n PROVE h[l] # j
    <3>1. lines[h[l]].LRU > lines[j].LRU \/ lines[j].LRU > lines[h[l]].LRU
      BY <1>1, <1>2, <2>1
    <3>2. lines[j].LRU \in Nat
      BY <1>1, <1>3
    <3>3. QED
      BY <3>1, <3>2
  <2>2. QED
    BY <2>1
<1> DEFINE s == Listing(lines, i)
           e == Item(new, i, j)
<1>11. ASSUME NEW l \in 1 .. k
       PROVE  Item(new, i, r[l]) = IF l = 1 THEN e ELSE IF l <= n THEN s[l - 1] ELSE s[l]
  <2>1. r[l] = IF l = 1 THEN h[n] ELSE IF l <= n THEN h[l - 1] ELSE h[l]
    BY Zenon DEF Renewed
  <2>2. ASSUME NEW m \in 1 .. k, m # n PROVE Item(new, i, h[m]) = s[m]
    <3>1. h[m] \in Lines /\ h[m] # j /\ s[m] = Item(lines, i, h[m])
      BY <1>1, <1>9, <1>10, <2>2
    <3>2. new[h[m]] = lines[h[m]]
      BY <1>4, <3>1
    <3>3. QED
      BY <3>1, <3>2 DEF Item
  <2> HIDE DEF r, s, k, e
  <2>3. CASE l = 1
    BY <2>1, <2>3, Zenon DEF e
  <2>4. CASE l # 1 /\ l <= n
    <3>1. l - 1 \in 1 .. k /\ l - 1 # n
      BY <1>1, <2>4
    <3>2. QED
      BY <2>1, <2>2, <2>4, <3>1
  <2>5. CASE l # 1 /\ ~(l <= n)
    <3>1. l # n
      BY <1>1, <2>5
    <3>2. QED
      BY <2>1, <2>2, <2>5, <3>1
  <2>6. QED
    BY <2>3, <2>4, <2>5
<1> HIDE DEF r, s, k, e
<1>12. Listing(new, i) = Moved(s, k, n, e)
  BY <1>8, <1>11, Zenon DEF Moved
<1>13. QED
  BY <1>4, <1>7, <1>12, Zenon DEF s, k, e

(* The first line not in use comes to the front when it is filled.         *)
LEMMA UsedFirst ==
    ASSUME NEW t \in Nat, NEW lines, SetOK(lines, t), NEW i \in SetIndex,
           NEW j \in Lines, j = Cardinality(Used(lines)),
           NEW d \in BOOLEAN, NEW tag \in Nat, NoOther(lines, j, tag),
           NEW new, new = UsedNow(lines, j, t, d, tag)
    PROVE  /\ SetOK(new, t + 1)
           /\ Listing(new, i) = Put(Listing(lines, i), Cardinality(Used(lines)), Item(new, i, j))
<1> DEFINE L == Used(lines)
           k == Cardinality(L)
<1>0. PICK h : Ordered(h, L, lines)
  BY UsedAreOrdered
<1> DEFINE r == Joined(h, k, j)
<1>1. /\ IsFiniteSet(L) /\ k \in Nat /\ Timed(L, lines) /\ L = 0 .. k - 1
      /\ lines \in [Lines -> Line] /\ L = {m \in Lines : lines[m].valid}
      /\ \A m \in Lines : lines[m].LRU \in Nat /\ lines[m].LRU <= t
  <2>1. IsFiniteSet(L) /\ L = 0 .. k - 1
    BY UsedComeFirst
  <2>2. k \in Nat
    BY <2>1, FS_CardinalityType
  <2>3. L = {m \in Lines : lines[m].valid}
    BY DEF Used
  <2> HIDE DEF k
  <2>4. /\ Timed(L, lines) /\ lines \in [Lines -> Line]
        /\ \A m \in Lines : lines[m].LRU <= t
    BY DEF SetOK
  <2>5. \A m \in Lines : lines[m].LRU \in Nat
    BY <2>4 DEF Line
  <2>6. QED
    BY <2>1, <2>2, <2>3, <2>4, <2>5
<1>2. j = k
  OBVIOUS
<1>3. j = k /\ j \notin L /\ L \in SUBSET Lines
  <2>1. L \in SUBSET Lines
    BY DEF Used
  <2> HIDE DEF L, k
  <2>2. QED
    BY <1>1, <1>2, <2>1
<1>4. /\ new[j].valid /\ new[j].dirty = d /\ new[j].LRU = t + 1 /\ new[j].tag = tag
      /\ \A m \in Lines : m # j => new[m] = lines[m]
      /\ Used(new) = L \cup {j}
      /\ (/\ \A m \in Lines : m < j => lines[m].valid
          /\ Timed(Used(new), new) /\ NoOther(lines, j, tag)) => SetOK(new, t + 1)
  BY UsedNowLines
<1>5. \A m \in Lines : m < j => lines[m].valid
  <2>1. ASSUME NEW m \in Lines, m < j PROVE lines[m].valid
    <3>1. m \in 0 .. k - 1
      BY <1>1, <1>3, <2>1 DEF Lines
    <3>2. QED
      BY <1>1, <3>1
  <2>2. QED
    BY <2>1
<1>6. /\ Timed(L \cup {j}, new) /\ Cardinality(L \cup {j}) = k + 1
      /\ Ordered(r, L \cup {j}, new)
  <2>0. PICK u \in Nat : u = t + 1
    OBVIOUS
  <2> HIDE DEF L
  <2>1. /\ new[j].LRU = u
        /\ \A m \in L : lines[m].LRU < u /\ new[m].LRU = lines[m].LRU
    <3>1. \A m \in L : m \in Lines /\ m # j
      BY <1>3
    <3>2. QED
      BY <1>1, <1>4, <2>0, <3>1
  <2>2. /\ Timed(L \cup {j}, new) /\ Cardinality(L \cup {j}) = Cardinality(L) + 1
        /\ Ordered(Joined(h, Cardinality(L), j), L \cup {j}, new)
    <3>1. LastUsed(L, lines, new, j, u)
      BY <2>1, Zenon DEF LastUsed
    <3>2. QED
      BY <1>0, <1>1, <1>3, <3>1, OrderAfterInsertion
  <2>3. QED
    BY <2>2
<1>7. SetOK(new, t + 1)
  BY <1>4, <1>5, <1>6
<1>8. Listing(new, i) = [l \in 1 .. k + 1 |-> Item(new, i, r[l])]
  <2>1. Ordered(r, Used(new), new)
    BY <1>4, <1>6
  <2> HIDE DEF r, L
  <2>2. Listing(new, i) = [l \in 1 .. Cardinality(Used(new)) |-> Item(new, i, r[l])]
    BY <1>7, <2>1, ListOfUsed
  <2>3. QED
    BY <1>4, <1>6, <2>2, Zenon
<1>9. \A l \in 1 .. k : Listing(lines, i)[l] = Item(lines, i, h[l]) /\ h[l] \in L
  BY <1>0, ListOfUsed
<1> DEFINE s == Listing(lines, i)
           e == Item(new, i, j)
<1>11. ASSUME NEW l \in 1 .. k + 1
       PROVE  Item(new, i, r[l]) = IF l = 1 THEN e ELSE s[l - 1]
  <2>1. r[l] = IF l = 1 THEN j ELSE h[l - 1]
    BY Zenon DEF Joined
  <2>2. ASSUME NEW m \in 1 .. k PROVE Item(new, i, h[m]) = s[m]
    <3>1. h[m] \in Lines /\ h[m] # j /\ s[m] = Item(lines, i, h[m])
      BY <1>1, <1>3, <1>9
    <3>2. new[h[m]] = lines[h[m]]
      BY <1>4, <3>1
    <3>3. QED
      BY <3>1, <3>2 DEF Item
  <2> HIDE DEF r, s, k, e
  <2>3. CASE l = 1
    BY <2>1, <2>3, Zenon DEF e
  <2>4. CASE l # 1
    <3>1. l - 1 \in 1 .. k
      BY <1>1, <2>4
    <3>2. QED
      BY <2>1, <2>2, <2>4, <3>1
  <2>5. QED
    BY <2>3, <2>4
<1> HIDE DEF r, s, k, e
<1>12. Listing(new, i) = Put(s, k, e)
  BY <1>8, <1>11, Zenon DEF Put
<1>13. QED
  BY <1>7, <1>12, Zenon DEF s, k, e

-----------------------------------------------------------------------------
CacheInfo == [time : Nat, hits : Nat, misses : Nat, evicts : Nat, dirtyEvicted : Nat]

(* While a trace is read every set is as SetOK says, and the summary is    *)
(* the last thing written.                                                 *)
SimInv ==
    /\ cacheInfo \in CacheInfo /\ cacheInfo.time <= MaxTime
    /\ simAt \in {"options", "trace", "exited"}
    /\ simAt # "exited" => summary = <<>>
    /\ simAt = "trace" =>
          /\ DOMAIN sets = SetIndex /\ sets = [i \in SetIndex |-> sets[i]]
          /\ \A i \in SetIndex : SetOK(sets[i], cacheInfo.time)
    /\ simAt # "trace" => sets = <<>>

(* As Recent, of any sets.                                                 *)
RecentOf(ss) == [i \in SetIndex |-> IF ss = <<>> THEN <<>> ELSE Listing(ss[i], i)]

LEMMA RecentIs == Recent = RecentOf(sets) /\ Recent' = RecentOf(sets')
<1>1. Recent = RecentOf(sets)
  BY DEF Recent, Recency, RecentOf, Listing, ListOf, Used, Younger, Item
<1>2. Recent' = RecentOf(sets')
  BY DEF Recent, Recency, RecentOf, Listing, ListOf, Used, Younger, Item
<1>3. QED
  BY <1>1, <1>2

LEMMA ThereAreSets == 0 \in SetIndex /\ numSets \in Nat \ {0} /\ blockSize \in Nat \ {0}
  BY PowerIsPositive, GeometryAssumption DEF numSets, blockSize, SetIndex

LEMMA SomeSets ==
    ASSUME NEW ss, DOMAIN ss = SetIndex
    PROVE  RecentOf(ss) = [i \in SetIndex |-> Listing(ss[i], i)]
<1>1. ss # <<>>
  <2>1. DOMAIN <<>> = {}
    OBVIOUS
  <2>2. QED
    BY <2>1, ThereAreSets
<1>2. QED
  BY <1>1, Zenon DEF RecentOf

LEMMA NoSets == RecentOf(<<>>) = Simulator!Empty
  BY DEF RecentOf, Simulator!Empty, SetIndex

(* A time later the lines are still in order.                              *)
LEMMA LaterOK ==
    ASSUME NEW t \in Nat, NEW lines, SetOK(lines, t)
    PROVE  SetOK(lines, t + 1)
<1>1. ASSUME NEW j \in Lines PROVE lines[j].LRU <= t + 1
  <2>1. lines[j].LRU \in Nat /\ lines[j].LRU <= t
    BY DEF SetOK, Line
  <2>2. QED
    BY <2>1
<1>2. QED
  BY <1>1 DEF SetOK

(* What an instruction does to one set it does to the list of that set.    *)
LEMMA OneSetChanges ==
    ASSUME SimInv, simAt = "trace", cacheInfo.time < MaxTime, UNCHANGED <<summary, simAt>>,
           NEW i \in SetIndex, NEW new, SetOK(new, cacheInfo.time + 1),
           sets' = [sets EXCEPT ![i] = new],
           cacheInfo' \in CacheInfo, cacheInfo'.time = cacheInfo.time + 1
    PROVE  /\ SimInv'
           /\ Recent[i] = Listing(sets[i], i)
           /\ Recent' = [Recent EXCEPT ![i] = Listing(new, i)]
<1>1. /\ DOMAIN sets = SetIndex /\ sets = [m \in SetIndex |-> sets[m]]
      /\ \A m \in SetIndex : SetOK(sets[m], cacheInfo.time)
      /\ cacheInfo.time \in Nat /\ MaxTime \in Nat
  BY MinAssumption DEF SimInv, CacheInfo
<1>2. /\ DOMAIN sets' = SetIndex /\ sets' = [m \in SetIndex |-> sets'[m]]
      /\ sets'[i] = new /\ \A m \in SetIndex : m # i => sets'[m] = sets[m]
  BY <1>1
<1>3. ASSUME NEW m \in SetIndex PROVE SetOK(sets'[m], cacheInfo'.time)
  <2>1. CASE m = i
    BY <1>2, <2>1
  <2>2. CASE m # i
    <3>1. SetOK(sets[m], cacheInfo.time + 1)
      BY <1>1, LaterOK
    <3>2. QED
      BY <1>2, <2>2, <3>1
  <2>3. QED
    BY <2>1, <2>2
<1>4. SimInv'
  <2>1. cacheInfo'.time <= MaxTime
    BY <1>1
  <2>2. QED
    BY <1>2, <1>3, <2>1 DEF SimInv
<1>5. Recent = [m \in SetIndex |-> Listing(sets[m], m)]
  BY <1>1, SomeSets, RecentIs
<1>6. Recent' = [m \in SetIndex |-> Listing(sets'[m], m)]
  <2> DEFINE ss == sets'
  <2>1. DOMAIN ss = SetIndex
    BY <1>2
  <2> HIDE DEF ss
  <2>2. RecentOf(ss) = [m \in SetIndex |-> Listing(ss[m], m)]
    BY <2>1, SomeSets
  <2>3. QED
    BY <2>2, RecentIs DEF ss
<1>7. \A m \in SetIndex : m # i => Listing(sets'[m], m) = Listing(sets[m], m)
  BY <1>2
<1>8. Listing(sets'[i], i) = Listing(new, i)
  BY <1>2
<1>9. Recent' = [Recent EXCEPT ![i] = Listing(new, i)]
  <2> DEFINE f == [m \in SetIndex |-> Listing(sets[m], m)]
             g == [m \in SetIndex |-> Listing(sets'[m], m)]
             new2 == Listing(new, i)
  <2>1. /\ f = [m \in SetIndex |-> f[m]] /\ g = [m \in SetIndex |-> g[m]]
        /\ g[i] = new2 /\ \A m \in SetIndex : m # i => g[m] = f[m]
    BY <1>7, <1>8
  <2> HIDE DEF f, g, new2
  <2>2. g = [f EXCEPT ![i] = new2]
    BY <2>1
  <2>3. QED
    BY <1>5, <1>6, <2>2, Zenon DEF f, g, new2
<1>10. QED
  BY <1>4, <1>5, <1>9

(* The set that an instruction looks up, and its list.                     *)
LooksUp(addr, t, i, lines, tag, h) ==
    /\ t = cacheInfo.time /\ i = getSetIndex(addr) /\ tag = getTag(addr)
    /\ t \in Nat /\ i \in SetIndex /\ tag \in Nat
    /\ lines = sets[i] /\ SetOK(lines, t) /\ Ordered(h, Used(lines), lines)
    /\ tag * numSets + i = addr \div blockSize
    /\ Simulator!SetOf(addr \div blockSize) = i
    /\ addr \div blockSize \in {m \div blockSize : m \in Address}
    /\ addr \div blockSize \in Nat
    /\ Recent[i] = Listing(lines, i)

LEMMA LookedUp ==
    ASSUME SimInv, simAt = "trace", NEW addr \in Address
    PROVE  \E t, i, lines, tag, h : LooksUp(addr, t, i, lines, tag, h)
<1>1. addr \in Nat
  BY GeometryAssumption
<1>2. /\ getTag(addr) \in Nat /\ getSetIndex(addr) \in SetIndex
      /\ getTag(addr) * numSets + getSetIndex(addr) = addr \div blockSize
      /\ getSetIndex(addr) = (addr \div blockSize) % numSets
      /\ numSets \in Nat \ {0} /\ blockSize \in Nat \ {0}
  BY <1>1, BlockInTwo
<1>3. PICK t \in Nat : t = cacheInfo.time
  BY DEF SimInv, CacheInfo
<1>4. PICK i \in SetIndex : i = getSetIndex(addr)
  BY <1>2
<1>5. PICK lines : lines = sets[i]
  OBVIOUS
<1>6. SetOK(lines, t)
  BY <1>3, <1>5 DEF SimInv
<1>7. PICK h : Ordered(h, Used(lines), lines)
  BY <1>6, UsedAreOrdered
<1>8. Simulator!SetOf(addr \div blockSize) = i
  BY <1>2, <1>4 DEF Simulator!SetOf
<1>9. Recent[i] = Listing(lines, i)
  <2>1. RecentOf(sets) = [m \in SetIndex |-> Listing(sets[m], m)]
    BY SomeSets DEF SimInv
  <2>2. QED
    BY <1>5, <2>1, RecentIs
<1>10. addr \div blockSize \in Nat
  BY <1>1, <1>2
<1>11. PICK tag \in Nat : tag = getTag(addr)
  BY <1>2
<1>12. tag * numSets + i = addr \div blockSize
  BY <1>2, <1>4, <1>11
<1>13. addr \div blockSize \in {m \div blockSize : m \in Address}
  OBVIOUS
<1>14. LooksUp(addr, t, i, lines, tag, h)
  BY <1>3, <1>4, <1>5, <1>6, <1>7, <1>8, <1>9, <1>10, <1>11, <1>12, <1>13 DEF LooksUp
<1>15. QED
  BY <1>14

(* A hit moves the block to the front of its list.                         *)
LEMMA HitImplements ==
    ASSUME SimInv, simAt = "trace", cacheInfo.time < MaxTime, UNCHANGED <<summary, simAt>>,
           NEW addr \in Address, NEW store \in BOOLEAN, Hit(addr, store)
    PROVE  SimInv' /\ Simulator!Next
<1>1. PICK t, i, lines, tag, h : LooksUp(addr, t, i, lines, tag, h)
  BY LookedUp
<1>2. /\ t = cacheInfo.time /\ i = getSetIndex(addr) /\ tag = getTag(addr)
      /\ t \in Nat /\ i \in SetIndex /\ tag \in Nat
      /\ lines = sets[i] /\ SetOK(lines, t) /\ Ordered(h, Used(lines), lines)
      /\ tag * numSets + i = addr \div blockSize
      /\ Simulator!SetOf(addr \div blockSize) = i
      /\ addr \div blockSize \in {m \div blockSize : m \in Address}
      /\ addr \div blockSize \in Nat
      /\ Recent[i] = Listing(lines, i)
  BY <1>1 DEF LooksUp
<1> DEFINE k == Cardinality(Used(lines))
           s == Listing(lines, i)
           blk == addr \div blockSize
<1>3. PICK j \in Matches(addr) :
         /\ sets' = [sets EXCEPT ![i][j] = Touched(@, store)]
         /\ cacheInfo' = [cacheInfo EXCEPT !.time = @ + 1, !.hits = @ + 1]
  BY <1>2 DEF Hit
<1>4. j \in Used(lines) /\ j \in Lines /\ lines[j].tag = tag /\ lines[j].valid
      /\ lines[j] \in Line
  <2>1. j \in Used(lines) /\ lines[j].tag = tag
    BY <1>2, UsedComeFirst DEF Matches
  <2>2. j \in Lines /\ lines[j].valid
    BY <2>1 DEF Used
  <2>3. lines[j] \in Line
    BY <1>2, <2>2 DEF SetOK
  <2>4. QED
    BY <2>1, <2>2, <2>3
<1>5. PICK d \in BOOLEAN : d = (lines[j].dirty \/ store)
  BY <1>4 DEF Line
<1>6. PICK new : new = UsedNow(lines, j, t, d, tag)
  OBVIOUS
<1>7. sets' = [sets EXCEPT ![i] = new]
  <2>1. Touched(lines[j], store) = [valid |-> TRUE, dirty |-> d, LRU |-> t + 1, tag |-> tag]
    <3>1. PICK l \in Line : l = lines[j]
      BY <1>4
    <3>2. l.valid = TRUE /\ (l.dirty \/ store) = d /\ l.tag = tag
      BY <1>2, <1>4, <1>5, <3>1 DEF Line
    <3>3. Touched(l, store) = [l EXCEPT !.LRU = t + 1, !.dirty = d]
      BY <1>2, <3>2, Zenon DEF Touched
    <3>4. Touched(l, store) = [valid |-> TRUE, dirty |-> d, LRU |-> t + 1, tag |-> tag]
      BY <3>2, <3>3 DEF Line
    <3>5. QED
      BY <3>1, <3>4, Zenon
  <2>2. sets' = [sets EXCEPT ![i] = [sets[i] EXCEPT ![j] = Touched(sets[i][j], store)]]
    BY <1>3
  <2>3. QED
    BY <1>2, <1>6, <2>1, <2>2 DEF UsedNow
<1>8. PICK n \in 1 .. k : h[n] = j
  BY <1>2, <1>4 DEF Ordered
<1>9. /\ SetOK(new, t + 1) /\ Listing(new, i) = Moved(s, k, n, Item(new, i, j))
      /\ new[j].dirty = d /\ new[j].tag = tag
  <2>1. j = h[n]
    BY <1>8
  <2>2. SetOK(new, t + 1) /\ Listing(new, i) = Moved(s, k, n, Item(new, i, j))
    <3>1. NoOther(lines, j, tag)
      BY <1>2, <1>4 DEF SetOK, NoOther
    <3>2. QED
      BY <1>2, <1>6, <2>1, <3>1, UsedAgain
  <2>3. new[j].dirty = d /\ new[j].tag = tag
    BY <1>2, <1>4, <1>6, UsedNowLines
  <2>4. QED
    BY <2>2, <2>3
<1>10. s \in Seq(Listed) /\ Len(s) = k /\ s[n] = Item(lines, i, j)
  <2>1. /\ s \in Seq(Listed) /\ Len(s) = k
        /\ \A l \in 1 .. k : s[l] = Item(lines, i, h[l])
    BY <1>2, ListOfUsed
  <2>2. QED
    BY <1>8, <2>1
<1>11. cacheInfo' \in CacheInfo /\ cacheInfo'.time = cacheInfo.time + 1
  <2>1. PICK c \in CacheInfo : c = cacheInfo
    BY DEF SimInv
  <2>2. cacheInfo' = [c EXCEPT !.time = @ + 1, !.hits = @ + 1]
    BY <1>3, <2>1
  <2>3. cacheInfo' = [time |-> c.time + 1, hits |-> c.hits + 1, misses |-> c.misses,
                       evicts |-> c.evicts, dirtyEvicted |-> c.dirtyEvicted]
    BY <2>1, <2>2 DEF CacheInfo
  <2>4. QED
    BY <2>1, <2>3 DEF CacheInfo
<1>12. SimInv' /\ Recent' = [Recent EXCEPT ![i] = Listing(new, i)]
  BY <1>2, <1>7, <1>9, <1>11, OneSetChanges
<1>13. /\ Item(new, i, j) = [block |-> blk, dirty |-> d]
       /\ Item(lines, i, j) = [block |-> blk, dirty |-> lines[j].dirty]
  BY <1>2, <1>4, <1>9, Zenon DEF Item
<1>14. Simulator!Fresh(blk, d) \o Simulator!RemoveAt(s, n) = Listing(new, i)
  <2> DEFINE e == [block |-> blk, dirty |-> d]
  <2>1. e \in Listed
    BY <1>2 DEF Listed
  <2> HIDE DEF e, s, k
  <2>2. <<e>> \o RemoveAt(s, n) = Moved(s, Len(s), n, e)
    BY <1>8, <1>10, <2>1, MovedToFront
  <2>3. Listing(new, i) = Moved(s, k, n, e)
    BY <1>9, <1>13, Zenon DEF e
  <2>4. <<e>> \o RemoveAt(s, n) = Listing(new, i)
    BY <1>10, <2>2, <2>3, Zenon
  <2>5. QED
    BY <2>4, Zenon DEF e, Simulator!Fresh, Simulator!RemoveAt, RemoveAt
<1>15. Counters(cacheInfo)' = [Counters(cacheInfo) EXCEPT !.hits = @ + 1]
  BY <1>3 DEF Counters, SimInv, CacheInfo
<1>16. Simulator!Hit(blk, store, n)
  <2>1. s[n].block = blk /\ (s[n].dirty \/ store) = d
    BY <1>5, <1>10, <1>13
  <2>2. Recent' = [Recent EXCEPT ![i] =
            Simulator!Fresh(blk, s[n].dirty \/ store) \o Simulator!RemoveAt(s, n)]
    BY <1>12, <1>14, <2>1
  <2>3. Printed' = Printed
    BY DEF Printed
  <2> HIDE DEF s
  <2>4. Recent[Simulator!SetOf(blk)] = s /\ Simulator!SetOf(blk) = i
    BY <1>2 DEF s
  <2> HIDE DEF blk
  <2>5. QED
    BY <1>15, <2>1, <2>2, <2>3, <2>4 DEF Simulator!Hit
<1>17. n \in 1 .. Len(Recent[Simulator!SetOf(blk)])
  BY <1>2, <1>8, <1>10
<1>18. QED
  <2>1. blk \in {m \div blockSize : m \in Address}
    BY <1>2
  <2> HIDE DEF blk
  <2>2. QED
    BY <1>12, <1>16, <1>17, <2>1 DEF Simulator!Next

(* If no line matches, the block is in no list.                            *)
LEMMA NoMatchIsMissing ==
    ASSUME NEW addr \in Address, NEW t, NEW i, NEW lines, NEW tag, NEW h,
           LooksUp(addr, t, i, lines, tag, h), Matches(addr) = {}
    PROVE  Simulator!Missing(addr \div blockSize)
<1> DEFINE k == Cardinality(Used(lines))
           s == Listing(lines, i)
           blk == addr \div blockSize
<1>1. /\ i = getSetIndex(addr) /\ tag = getTag(addr)
      /\ i \in SetIndex /\ tag \in Nat
      /\ lines = sets[i] /\ SetOK(lines, t) /\ Ordered(h, Used(lines), lines)
      /\ tag * numSets + i = blk
      /\ Simulator!SetOf(blk) = i /\ Recent[i] = s
  BY DEF LooksUp
<1>2. /\ s \in Seq(Listed) /\ Len(s) = k
      /\ \A l \in 1 .. k : h[l] \in Used(lines) /\ s[l] = Item(lines, i, h[l])
  BY <1>1, ListOfUsed
<1>3. Searched(lines) = Used(lines)
  BY <1>1, UsedComeFirst
<1>4. ASSUME NEW l \in 1 .. k PROVE s[l].block # blk
  <2>1. PICK j \in Used(lines) : j = h[l]
    BY <1>2
  <2>2. lines[j].tag # tag
    BY <1>1, <1>3 DEF Matches
  <2>3. lines[j].tag \in Nat
    <3>1. j \in Lines /\ lines \in [Lines -> Line]
      BY <1>1 DEF Used, SetOK
    <3>2. QED
      BY <3>1 DEF Line
  <2>4. s[l].block = lines[j].tag * numSets + i
    BY <1>2, <2>1 DEF Item
  <2>5. i \in Nat /\ numSets \in Nat \ {0}
    BY <1>1, ThereAreSets DEF SetIndex
  <2>6. lines[j].tag * numSets + i # tag * numSets + i
    BY <1>1, <2>2, <2>3, <2>5, TagsDiffer
  <2>7. QED
    BY <1>1, <2>4, <2>6, Zenon
<1> HIDE DEF s, blk, k
<1>5. QED
  BY <1>1, <1>2, <1>4 DEF Simulator!Missing, blk

(* A line not in use takes the block, whose list grows.                    *)
LEMMA FillImplements ==
    ASSUME SimInv, simAt = "trace", cacheInfo.time < MaxTime, UNCHANGED <<summary, simAt>>,
           NEW addr \in Address, NEW store \in BOOLEAN, FillEmpty(addr, store)
    PROVE  SimInv' /\ Simulator!Next
<1>1. PICK t, i, lines, tag, h : LooksUp(addr, t, i, lines, tag, h)
  BY LookedUp
<1>2. /\ t = cacheInfo.time /\ i = getSetIndex(addr) /\ tag = getTag(addr)
      /\ t \in Nat /\ i \in SetIndex /\ tag \in Nat
      /\ lines = sets[i] /\ SetOK(lines, t) /\ Ordered(h, Used(lines), lines)
      /\ tag * numSets + i = addr \div blockSize
      /\ Simulator!SetOf(addr \div blockSize) = i
      /\ addr \div blockSize \in {m \div blockSize : m \in Address}
      /\ addr \div blockSize \in Nat
      /\ Recent[i] = Listing(lines, i)
  BY <1>1 DEF LooksUp
<1> DEFINE k == Cardinality(Used(lines))
           s == Listing(lines, i)
           blk == addr \div blockSize
<1>3. /\ Matches(addr) = {} /\ Searched(lines) # Lines
      /\ addLine(addr, Cardinality(Searched(lines)), store)
      /\ cacheInfo' = [cacheInfo EXCEPT !.time = @ + 1, !.misses = @ + 1]
  BY <1>2 DEF FillEmpty
<1>4. /\ Searched(lines) = Used(lines) /\ k \in 0 .. numLines
      /\ Used(lines) = 0 .. k - 1
  BY <1>2, UsedComeFirst
<1>5. PICK j : j = k
  OBVIOUS
<1>6. j \in Lines /\ k < numLines
  <2>1. k # numLines
    BY <1>3, <1>4 DEF Lines
  <2> HIDE DEF k
  <2>2. QED
    BY <1>4, <1>5, <2>1, GeometryAssumption DEF Lines
<1>7. PICK new : new = UsedNow(lines, j, t, store, tag)
  OBVIOUS
<1>8. sets' = [sets EXCEPT ![i] = new]
  <2>1. sets' = [sets EXCEPT ![i][j] = [valid |-> TRUE, dirty |-> store,
                                        LRU |-> t + 1, tag |-> tag]]
    BY <1>2, <1>3, <1>4, <1>5 DEF addLine
  <2>2. QED
    BY <1>2, <1>7, <2>1 DEF UsedNow
<1>9. /\ SetOK(new, t + 1) /\ Listing(new, i) = Put(s, k, Item(new, i, j))
      /\ new[j].dirty = store /\ new[j].tag = tag
  <2>1. SetOK(new, t + 1) /\ Listing(new, i) = Put(s, k, Item(new, i, j))
    <3>1. NoOther(lines, j, tag)
      BY <1>2, <1>3, <1>4 DEF Matches, NoOther
    <3>2. QED
      BY <1>2, <1>5, <1>6, <1>7, <3>1, UsedFirst
  <2>2. new[j].dirty = store /\ new[j].tag = tag
    BY <1>2, <1>6, <1>7, UsedNowLines
  <2>3. QED
    BY <2>1, <2>2
<1>10. s \in Seq(Listed) /\ Len(s) = k
  BY <1>2, ListOfUsed
<1>11. cacheInfo' \in CacheInfo /\ cacheInfo'.time = cacheInfo.time + 1
  <2>1. PICK c \in CacheInfo : c = cacheInfo
    BY DEF SimInv
  <2>2. cacheInfo' = [c EXCEPT !.time = @ + 1, !.misses = @ + 1]
    BY <1>3, <2>1
  <2>3. cacheInfo' = [time |-> c.time + 1, hits |-> c.hits, misses |-> c.misses + 1,
                       evicts |-> c.evicts, dirtyEvicted |-> c.dirtyEvicted]
    BY <2>1, <2>2 DEF CacheInfo
  <2>4. QED
    BY <2>1, <2>3 DEF CacheInfo
<1>12. SimInv' /\ Recent' = [Recent EXCEPT ![i] = Listing(new, i)]
  BY <1>2, <1>8, <1>9, <1>11, OneSetChanges
<1>13. Item(new, i, j) = [block |-> blk, dirty |-> store]
  BY <1>2, <1>9, Zenon DEF Item
<1>14. Simulator!Fresh(blk, store) \o s = Listing(new, i)
  <2> DEFINE e == [block |-> blk, dirty |-> store]
  <2>1. e \in Listed
    BY <1>2 DEF Listed
  <2> HIDE DEF e, s, k
  <2>2. <<e>> \o s = Put(s, Len(s), e)
    BY <1>10, <2>1, PutInFront
  <2>3. Listing(new, i) = Put(s, k, e)
    BY <1>9, <1>13, Zenon DEF e
  <2>4. <<e>> \o s = Listing(new, i)
    BY <1>10, <2>2, <2>3, Zenon
  <2>5. QED
    BY <2>4, Zenon DEF e, Simulator!Fresh
<1>15. Counters(cacheInfo)' = [Counters(cacheInfo) EXCEPT !.misses = @ + 1]
  BY <1>3 DEF Counters, SimInv, CacheInfo
<1>16. Simulator!Missing(blk)
  BY <1>1, <1>3, NoMatchIsMissing
<1>17. Simulator!Fill(blk, store)
  <2>1. Recent' = [Recent EXCEPT ![i] = Simulator!Fresh(blk, store) \o Recent[i]]
    BY <1>2, <1>12, <1>14
  <2>2. Printed' = Printed
    BY DEF Printed
  <2>3. Len(Recent[i]) < numLines
    BY <1>2, <1>6, <1>10
  <2>4. Simulator!SetOf(blk) = i
    BY <1>2
  <2> HIDE DEF blk
  <2>5. QED
    BY <1>15, <1>16, <2>1, <2>2, <2>3, <2>4 DEF Simulator!Fill
<1>18. QED
  <2>1. blk \in {m \div blockSize : m \in Address}
    BY <1>2
  <2> HIDE DEF blk
  <2>2. QED
    BY <1>12, <1>17, <2>1 DEF Simulator!Next

(* The line that is replaced is the one used longest ago: all were used    *)
(* before MIN.                                                             *)
LEMMA OldestIsReplaced ==
    ASSUME NEW t \in Nat, t < MIN, NEW lines, SetOK(lines, t), Used(lines) = Lines
    PROVE  evict(lines) \in Lines /\ \A j \in Lines : lines[evict(lines)].LRU <= lines[j].LRU
<1> DEFINE old == {j \in Lines : lines[j].LRU < MIN}
           Smallest(j) == \A k \in old \ {j} :
                          \/ lines[j].LRU < lines[k].LRU
                          \/ lines[j].LRU = lines[k].LRU /\ j < k
<1>1. /\ \A j \in Lines : lines[j].LRU \in Nat /\ lines[j].LRU <= t
      /\ \A j, k \in Lines : lines[j].LRU = lines[k].LRU => j = k
  BY DEF SetOK, Line, Timed
<1>2. MIN \in Nat /\ 0 \in Lines
  BY MinAssumption, GeometryAssumption DEF Lines
<1>3. old = Lines
  BY <1>1, <1>2
<1>4. \E j \in Lines : Smallest(j)
  <2> DEFINE T == {lines[j].LRU : j \in Lines}
  <2>1. T \in SUBSET Nat /\ T # {}
    BY <1>1, <1>2
  <2>2. PICK x \in T : \A y \in T : x <= y
    <3> HIDE DEF T
    <3>1. QED
      BY <2>1, LeastExists
  <2>3. PICK j \in Lines : x = lines[j].LRU
    OBVIOUS
  <2>4. ASSUME NEW k \in Lines, k # j PROVE lines[j].LRU < lines[k].LRU
    <3>1. lines[j].LRU <= lines[k].LRU /\ lines[j].LRU # lines[k].LRU
      BY <1>1, <2>2, <2>3, <2>4
    <3>2. QED
      BY <1>1, <3>1
  <2>5. Smallest(j)
    BY <1>3, <2>4
  <2>6. QED
    BY <2>5
<1>5. evict(lines) = CHOOSE j \in old : Smallest(j)
  BY <1>2, <1>3 DEF evict
<1>6. evict(lines) \in Lines /\ Smallest(evict(lines))
  <2> HIDE DEF Smallest
  <2>1. QED
    BY <1>3, <1>4, <1>5
<1>7. ASSUME NEW j \in Lines PROVE lines[evict(lines)].LRU <= lines[j].LRU
  <2>1. PICK v \in Lines : v = evict(lines)
    BY <1>6
  <2>2. CASE j = v
    BY <1>1, <2>1, <2>2
  <2>3. CASE j # v
    <3>1. lines[v].LRU < lines[j].LRU \/ lines[v].LRU = lines[j].LRU
      BY <1>3, <1>6, <2>1, <2>3
    <3>2. QED
      BY <1>1, <2>1, <3>1
  <2>4. QED
    BY <2>2, <2>3
<1>8. QED
  BY <1>6, <1>7

(* A full set gives up the last block of its list.                         *)
LEMMA ReplaceImplements ==
    ASSUME SimInv, simAt = "trace", cacheInfo.time < MaxTime, UNCHANGED <<summary, simAt>>,
           NEW addr \in Address, NEW store \in BOOLEAN, Replace(addr, store)
    PROVE  SimInv' /\ Simulator!Next
<1>1. PICK t, i, lines, tag, h : LooksUp(addr, t, i, lines, tag, h)
  BY LookedUp
<1>2. /\ t = cacheInfo.time /\ i = getSetIndex(addr) /\ tag = getTag(addr)
      /\ t \in Nat /\ i \in SetIndex /\ tag \in Nat
      /\ lines = sets[i] /\ SetOK(lines, t) /\ Ordered(h, Used(lines), lines)
      /\ tag * numSets + i = addr \div blockSize
      /\ Simulator!SetOf(addr \div blockSize) = i
      /\ addr \div blockSize \in {m \div blockSize : m \in Address}
      /\ addr \div blockSize \in Nat
      /\ Recent[i] = Listing(lines, i)
  BY <1>1 DEF LooksUp
<1> DEFINE k == Cardinality(Used(lines))
           s == Listing(lines, i)
           blk == addr \div blockSize
<1>3. /\ Matches(addr) = {} /\ Searched(lines) = Lines
      /\ addLine(addr, evict(lines), store)
      /\ cacheInfo' = [cacheInfo EXCEPT
              !.time = @ + 1, !.misses = @ + 1, !.evicts = @ + 1,
              !.dirtyEvicted = @ + IF lines[evict(lines)].dirty THEN blockSize ELSE 0]
  BY <1>2 DEF Replace
<1>4. /\ Used(lines) = Lines /\ IsFiniteSet(Used(lines)) /\ Timed(Used(lines), lines)
      /\ t < MIN
  <2>1. IsFiniteSet(Used(lines)) /\ Searched(lines) = Used(lines)
    BY <1>2, UsedComeFirst
  <2>2. Timed(Used(lines), lines)
    BY <1>2 DEF SetOK
  <2>3. t < MIN
    BY <1>2, MinAssumption
  <2>4. QED
    BY <1>3, <2>1, <2>2, <2>3
<1>5. k = numLines
  <2>1. 0 \in Int /\ numLines - 1 \in Int /\ numLines \in Nat \ {0}
    BY GeometryAssumption
  <2>2. Cardinality(0 .. numLines - 1) = IF 0 > numLines - 1 THEN 0 ELSE (numLines - 1) - 0 + 1
    BY <2>1, FS_Interval
  <2>3. QED
    BY <1>4, <2>1, <2>2 DEF Lines
<1>6. evict(lines) \in Lines /\ \A m \in Lines : lines[evict(lines)].LRU <= lines[m].LRU
  BY <1>2, <1>4, OldestIsReplaced
<1>7. PICK j \in Lines : j = evict(lines)
  BY <1>6
<1>8. k \in 1 .. k /\ h[k] = j
  <2> DEFINE L == Used(lines)
  <2>1. j \in L /\ \A m \in L : lines[j].LRU <= lines[m].LRU
    BY <1>4, <1>6, <1>7
  <2>2. IsFiniteSet(L) /\ Timed(L, lines) /\ Ordered(h, L, lines)
    BY <1>2, <1>4
  <2> HIDE DEF L
  <2>3. Cardinality(L) \in 1 .. Cardinality(L) /\ h[Cardinality(L)] = j
    BY <2>1, <2>2, OldestIsLast
  <2>4. QED
    BY <2>3 DEF L
<1>9. PICK new : new = UsedNow(lines, j, t, store, tag)
  OBVIOUS
<1>10. sets' = [sets EXCEPT ![i] = new]
  <2>1. sets' = [sets EXCEPT ![i][j] = [valid |-> TRUE, dirty |-> store,
                                        LRU |-> t + 1, tag |-> tag]]
    BY <1>2, <1>3, <1>7 DEF addLine
  <2>2. QED
    BY <1>2, <1>9, <2>1 DEF UsedNow
<1>11. /\ SetOK(new, t + 1) /\ Listing(new, i) = Moved(s, k, k, Item(new, i, j))
       /\ new[j].dirty = store /\ new[j].tag = tag
  <2>1. PICK n \in 1 .. k : n = k
    BY <1>8
  <2>2. j = h[n]
    BY <1>8, <2>1
  <2>3. SetOK(new, t + 1) /\ Listing(new, i) = Moved(s, k, n, Item(new, i, j))
    <3>1. NoOther(lines, j, tag)
      BY <1>2, <1>3, <1>4 DEF Matches, NoOther
    <3>2. QED
      BY <1>2, <1>9, <2>2, <3>1, UsedAgain
  <2>4. new[j].dirty = store /\ new[j].tag = tag
    BY <1>2, <1>7, <1>9, UsedNowLines
  <2>5. QED
    BY <2>1, <2>3, <2>4, Zenon
<1>12. s \in Seq(Listed) /\ Len(s) = k /\ s # <<>> /\ s[k].dirty = lines[j].dirty
  <2>1. /\ s \in Seq(Listed) /\ Len(s) = k
        /\ \A l \in 1 .. k : s[l] = Item(lines, i, h[l])
    BY <1>2, ListOfUsed
  <2>2. s[k].dirty = lines[j].dirty
    BY <1>8, <2>1 DEF Item
  <2> HIDE DEF s, k
  <2>3. QED
    BY <1>5, <2>1, <2>2, GeometryAssumption
<1> DEFINE written == IF lines[j].dirty THEN blockSize ELSE 0
<1>13. /\ cacheInfo' \in CacheInfo /\ cacheInfo'.time = cacheInfo.time + 1
       /\ Counters(cacheInfo)' = [Counters(cacheInfo) EXCEPT
              !.misses = @ + 1, !.evicts = @ + 1, !.dirtyEvicted = @ + written]
  <2>1. PICK c \in CacheInfo : c = cacheInfo
    BY DEF SimInv
  <2>2. written \in Nat
    BY ThereAreSets
  <2>3. cacheInfo' = [c EXCEPT !.time = @ + 1, !.misses = @ + 1, !.evicts = @ + 1,
                               !.dirtyEvicted = @ + written]
    BY <1>3, <1>7, <2>1
  <2> HIDE DEF written
  <2>4. cacheInfo' = [time |-> c.time + 1, hits |-> c.hits, misses |-> c.misses + 1,
                       evicts |-> c.evicts + 1, dirtyEvicted |-> c.dirtyEvicted + written]
    BY <2>1, <2>3 DEF CacheInfo
  <2>5. cacheInfo' \in CacheInfo /\ cacheInfo'.time = cacheInfo.time + 1
    BY <2>1, <2>2, <2>4 DEF CacheInfo
  <2>6. Counters(cacheInfo)' = [hits |-> c.hits, misses |-> c.misses + 1,
                                evicts |-> c.evicts + 1, dirtyEvicted |-> c.dirtyEvicted + written]
    BY <2>4 DEF Counters
  <2>7. Counters(cacheInfo) = [hits |-> c.hits, misses |-> c.misses,
                               evicts |-> c.evicts, dirtyEvicted |-> c.dirtyEvicted]
    BY <2>1, Zenon DEF Counters
  <2>8. [Counters(cacheInfo) EXCEPT
            !.misses = @ + 1, !.evicts = @ + 1, !.dirtyEvicted = @ + written]
          = [hits |-> c.hits, misses |-> c.misses + 1,
             evicts |-> c.evicts + 1, dirtyEvicted |-> c.dirtyEvicted + written]
    <3>1. PICK K : K = Counters(cacheInfo)
      OBVIOUS
    <3>2. K = [hits |-> c.hits, misses |-> c.misses,
               evicts |-> c.evicts, dirtyEvicted |-> c.dirtyEvicted]
      BY <2>7, <3>1, Zenon
    <3>3. PICK z : z = [K EXCEPT !.misses = @ + 1, !.evicts = @ + 1,
                                 !.dirtyEvicted = @ + written]
      OBVIOUS
    <3>4. z = [hits |-> c.hits, misses |-> c.misses + 1,
               evicts |-> c.evicts + 1, dirtyEvicted |-> c.dirtyEvicted + written]
      BY <3>2, <3>3
    <3>5. QED
      BY <3>1, <3>3, <3>4, Zenon
  <2>9. QED
    BY <2>5, <2>6, <2>8, Zenon
<1>14. SimInv' /\ Recent' = [Recent EXCEPT ![i] = Listing(new, i)]
  BY <1>2, <1>10, <1>11, <1>13, OneSetChanges
<1>15. Item(new, i, j) = [block |-> blk, dirty |-> store]
  BY <1>2, <1>11, Zenon DEF Item
<1>16. Simulator!Fresh(blk, store) \o Simulator!Front(s) = Listing(new, i)
  <2> DEFINE e == [block |-> blk, dirty |-> store]
  <2>1. e \in Listed
    BY <1>2 DEF Listed
  <2> HIDE DEF e, s, k
  <2>2. <<e>> \o Front(s) = Moved(s, Len(s), Len(s), e)
    BY <1>12, <2>1, LastMoved
  <2>3. Listing(new, i) = Moved(s, k, k, e)
    BY <1>11, <1>15, Zenon DEF e
  <2>4. <<e>> \o Front(s) = Listing(new, i)
    BY <1>12, <2>2, <2>3, Zenon
  <2>5. QED
    BY <2>4, Zenon DEF e, Simulator!Fresh, Simulator!Front, Front
<1>17. Simulator!Missing(blk)
  BY <1>1, <1>3, NoMatchIsMissing
<1>18. Simulator!Replace(blk, store)
  <2>1. Recent' = [Recent EXCEPT ![i] = Simulator!Fresh(blk, store) \o Simulator!Front(Recent[i])]
    BY <1>2, <1>14, <1>16
  <2>2. Printed' = Printed
    BY DEF Printed
  <2>3. Len(Recent[i]) = numLines
    BY <1>2, <1>5, <1>12
  <2>4. Simulator!SetOf(blk) = i
    BY <1>2
  <2>5. written = IF Simulator!Last(Recent[i]).dirty THEN blockSize ELSE 0
    BY <1>2, <1>12 DEF Simulator!Last
  <2> HIDE DEF blk, written
  <2>6. QED
    BY <1>13, <1>17, <2>1, <2>2, <2>3, <2>4, <2>5 DEF Simulator!Replace
<1>19. QED
  <2>1. blk \in {m \div blockSize : m \in Address}
    BY <1>2
  <2> HIDE DEF blk
  <2>2. QED
    BY <1>14, <1>18, <2>1 DEF Simulator!Next

(* The dirty lines are as many as the dirty places of the lists.           *)
LEMMA DirtyAgree ==
    ASSUME SimInv, simAt = "trace"
    PROVE  dirtyInCache = Simulator!DirtyBytes
<1> DEFINE Q == [i \in SetIndex |-> CHOOSE h : Ordered(h, Used(sets[i]), sets[i])]
           k(i) == Cardinality(Used(sets[i]))
           P == Simulator!DirtyPlaces
           J == {p \in SetIndex \X Lines : sets[p[1]][p[2]].dirty}
           f == [p \in P |-> <<p[1], Q[p[1]][p[2]]>>]
<1>1. ASSUME NEW i \in SetIndex
      PROVE  /\ SetOK(sets[i], cacheInfo.time) /\ Ordered(Q[i], Used(sets[i]), sets[i])
             /\ Recent[i] = Listing(sets[i], i) /\ k(i) \in 0 .. numLines
             /\ Len(Recent[i]) = k(i)
             /\ \A n \in 1 .. k(i) : /\ Q[i][n] \in Used(sets[i])
                                     /\ Recent[i][n].dirty = sets[i][Q[i][n]].dirty
  <2>1. SetOK(sets[i], cacheInfo.time)
    BY DEF SimInv
  <2>2. PICK lines : lines = sets[i]
    OBVIOUS
  <2>3. PICK h : h = Q[i]
    OBVIOUS
  <2>4. Ordered(h, Used(lines), lines)
    <3>1. \E r : Ordered(r, Used(lines), lines)
      BY <2>1, <2>2, UsedAreOrdered
    <3>2. h = CHOOSE r : Ordered(r, Used(lines), lines)
      BY <2>2, <2>3
    <3>3. QED
      BY <3>1, <3>2
  <2> HIDE DEF Q
  <2>5. Recent[i] = Listing(lines, i)
    <3>1. RecentOf(sets) = [m \in SetIndex |-> Listing(sets[m], m)]
      BY SomeSets DEF SimInv
    <3>2. QED
      BY <2>2, <3>1, RecentIs
  <2>6. /\ Len(Listing(lines, i)) = Cardinality(Used(lines))
        /\ \A n \in 1 .. Cardinality(Used(lines)) :
              h[n] \in Used(lines) /\ Listing(lines, i)[n] = Item(lines, i, h[n])
    BY <2>1, <2>2, <2>4, ListOfUsed
  <2>7. Cardinality(Used(lines)) \in 0 .. numLines
    BY <2>1, <2>2, UsedComeFirst
  <2>8. \A n \in 1 .. Cardinality(Used(lines)) : Listing(lines, i)[n].dirty = lines[h[n]].dirty
    BY <2>6 DEF Item
  <2>9. QED
    BY <2>1, <2>2, <2>3, <2>4, <2>5, <2>6, <2>7, <2>8
<1> HIDE DEF Q, k
<1>2. ASSUME NEW p
      PROVE  p \in P <=> /\ p \in SetIndex \X Nat /\ p[2] \in 1 .. k(p[1])
                         /\ sets[p[1]][Q[p[1]][p[2]]].dirty
  <2>1. p \in P <=> /\ p \in SetIndex \X (1 .. numLines)
                    /\ p[2] <= Len(Recent[p[1]]) /\ Recent[p[1]][p[2]].dirty
    BY DEF Simulator!DirtyPlaces, SetIndex
  <2> HIDE DEF P
  <2>2. ASSUME NEW i \in SetIndex, NEW n \in Nat
        PROVE  (n \in 1 .. numLines /\ n <= Len(Recent[i]) /\ Recent[i][n].dirty)
                 <=> (n \in 1 .. k(i) /\ sets[i][Q[i][n]].dirty)
    <3>1. k(i) \in 0 .. numLines /\ Len(Recent[i]) = k(i) /\ numLines \in Nat
      BY <1>1, GeometryAssumption
    <3>2. n \in 1 .. k(i) => Recent[i][n].dirty = sets[i][Q[i][n]].dirty
      BY <1>1
    <3>3. QED
      BY <3>1, <3>2
  <2>3. p \in SetIndex \X (1 .. numLines) <=> p \in SetIndex \X Nat /\ p[2] \in 1 .. numLines
    OBVIOUS
  <2>4. p \in SetIndex \X Nat => p[1] \in SetIndex /\ p[2] \in Nat
    OBVIOUS
  <2>5. QED
    BY <2>1, <2>2, <2>3, <2>4
<1>3. ASSUME NEW p \in P
      PROVE  /\ p[1] \in SetIndex /\ p[2] \in 1 .. k(p[1]) /\ p = <<p[1], p[2]>>
             /\ f[p] = <<p[1], Q[p[1]][p[2]]>>
             /\ Q[p[1]][p[2]] \in Used(sets[p[1]]) /\ f[p] \in J
  <2>1. /\ p \in SetIndex \X Nat /\ p[2] \in 1 .. k(p[1])
        /\ sets[p[1]][Q[p[1]][p[2]]].dirty
    BY <1>2
  <2>2. p[1] \in SetIndex /\ p = <<p[1], p[2]>>
    BY <2>1
  <2>3. Q[p[1]][p[2]] \in Used(sets[p[1]])
    BY <1>1, <2>1, <2>2
  <2>4. Q[p[1]][p[2]] \in Lines
    BY <2>3 DEF Used
  <2>5. f[p] = <<p[1], Q[p[1]][p[2]]>>
    OBVIOUS
  <2> HIDE DEF f, P
  <2>6. f[p] \in J
    BY <2>1, <2>2, <2>4, <2>5
  <2>7. QED
    BY <2>1, <2>2, <2>3, <2>5, <2>6
<1>4. f = [p \in P |-> f[p]] /\ DOMAIN f = P
  OBVIOUS
<1> HIDE DEF f
<1>5. ASSUME NEW p \in P, NEW r \in P, f[p] = f[r] PROVE p = r
  <2>1. p[1] = r[1] /\ Q[p[1]][p[2]] = Q[r[1]][r[2]]
    BY <1>3, <1>5
  <2>2. PICK i \in SetIndex : i = p[1] /\ i = r[1]
    BY <1>3, <2>1
  <2>3. /\ p[2] \in 1 .. k(i) /\ r[2] \in 1 .. k(i) /\ Q[i][p[2]] = Q[i][r[2]]
        /\ p = <<i, p[2]>> /\ r = <<i, r[2]>>
    BY <1>3, <2>1, <2>2
  <2>4. \A m, n \in 1 .. k(i) : m < n => sets[i][Q[i][m]].LRU > sets[i][Q[i][n]].LRU
    BY <1>1 DEF Ordered, k
  <2>5. \A m \in 1 .. k(i) : sets[i][Q[i][m]].LRU \in Nat
    BY <1>1 DEF SetOK, Timed
  <2>6. p[2] = r[2]
    BY <2>3, <2>4, <2>5
  <2>7. QED
    BY <2>3, <2>6
<1>6. ASSUME NEW d \in J PROVE \E p \in P : f[p] = d
  <2>1. d \in SetIndex \X Lines /\ sets[d[1]][d[2]].dirty
    OBVIOUS
  <2>2. PICK i \in SetIndex, j \in Lines : d = <<i, j>> /\ sets[i][j].dirty
    BY <2>1
  <2>3. j \in Used(sets[i])
    BY <1>1, <2>2 DEF SetOK, Used
  <2>4. PICK n \in 1 .. k(i) : Q[i][n] = j
    BY <1>1, <2>3 DEF Ordered, k
  <2>5. <<i, n>> \in SetIndex \X Nat /\ <<i, n>>[1] = i /\ <<i, n>>[2] = n
    OBVIOUS
  <2> HIDE DEF P, J
  <2>6. <<i, n>> \in P
    BY <1>2, <2>2, <2>4, <2>5
  <2>7. f[<<i, n>>] = d
    BY <1>3, <2>2, <2>4, <2>5, <2>6
  <2>8. QED
    BY <2>6, <2>7
<1>7. f \in Bijection(P, J)
  <2> HIDE DEF P, J
  <2>1. f \in [P -> J]
    BY <1>3, <1>4
  <2>2. QED
    BY <1>5, <1>6, <2>1 DEF Bijection, Injection, Surjection, IsInjective
<1>8. IsFiniteSet(P)
  <2>1. P \in SUBSET (SetIndex \X (1 .. numLines))
    BY DEF Simulator!DirtyPlaces, SetIndex
  <2>2. IsFiniteSet(SetIndex) /\ IsFiniteSet(1 .. numLines)
    <3>1. 0 \in Int /\ 1 \in Int /\ numSets - 1 \in Int /\ numLines \in Int
      BY ThereAreSets, GeometryAssumption
    <3>2. QED
      BY <3>1, FS_Interval DEF SetIndex
  <2> HIDE DEF P
  <2>3. IsFiniteSet(SetIndex \X (1 .. numLines))
    BY <2>2, FS_Product
  <2>4. QED
    BY <2>1, <2>3, FS_Subset
<1>9. Cardinality(P) = Cardinality(J)
  <2> HIDE DEF P, J
  <2>1. QED
    BY <1>7, <1>8, FS_Bijection DEF ExistsBijection
<1>10. QED
  <2>1. dirtyInCache = blockSize * Cardinality(J)
    BY DEF dirtyInCache
  <2>2. Simulator!DirtyBytes = blockSize * Cardinality(P)
    <3>1. Simulator!Cardinality(P) = Cardinality(P)
      BY Zenon DEF Simulator!Cardinality, Cardinality
    <3>2. Simulator!DirtyBytes = blockSize * Simulator!Cardinality(P)
      BY Zenon DEF Simulator!DirtyBytes
    <3>3. QED
      BY <3>1, <3>2, Zenon
  <2> HIDE DEF P, J
  <2>3. QED
    BY <1>9, <2>1, <2>2

-----------------------------------------------------------------------------
(* The trace is opened with every line of every set empty.                 *)
LEMMA OpenImplements ==
    ASSUME SimInv, OpenTrace
    PROVE  SimInv' /\ UNCHANGED <<Recent, Counters(cacheInfo), Printed>>
<1>1. /\ simAt = "options" /\ simAt' = "trace" /\ sets' = newCache
      /\ cacheInfo' = cacheInfo /\ summary' = summary
  BY DEF OpenTrace
<1>2. PICK t \in Nat : t = cacheInfo.time
  BY DEF SimInv, CacheInfo
<1> DEFINE lines == [j \in Lines |-> [valid |-> FALSE, dirty |-> FALSE, LRU |-> 0, tag |-> 0]]
<1>3. /\ DOMAIN sets' = SetIndex /\ sets' = [i \in SetIndex |-> sets'[i]]
      /\ \A i \in SetIndex : sets'[i] = lines
  BY <1>1 DEF newCache
<1>4. Used(lines) = {}
  BY DEF Used
<1>5. SetOK(lines, t)
  <2>1. /\ lines \in [Lines -> Line]
        /\ \A j \in Lines : lines[j].valid = FALSE /\ lines[j].dirty = FALSE /\ lines[j].LRU = 0
    BY DEF Line
  <2> HIDE DEF lines
  <2>2. Timed(Used(lines), lines)
    BY <1>4 DEF Timed
  <2>3. \A j \in Used(lines), k \in Used(lines) : lines[j].tag = lines[k].tag => j = k
    BY <1>4
  <2>4. QED
    BY <2>1, <2>2, <2>3 DEF SetOK
<1> HIDE DEF lines
<1>6. SimInv'
  BY <1>1, <1>2, <1>3, <1>5 DEF SimInv
<1>7. ASSUME NEW i \in SetIndex PROVE Listing(lines, i) = <<>>
  <2>1. Cardinality(Used(lines)) = 0
    BY <1>4, FS_EmptySet
  <2>2. PICK h : Ordered(h, Used(lines), lines)
    BY <1>5, UsedAreOrdered
  <2>3. Listing(lines, i) \in Seq(Listed) /\ Len(Listing(lines, i)) = 0
    BY <1>5, <2>1, <2>2, ListOfUsed
  <2>4. QED
    BY <2>3
<1>8. Recent' = Recent
  <2> DEFINE ss == sets'
  <2>1. DOMAIN ss = SetIndex
    BY <1>3
  <2> HIDE DEF ss
  <2>2. RecentOf(ss) = [i \in SetIndex |-> Listing(ss[i], i)]
    BY <2>1, SomeSets
  <2>3. \A i \in SetIndex : Listing(ss[i], i) = <<>>
    BY <1>3, <1>7 DEF ss
  <2>4. RecentOf(ss) = [i \in SetIndex |-> <<>>]
    BY <2>2, <2>3, Zenon
  <2>5. RecentOf(<<>>) = [i \in SetIndex |-> <<>>]
    BY DEF RecentOf
  <2>6. sets = <<>>
    BY <1>1 DEF SimInv
  <2>7. QED
    BY <2>4, <2>5, <2>6, RecentIs DEF ss
<1>9. Printed' = Printed /\ Counters(cacheInfo)' = Counters(cacheInfo)
  BY <1>1 DEF Printed, Counters
<1>10. QED
  BY <1>6, <1>8, <1>9

(* The summary is the report, with the dirty bytes that are left.          *)
LEMMA SummaryImplements ==
    ASSUME SimInv, EndOfTrace
    PROVE  SimInv' /\ Simulator!Report
<1>1. /\ simAt = "trace" /\ sets' = <<>> /\ simAt' = "exited" /\ cacheInfo' = cacheInfo
      /\ summary = <<>>
      /\ summary' = Append(summary, [info |-> cacheInfo, dirty |-> dirtyInCache])
  BY DEF EndOfTrace, SimInv
<1>2. SimInv'
  BY <1>1 DEF SimInv
<1>3. Recent' = Simulator!Empty
  BY <1>1, RecentIs, NoSets
<1>4. Printed = <<>>
  BY <1>1 DEF Printed
<1>5. Printed' = <<[total |-> Counters(cacheInfo), dirty |-> Simulator!DirtyBytes]>>
  <2> DEFINE d == dirtyInCache
             c == cacheInfo
  <2> HIDE DEF d, c
  <2>1. summary' = <<[info |-> c, dirty |-> d]>>
    BY <1>1 DEF c, d
  <2>2. Printed' = [n \in 1 .. Len(summary') |->
                       [total |-> Counters(summary'[n].info), dirty |-> summary'[n].dirty]]
    BY Zenon DEF Printed, Counters
  <2>3. Printed' = <<[total |-> Counters(c), dirty |-> d]>>
    BY <2>1, <2>2
  <2>4. d = Simulator!DirtyBytes
    BY <1>1, DirtyAgree DEF d
  <2>5. QED
    BY <2>3, <2>4, Zenon DEF c
<1>6. Counters(cacheInfo)' = Counters(cacheInfo)
  BY <1>1 DEF Counters
<1>7. QED
  BY <1>2, <1>3, <1>4, <1>5, <1>6 DEF Simulator!Report

(* Every step of the simulator is one of the abstract simulator's, or a    *)
(* stutter.                                                                *)
LEMMA CSimStepImplements ==
    ASSUME SimInv, CSimNext \/ UNCHANGED csimVars
    PROVE  SimInv' /\ [Simulator!Next]_(Simulator!vars)
<1>1. CASE StartFails
  <2>1. simAt' = "exited" /\ UNCHANGED <<sets, cacheInfo, summary>> /\ sets = <<>>
    BY <1>1 DEF StartFails, SimInv
  <2>2. SimInv'
    BY <2>1 DEF SimInv
  <2>3. UNCHANGED <<Recent, Counters(cacheInfo), Printed>>
    BY <2>1, RecentIs DEF Counters, Printed
  <2>4. QED
    BY <2>2, <2>3 DEF Simulator!vars
<1>2. CASE OpenTrace
  BY <1>2, OpenImplements DEF Simulator!vars
<1>3. CASE \E addr \in Address, store \in BOOLEAN : Instruction(addr, store)
  <2>1. PICK addr \in Address, store \in BOOLEAN : Instruction(addr, store)
    BY <1>3
  <2>2. /\ simAt = "trace" /\ cacheInfo.time < MaxTime /\ UNCHANGED <<summary, simAt>>
        /\ Hit(addr, store) \/ FillEmpty(addr, store) \/ Replace(addr, store)
    BY <2>1 DEF Instruction, run
  <2>3. QED
    BY <2>2, HitImplements, FillImplements, ReplaceImplements
<1>4. CASE InvalidInstruction
  <2>1. sets' = <<>> /\ simAt' = "exited" /\ UNCHANGED <<cacheInfo, summary>>
    BY <1>4 DEF InvalidInstruction
  <2>2. SimInv'
    BY <2>1 DEF SimInv
  <2>3. Recent' = Simulator!Empty
    BY <2>1, RecentIs, NoSets
  <2>4. UNCHANGED <<Counters(cacheInfo), Printed>>
    BY <2>1 DEF Counters, Printed
  <2>5. Simulator!GiveUp
    BY <2>3, <2>4 DEF Simulator!GiveUp
  <2>6. QED
    BY <2>2, <2>5 DEF Simulator!Next
<1>5. CASE EndOfTrace
  BY <1>5, SummaryImplements DEF Simulator!Next
<1>6. CASE UNCHANGED csimVars
  <2>1. UNCHANGED <<sets, cacheInfo, summary, simAt>>
    BY <1>6 DEF csimVars
  <2>2. SimInv'
    BY <2>1 DEF SimInv
  <2>3. UNCHANGED <<Recent, Counters(cacheInfo), Printed>>
    BY <2>1, RecentIs DEF Counters, Printed
  <2>4. QED
    BY <2>2, <2>3 DEF Simulator!vars
<1>7. QED
  BY <1>1, <1>2, <1>3, <1>4, <1>5, <1>6 DEF CSimNext

(* Before the options are read there are no sets, and nothing is counted.  *)
LEMMA CSimInitImplements == CSimInit => SimInv /\ Simulator!Init
<1> SUFFICES ASSUME CSimInit PROVE SimInv /\ Simulator!Init
  OBVIOUS
<1>1. /\ sets = <<>> /\ summary = <<>> /\ simAt = "options"
      /\ cacheInfo = [time |-> 0, hits |-> 0, misses |-> 0, evicts |-> 0, dirtyEvicted |-> 0]
  BY DEF CSimInit
<1>2. SimInv
  BY <1>1, MinAssumption DEF SimInv, CacheInfo
<1>3. Recent = Simulator!Empty
  BY <1>1, RecentIs, NoSets
<1>4. Counters(cacheInfo) = [hits |-> 0, misses |-> 0, evicts |-> 0, dirtyEvicted |-> 0]
  BY <1>1 DEF Counters
<1>5. Printed = <<>>
  BY <1>1 DEF Printed
<1>6. QED
  BY <1>2, <1>3, <1>4, <1>5 DEF Simulator!Init

-----------------------------------------------------------------------------
(* A step of another program leaves the connection alone.                  *)
LEMMA ProgramsRunRio == [Next]_programVars => (RioNext \/ UNCHANGED rioVars)
<1>1. ASSUME NEW p \in {"csim", "parseline", "btest", "queue"}, Runs(p)
      PROVE  UNCHANGED rioVars
  BY <1>1 DEF Runs
<1>2. ASSUME UNCHANGED programVars
      PROVE  UNCHANGED rioVars
  BY <1>2 DEF programVars
<1>. QED
  BY <1>1, <1>2 DEF Next

(* The position of every byte between the connection, the reader's buffer  *)
(* and its caller's.                                                       *)
THEOREM BytesAreInOrder == Spec => []RioInv
<1>1. Init => RioInv
  BY RioAssumption, RioInvInit DEF Init
<1>2. RioInv /\ [Next]_programVars => RioInv'
  BY RioAssumption, RioInvStep, ProgramsRunRio
<1>. QED
  BY <1>1, <1>2, PTL DEF Spec

(* Robust I/O gives its callers the stream in whole blocks and lines       *)
(* (csapp.c:426-567), whatever the sizes.                                  *)
THEOREM RioRefines == Spec => ImplementsByteStream
<1>1. Init => Stream!Init
  BY RioInitImplements DEF Init
<1>2. RioInv /\ [Next]_programVars => [Stream!Next]_(Stream!vars)
  BY RioAssumption, RioStepImplements, ProgramsRunRio
<1>. QED
  BY <1>1, <1>2, BytesAreInOrder, PTL DEF Spec, ImplementsByteStream, Stream!Spec

(* A step of another program leaves the simulator alone.                   *)
LEMMA ProgramsRunCSim == [Next]_programVars => (CSimNext \/ UNCHANGED csimVars)
<1>1. ASSUME NEW p \in {"parseline", "btest", "rio", "queue"}, Runs(p)
      PROVE  UNCHANGED csimVars
  BY <1>1 DEF Runs
<1>2. ASSUME UNCHANGED programVars
      PROVE  UNCHANGED csimVars
  BY <1>2 DEF programVars
<1>. QED
  BY <1>1, <1>2 DEF Next

(* The lines in use come first in every set, no two of them hold one block *)
(* or were last used at one time, and only they are dirty (csim.c:28-72,   *)
(* 155-218).                                                               *)
THEOREM LinesAreInOrder == Spec => []SimInv
<1>1. Init => SimInv
  BY CSimInitImplements DEF Init
<1>2. SimInv /\ [Next]_programVars => SimInv'
  BY CSimStepImplements, ProgramsRunCSim
<1>. QED
  BY <1>1, <1>2, PTL DEF Spec

(* The simulator of lines, times and tags is one of an LRU cache           *)
(* (csim.c:155-218, 297-301), whatever the options and the trace.          *)
THEOREM SimulatorIsLRU == Spec => ImplementsLRUSim
<1>1. Init => Simulator!Init
  BY CSimInitImplements DEF Init
<1>2. SimInv /\ [Next]_programVars => [Simulator!Next]_(Simulator!vars)
  BY CSimStepImplements, ProgramsRunCSim
<1>. QED
  BY <1>1, <1>2, LinesAreInOrder, PTL DEF Spec, ImplementsLRUSim, Simulator!Spec

============================================================================
