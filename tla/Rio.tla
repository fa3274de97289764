-------------------------------- MODULE Rio ---------------------------------
(***************************************************************************)
(* The robust I/O package, proxylab/csapp.c: a writer that uses rio_writen *)
(* and a reader that uses rio_readnb and rio_readlineb, or rio_readn, at   *)
(* the two ends of one connection.  One step per write(), per read() and   *)
(* per copy out of the reader's buffer.                                    *)
(*                                                                         *)
(* The connection is external: a call moves some of the bytes asked for,   *)
(* or none when a signal interrupts it.  Bytes are numbered; those that    *)
(* are newlines are chosen at the start.                                   *)
(***************************************************************************)
EXTENDS Integers, Sequences, FiniteSets

CONSTANTS
    Length,         \* bytes the writer writes with one rio_writen
    Capacity,       \* bytes the connection holds
    RIO_BUFSIZE,    \* bytes of the reader's buffer
    BlockSizes, LineSizes   \* sizes asked of rio_readn(b) and of rio_readlineb

ASSUME RioAssumption ==
    /\ Length \in Nat /\ Capacity \in Nat \ {0} /\ RIO_BUFSIZE \in Nat \ {0}
    /\ BlockSizes \subseteq Nat /\ LineSizes \subseteq Nat \ {0}

VARIABLES
    newlines,       \* the bytes that are '\n'
    sent,           \* bytes write() has taken
    writer,         \* "writing", what rio_writen returned, or "closed"
    received,       \* bytes read() has returned
    readerOpen,
    rio,            \* rio_cnt, rio_bufptr and rio_buf
    call,           \* the call in progress: function, size, bytes copied
    answer          \* the last answer: bytes and whether it is >= 0

rioVars == <<newlines, sent, writer, received, readerOpen, rio, call, answer>>

writerVars == <<newlines, sent, writer>>

NoCall == [fn |-> "none", n |-> 0, usrbuf |-> <<>>]

rio_readinitb ==
    rio = [cnt |-> 0, bufptr |-> 1, buf |-> [i \in 1 .. RIO_BUFSIZE |-> 0]]

RioInit ==
    /\ newlines \in SUBSET (1 .. Length)
    /\ sent = 0 /\ writer = "writing"
    /\ received = 0 /\ readerOpen = TRUE
    /\ rio_readinitb
    /\ call = NoCall
    /\ answer = [bytes |-> <<>>, next |-> 1, ok |-> TRUE]

Least(a, b) == IF a < b THEN a ELSE b

-----------------------------------------------------------------------------
(* The loop of rio_writen: a write of some bytes, or of none when a signal *)
(* interrupts it; -1 if the reader has closed.                             *)
WriteSome ==
    /\ writer = "writing" /\ sent < Length /\ readerOpen
    /\ sent' \in sent .. Least(Length, received + Capacity)
    /\ UNCHANGED <<newlines, writer, received, readerOpen, rio, call, answer>>

WriteReturns ==
    /\ writer = "writing"
    /\ \/ sent = Length /\ writer' = "written"
       \/ sent < Length /\ ~ readerOpen /\ writer' = "failed"
    /\ UNCHANGED <<newlines, sent, received, readerOpen, rio, call, answer>>

(* The writer's process closes its end, or ends in the middle of a write.  *)
WriterCloses ==
    /\ writer # "closed"
    /\ writer' = "closed"
    /\ UNCHANGED <<newlines, sent, received, readerOpen, rio, call, answer>>

-----------------------------------------------------------------------------
(* The reader's caller.  A reader that uses rio_readn does not use the     *)
(* buffered functions on the same descriptor.                              *)
Unbuffered == rio.buf[1] = 0 /\ rio.cnt = 0

Call(fn, n) ==
    /\ readerOpen /\ call = NoCall
    /\ fn = "rio_readn" => Unbuffered
    /\ received > 0 /\ Unbuffered => fn = "rio_readn"
    /\ call' = [fn |-> fn, n |-> n, usrbuf |-> <<>>]
    /\ UNCHANGED <<writerVars, received, readerOpen, rio, answer>>

ReaderCloses ==
    /\ readerOpen /\ call = NoCall
    /\ readerOpen' = FALSE
    /\ UNCHANGED <<writerVars, received, rio, call, answer>>

Return(bytes, ok) ==
    /\ answer' = [bytes |-> bytes, ok |-> ok,
                  next |-> received + 1 - IF rio'.cnt > 0 THEN rio'.cnt ELSE 0]
    /\ call' = NoCall

(* Bytes still wanted: a line has room for one less than its buffer, and   *)
(* ends behind a newline.                                                  *)
nleft ==
    IF call.fn # "rio_readlineb" THEN call.n - Len(call.usrbuf)
    ELSE IF call.usrbuf # <<>> /\ call.usrbuf[Len(call.usrbuf)] \in newlines THEN 0
    ELSE call.n - 1 - Len(call.usrbuf)

ReadsNext == call # NoCall /\ nleft > 0

(* read() of at most n bytes: how many it may return.                      *)
Readable(n) == 1 .. Least(n, sent - received)

AtEnd == writer = "closed" /\ received = sent

rio_readn_some ==
    /\ ReadsNext /\ call.fn = "rio_readn"
    /\ \E k \in Readable(nleft) :
          /\ received' = received + k
          /\ call' = [call EXCEPT !.usrbuf = @ \o [i \in 1 .. k |-> received + i]]
    /\ UNCHANGED <<writerVars, readerOpen, rio, answer>>

Refills == ReadsNext /\ call.fn # "rio_readn" /\ rio.cnt <= 0

Refill ==
    /\ Refills
    /\ \E k \in Readable(RIO_BUFSIZE) :
          /\ received' = received + k
          /\ rio' = [cnt |-> k, bufptr |-> 1,
                     buf |-> [i \in 1 .. RIO_BUFSIZE |->
                                IF i <= k THEN received + i ELSE rio.buf[i]]]
    /\ UNCHANGED <<writerVars, readerOpen, call, answer>>

(* A read that a signal interrupts leaves -1 in rio_cnt and is repeated.   *)
Interrupted ==
    /\ Refills
    /\ rio' = [rio EXCEPT !.cnt = -1]
    /\ UNCHANGED <<writerVars, received, readerOpen, call, answer>>

(* A bug: the pointer stays where it was.                                  *)
Advanced_Not(cnt) == [rio EXCEPT !.cnt = @ - cnt]

Advanced(cnt) == [rio EXCEPT !.cnt = @ - cnt, !.bufptr = @ + cnt]

(* rio_readlineb asks for one byte at a time.                              *)
Copy ==
    LET n == IF call.fn = "rio_readlineb" THEN 1 ELSE nleft
        cnt == Least(n, rio.cnt)
    IN /\ ReadsNext /\ call.fn # "rio_readn" /\ rio.cnt > 0
       /\ call' = [call EXCEPT
              !.usrbuf = @ \o SubSeq(rio.buf, rio.bufptr, rio.bufptr + cnt - 1)]
       /\ rio' = Advanced(cnt)
       /\ UNCHANGED <<writerVars, received, readerOpen, answer>>

(* EOF: what there is, which is nothing if the stream had ended before.    *)
EndOfFile ==
    /\ ReadsNext /\ AtEnd
    /\ call.fn = "rio_readn" \/ rio.cnt <= 0
    /\ rio' = IF call.fn = "rio_readn" THEN rio ELSE [rio EXCEPT !.cnt = 0]
    /\ Return(call.usrbuf, TRUE)
    /\ UNCHANGED <<writerVars, received, readerOpen>>

(* An error, for instance a reset: -1, and what was copied is lost.        *)
ReadFails ==
    /\ ReadsNext /\ writer = "closed"
    /\ call.fn = "rio_readn" \/ rio.cnt <= 0
    /\ rio' = IF call.fn = "rio_readn" THEN rio ELSE [rio EXCEPT !.cnt = -1]
    /\ Return(<<>>, FALSE)
    /\ UNCHANGED <<writerVars, received, readerOpen>>

Finish ==
    /\ call # NoCall /\ nleft = 0
    /\ rio' = rio
    /\ Return(call.usrbuf, TRUE)
    /\ UNCHANGED <<writerVars, received, readerOpen>>

RioNext ==
    \/ WriteSome \/ WriteReturns \/ WriterCloses
    \/ \E n \in BlockSizes : Call("rio_readn", n) \/ Call("rio_readnb", n)
    \/ \E n \in LineSizes : Call("rio_readlineb", n)
    \/ ReaderCloses
    \/ rio_readn_some \/ Refill \/ Interrupted \/ Copy
    \/ EndOfFile \/ ReadFails \/ Finish

-----------------------------------------------------------------------------
(* The answer as an interval of the stream; bytes that are not one, or not *)
(* the next ones, are no answer of the abstract reader's.                  *)
Interval(bytes, next) ==
    IF \A i \in 1 .. Len(bytes) : bytes[i] = next - 1 - Len(bytes) + i
    THEN [from |-> next - Len(bytes), to |-> next - 1]
    ELSE [from |-> 0, to |-> 0]

Stream == INSTANCE ByteStream WITH
    taken <- answer.next - 1,
    answer <- [from |-> Interval(answer.bytes, answer.next).from,
               to |-> Interval(answer.bytes, answer.next).to, ok |-> answer.ok]

(* Whatever pieces the bytes come in, and whatever interrupts the calls,   *)
(* every block and line that is read is the next part of what was written, *)
(* complete unless the stream has ended; rio_writen reports success only   *)
(* when all is on its way (csapp.c:426-567).                               *)
ImplementsByteStream == Stream!Spec

=============================================================================
