----------------------------- MODULE ByteStream -----------------------------
(***************************************************************************)
(* What robust I/O promises over a connection that moves bytes in pieces:  *)
(* a write is complete or has failed; a read returns the next bytes of the *)
(* stream, as many as were asked for unless the stream ends before.  Bytes *)
(* are numbered in the order they are written.                             *)
(***************************************************************************)
EXTENDS Integers

CONSTANTS
    Length,     \* bytes the writer writes
    BlockSizes,     \* sizes of blocks that are read
    LineSizes       \* sizes of line buffers

VARIABLES
    newlines,   \* the numbers of the bytes that end a line
    sent,       \* bytes on their way or read
    writer,     \* "writing", "written", "failed" or "closed"
    taken,      \* bytes the reader has been given or has lost
    answer      \* the last answer to the reader: its first and last byte

vars == <<newlines, sent, writer, taken, answer>>

Init ==
    /\ newlines \in SUBSET (1 .. Length)
    /\ sent = 0
    /\ writer = "writing"
    /\ taken = 0
    /\ answer = [from |-> 1, to |-> 0, ok |-> TRUE]

Write ==
    /\ writer = "writing"
    /\ sent' \in sent .. Length
    /\ UNCHANGED <<newlines, writer, taken, answer>>

WriteReturns ==
    /\ writer = "writing"
    /\ (writer' = "written" /\ sent = Length) \/ writer' = "failed"
    /\ UNCHANGED <<newlines, sent, taken, answer>>

Close ==
    /\ writer # "closed"
    /\ writer' = "closed"
    /\ UNCHANGED <<newlines, sent, taken, answer>>

Ended(to) == writer = "closed" /\ to = sent

ReadBlock(n) ==
    \E to \in taken .. sent :
        /\ to - taken = n \/ (to - taken < n /\ Ended(to))
        /\ answer' = [from |-> taken + 1, to |-> to, ok |-> TRUE]
        /\ taken' = to
        /\ UNCHANGED <<newlines, sent, writer>>

(* A line ends with its newline, with the buffer, which keeps a byte for   *)
(* the NUL, or with the stream.                                            *)
ReadLine(n) ==
    \E to \in taken .. sent :
        /\ \A i \in taken + 1 .. to - 1 : i \notin newlines
        /\ to - taken <= n - 1
        /\ \/ to > taken /\ to \in newlines
           \/ to - taken = n - 1
           \/ Ended(to)
        /\ answer' = [from |-> taken + 1, to |-> to, ok |-> TRUE]
        /\ taken' = to
        /\ UNCHANGED <<newlines, sent, writer>>

(* A read that fails may lose what it had; only a closed stream fails.     *)
ReadFails ==
    /\ writer = "closed"
    /\ taken' \in taken .. sent
    /\ answer' = [from |-> taken' + 1, to |-> taken', ok |-> FALSE]
    /\ UNCHANGED <<newlines, sent, writer>>

Next ==
    \/ Write \/ WriteReturns \/ Close
    \/ \E n \in BlockSizes : ReadBlock(n)
    \/ \E n \in LineSizes : ReadLine(n)
    \/ ReadFails

Spec == Init /\ [][Next]_vars

=============================================================================
