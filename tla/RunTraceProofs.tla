--------------------------- MODULE RunTraceProofs ---------------------------
(***************************************************************************)
(* The driver, for all traces that answer the shell only after they have   *)
(* waited for it.                                                          *)
(***************************************************************************)
EXTENDS RunTrace, SequenceTheorems, TLAPS

IsSeq(s) == \E T : s \in Seq(T)

ProcessFields == {"program", "todo", "status", "pending", "group", "parent", "news", "alarm"}

Dead(x) == x.status \in {"zombie", "gone"}

(* The processes are numbered from 1, and so never the shell.              *)
SessionOK ==
    /\ IsSeq(proc) /\ \A p \in DOMAIN proc : DOMAIN proc[p] = ProcessFields
    /\ DOMAIN shell = {"status", "at", "todo", "pending"}
    /\ IsSeq(shell.todo)

Cleaner == {"none", "list", "kill", "remove", "done", "failed", "killed"}

(* Where main is, and what it still has to undo.                           *)
DriverStages ==
    /\ cleaner \in Cleaner
    /\ pc \in {"setup", "mkdir"} => tmp # "ours"
    /\ pc \in {"mkdir", "fork", "arm"} => masked
    /\ pc \in {"setup", "mkdir", "fork", "arm"} => ~cleanup_needed
    /\ pc \in {"prompt", "play", "status", "wait", "flush", "clean", "cleaning"}
           => cleanup_needed
    /\ pc \in {"setup", "mkdir", "fork", "arm", "prompt", "play", "status", "wait", "flush"}
           => cleaner = "none"
    /\ pc \in {"flush", "clean", "cleaning"} => then \in {"ended", "unmask"}
    /\ pc \in {"unmask", "exit"} =>
           ~cleanup_needed /\ (cleaner = "done" \/ (spoiled /\ cleaner # "none"))
    /\ pc \in {"setup", "mkdir", "fork", "arm", "prompt", "play", "status", "wait", "flush",
               "clean", "cleaning", "unmask", "exit", "ended"}

(* What the process that cleans up has achieved.                           *)
CleanerProgress ==
    /\ pc = "cleaning" => cleaner # "none"
    /\ cleaner \in {"list", "kill", "remove"} =>
           pc \in {"clean", "cleaning"} \/ (pc = "ended" /\ spoiled)
    /\ cleaner \in {"failed", "killed"} => spoiled
    /\ cleaner = "done" => tmp # "ours"
    /\ cleaner = "none" => victims = {}
    /\ pc = "ended" /\ cleaner = "none" /\ ~spoiled => tmp # "ours"

Early ==
    \/ pc \in {"setup", "mkdir", "fork"}
    \/ pc = "ended" /\ cleaner = "none" /\ ~spoiled

DriverActs == DriverStep \/ Writes \/ \E fromKeyboard \in BOOLEAN : UserSignals(fromKeyboard)

(* Nothing is in the session before the shell has been forked, and what    *)
(* has been killed stays dead.                                             *)
VictimsStayDead ==
    /\ Early => proc = <<>> /\ shell.status = "none"
    /\ victims \subseteq {Shell} \cup DOMAIN proc
    /\ Shell \in victims => shell.status \notin {"none", "starting"}
    /\ cleaner \in {"remove", "done"} =>
           /\ \A p \in victims \ {Shell} : Dead(proc[p])
           /\ Shell \in victims => shell.status # "running"

CleanUpInv == SessionOK /\ DriverStages /\ CleanerProgress /\ VictimsStayDead

-----------------------------------------------------------------------------
(* The processes of the session.                                           *)

LEMMA SeqDomain ==
    ASSUME NEW s, IsSeq(s)
    PROVE  Len(s) \in Nat /\ DOMAIN s = 1 .. Len(s) /\ s = [i \in 1 .. Len(s) |-> s[i]]
<1>1. PICK T : s \in Seq(T)
  BY DEF IsSeq
<1>2. QED
  BY <1>1

LEMMA SeqOfLength ==
    ASSUME NEW n \in Nat, NEW t, t = [i \in 1 .. n |-> t[i]]
    PROVE  IsSeq(t) /\ DOMAIN t = 1 .. n
<1>1. DOMAIN t = 1 .. n
  OBVIOUS
<1>2. t \in [1 .. n -> {t[i] : i \in 1 .. n}]
  OBVIOUS
<1>3. t \in Seq({t[i] : i \in 1 .. n})
  BY <1>2
<1>4. QED
  BY <1>1, <1>3 DEF IsSeq

(* Nobody disappears from the list of processes, or comes to life again.   *)
Grows(s, t) ==
    /\ IsSeq(t) /\ \A p \in DOMAIN t : DOMAIN t[p] = ProcessFields
    /\ DOMAIN s \subseteq DOMAIN t
    /\ \A p \in DOMAIN s : Dead(s[p]) => Dead(t[p])

LEMMA EachKept ==
    ASSUME NEW s, IsSeq(s), NEW t, t = [p \in DOMAIN s |-> t[p]],
           \A p \in DOMAIN s : DOMAIN t[p] = ProcessFields /\ (Dead(s[p]) => Dead(t[p]))
    PROVE  Grows(s, t)
<1>1. Len(s) \in Nat /\ DOMAIN s = 1 .. Len(s)
  BY SeqDomain
<1>2. IsSeq(t) /\ DOMAIN t = 1 .. Len(s)
  BY <1>1, SeqOfLength
<1>3. QED
  BY <1>1, <1>2 DEF Grows

LEMMA OneKept ==
    ASSUME NEW s, IsSeq(s), \A q \in DOMAIN s : DOMAIN s[q] = ProcessFields,
           NEW p, NEW x, DOMAIN x = ProcessFields,
           p \in DOMAIN s => (Dead(s[p]) => Dead(x))
    PROVE  Grows(s, [s EXCEPT ![p] = x])
<1> DEFINE t == [s EXCEPT ![p] = x]
<1>1. s = [q \in DOMAIN s |-> s[q]]
  BY SeqDomain
<1>2. t = [q \in DOMAIN s |-> IF q = p THEN x ELSE s[q]]
  BY <1>1
<1>3. \A q \in DOMAIN s : t[q] = IF q = p THEN x ELSE s[q]
  BY <1>2
<1>4. t = [q \in DOMAIN s |-> t[q]]
  BY <1>2
<1> HIDE DEF t
<1>5. \A q \in DOMAIN s : DOMAIN t[q] = ProcessFields /\ (Dead(s[q]) => Dead(t[q]))
  BY <1>3
<1>6. QED
  BY <1>4, <1>5, EachKept DEF t

LEMMA OneMore ==
    ASSUME NEW s, NEW t, IsSeq(s), Grows(s, t), NEW x, DOMAIN x = ProcessFields
    PROVE  Grows(s, Append(t, x))
<1> DEFINE u == Append(t, x)
<1>1. PICK T : t \in Seq(T)
  BY DEF Grows, IsSeq
<1>2. /\ u \in Seq(T \cup {x})
      /\ Len(u) = Len(t) + 1 /\ Len(t) \in Nat
      /\ \A i \in 1 .. Len(t) : u[i] = t[i]
      /\ u[Len(t) + 1] = x
  <2>1. t \in Seq(T \cup {x}) /\ x \in T \cup {x}
    BY <1>1
  <2>2. QED
    BY <2>1, AppendProperties
<1>3. DOMAIN u = 1 .. Len(t) + 1 /\ DOMAIN t = 1 .. Len(t)
  BY <1>1, <1>2
<1> HIDE DEF u
<1>4. \A i \in DOMAIN u : i \in DOMAIN t \/ i = Len(t) + 1
  BY <1>2, <1>3
<1>5. IsSeq(u)
  BY <1>2 DEF IsSeq
<1>6. Grows(s, u)
  BY <1>2, <1>3, <1>4, <1>5 DEF Grows
<1>7. QED
  BY <1>6 DEF u

LEMMA SignalKeeps ==
    ASSUME NEW x, DOMAIN x = ProcessFields, NEW sig
    PROVE  /\ DOMAIN Signalled(x, sig) = ProcessFields
           /\ Dead(x) => Dead(Signalled(x, sig))
           /\ sig = "KILL" => Dead(Signalled(x, sig))
<1>1. DOMAIN Ended(x) = ProcessFields /\ Dead(Ended(x))
  BY DEF Ended, Dead, ProcessFields
<1>2. CASE x.status \in {"zombie", "gone"}
  BY <1>2 DEF Signalled, Dead
<1>3. CASE x.status \notin {"zombie", "gone"} /\ sig = "KILL"
  <2>1. Signalled(x, sig) = Ended(x)
    BY <1>3 DEF Signalled
  <2>2. QED
    BY <1>1, <2>1
<1>4. CASE x.status \notin {"zombie", "gone"} /\ sig # "KILL"
  <2>1. DOMAIN Signalled(x, sig) = ProcessFields
    BY <1>4 DEF Signalled, ProcessFields
  <2>2. QED
    BY <1>4, <2>1 DEF Dead
<1>5. QED
  BY <1>2, <1>3, <1>4

LEMMA SignalsKeep ==
    ASSUME NEW s, IsSeq(s), \A q \in DOMAIN s : DOMAIN s[q] = ProcessFields,
           NEW targets, NEW sig
    PROVE  /\ Grows(s, AllSignalled(s, targets, sig))
           /\ sig = "KILL" =>
                \A p \in targets \cap DOMAIN s : Dead(AllSignalled(s, targets, sig)[p])
<1> DEFINE t == AllSignalled(s, targets, sig)
<1>1. \A p \in DOMAIN s : t[p] = IF p \in targets THEN Signalled(s[p], sig) ELSE s[p]
  BY DEF AllSignalled
<1>2. t = [p \in DOMAIN s |-> t[p]]
  BY DEF AllSignalled
<1> HIDE DEF t
<1>3. \A p \in DOMAIN s : DOMAIN t[p] = ProcessFields /\ (Dead(s[p]) => Dead(t[p]))
  BY <1>1, SignalKeeps
<1>4. Grows(s, t)
  BY <1>2, <1>3, EachKept
<1>5. sig = "KILL" => \A p \in targets \cap DOMAIN s : Dead(t[p])
  BY <1>1, SignalKeeps
<1>6. QED
  BY <1>4, <1>5 DEF t

LEMMA GrowsTransitive ==
    ASSUME NEW s, NEW t, NEW u, Grows(s, t), Grows(t, u)
    PROVE  Grows(s, u)
  BY DEF Grows

(* A step after which the shell is as it was, but for its signals.         *)
SameShell ==
    /\ DOMAIN shell' = DOMAIN shell
    /\ shell'.status = shell.status /\ shell'.todo = shell.todo

LEMMA BecomesKeeps ==
    ASSUME SessionOK, NEW procs, Becomes(procs, shell)
    PROVE  proc' = procs /\ SameShell
  BY DEF SessionOK, Becomes, SameShell

LEMMA AfterKeeps ==
    ASSUME SessionOK, NEW p \in DOMAIN proc
    PROVE  Grows(proc, After(p)) /\ After(p)[p].status = proc[p].status
           /\ DOMAIN After(p) = DOMAIN proc
<1> DEFINE x == [proc[p] EXCEPT !.todo = Tail(@)]
<1>1. After(p) = [proc EXCEPT ![p] = x]
  BY DEF After
<1>2. DOMAIN x = ProcessFields /\ x.status = proc[p].status
  BY DEF SessionOK, ProcessFields
<1> HIDE DEF x
<1>3. Grows(proc, After(p))
  <2>1. Dead(proc[p]) => Dead(x)
    BY <1>2 DEF Dead
  <2>2. IsSeq(proc) /\ \A q \in DOMAIN proc : DOMAIN proc[q] = ProcessFields
    BY DEF SessionOK
  <2>3. Grows(proc, [proc EXCEPT ![p] = x])
    BY <1>2, <2>1, <2>2, OneKept
  <2>4. QED
    BY <1>1, <2>3
<1>4. After(p)[p] = x /\ DOMAIN After(p) = DOMAIN proc
  BY <1>1
<1>5. QED
  BY <1>2, <1>3, <1>4

LEMMA JobKeeps ==
    ASSUME SessionOK, NEW p \in DOMAIN proc, Job(p)
    PROVE  Grows(proc, proc') /\ SameShell /\ UNCHANGED shellsyncfd
<1> USE DEF SessionOK
<1>1. CASE Deliver(p)
  <2>1. PICK sig : Becomes([proc EXCEPT ![p] = Delivered(proc[p], sig)], shell)
    BY <1>1 DEF Deliver
  <2> DEFINE x == Delivered(proc[p], sig)
  <2>2. DOMAIN proc[p] = ProcessFields
    OBVIOUS
  <2>3. DOMAIN x = ProcessFields
    BY <2>2 DEF Delivered, Stopped, Ended, ProcessFields
  <2>4. ~Dead(proc[p])
    BY <1>1 DEF Deliver, Dead
  <2> HIDE DEF x
  <2>5. Grows(proc, [proc EXCEPT ![p] = x])
    BY <2>3, <2>4, OneKept
  <2>6. proc' = [proc EXCEPT ![p] = x] /\ SameShell
    BY <2>1, BecomesKeeps DEF x
  <2>7. QED
    BY <1>1, <2>5, <2>6 DEF Deliver
<1>2. CASE Send(p) \/ Recv(p) \/ Waits(p)
  BY <1>2, AfterKeeps DEF Send, Recv, Waits, SameShell, shellsyncfd
<1>3. CASE Ends(p)
  <2> DEFINE x == Ended(proc[p])
  <2>1. DOMAIN x = ProcessFields /\ Dead(x)
    BY DEF Ended, Dead, ProcessFields
  <2>2. Becomes([proc EXCEPT ![p] = x], shell)
    BY <1>3 DEF Ends
  <2> HIDE DEF x
  <2>3. Grows(proc, [proc EXCEPT ![p] = x])
    BY <2>1, OneKept
  <2>4. QED
    BY <1>3, <2>2, <2>3, BecomesKeeps DEF Ends
<1>4. CASE Stops(p)
  <2> DEFINE a == After(p)
             x == Stopped(a[p])
  <2>1. Grows(proc, a) /\ a[p].status = proc[p].status /\ p \in DOMAIN a
    BY AfterKeeps
  <2>2. ~Dead(proc[p])
    BY <1>4 DEF Stops, AtStep, Dead
  <2>3. Becomes([a EXCEPT ![p] = x], shell)
    BY <1>4 DEF Stops
  <2> HIDE DEF a
  <2>4. DOMAIN x = ProcessFields
    BY <2>1 DEF Grows, Stopped, ProcessFields
  <2>5. ~Dead(a[p])
    BY <2>1, <2>2 DEF Dead
  <2> HIDE DEF x
  <2>6. Grows(a, [a EXCEPT ![p] = x])
    BY <2>1, <2>4, <2>5, OneKept DEF Grows
  <2>7. Grows(proc, [a EXCEPT ![p] = x])
    BY <2>1, <2>6, GrowsTransitive
  <2>8. QED
    BY <1>4, <2>3, <2>7, BecomesKeeps DEF Stops
<1>5. CASE Forks(p)
  <2> DEFINE a == After(p)
             x == NewProcess(ChildProgram(proc[p].program), proc[p].group, p)
  <2>1. Grows(proc, a)
    BY AfterKeeps
  <2>2. DOMAIN x = ProcessFields
    BY DEF NewProcess, ProcessFields
  <2>3. proc' = Append(a, x) /\ UNCHANGED <<shell, shellsyncfd>>
    BY <1>5 DEF Forks
  <2> HIDE DEF a, x
  <2>4. Grows(proc, Append(a, x))
    BY <2>1, <2>2, OneMore
  <2>5. QED
    BY <2>3, <2>4 DEF SameShell
<1>6. CASE SignalsParent(p)
  <2>1. PICK sig \in {"INT", "TSTP"} : Becomes(After(p), ShellSignalled(sig))
    BY <1>6 DEF SignalsParent
  <2>2. proc' = After(p) /\ SameShell
    BY <2>1 DEF Becomes, ShellSignalled, SameShell
  <2>3. QED
    BY <1>6, <2>2, AfterKeeps DEF SignalsParent
<1>7. CASE SignalsOthers(p)
  <2> DEFINE a == After(p)
  <2>1. Grows(proc, a)
    BY AfterKeeps
  <2>2. /\ \E targets, sig : proc' = AllSignalled(a, targets, sig)
        /\ UNCHANGED <<shell, shellsyncfd>>
    BY <1>7 DEF SignalsOthers
  <2> HIDE DEF a
  <2>3. PICK targets, sig : proc' = AllSignalled(a, targets, sig)
    BY <2>2
  <2>4. Grows(a, proc')
    BY <2>1, <2>3, SignalsKeep DEF Grows
  <2>5. QED
    BY <2>1, <2>2, <2>4, GrowsTransitive DEF SameShell
<1>8. QED
  BY <1>1, <1>2, <1>3, <1>4, <1>5, <1>6, <1>7 DEF Job

LEMMA JobAlarmKeeps ==
    ASSUME SessionOK, NEW p \in DOMAIN proc, JobAlarm(p)
    PROVE  Grows(proc, proc') /\ SameShell /\ UNCHANGED shellsyncfd
<1> USE DEF SessionOK
<1> DEFINE y == Signalled(proc[p], "ALRM")
           x == [y EXCEPT !.alarm = FALSE]
<1>1. DOMAIN y = ProcessFields /\ (Dead(proc[p]) => Dead(y))
  BY SignalKeeps
<1> HIDE DEF y
<1>2. DOMAIN x = ProcessFields /\ (Dead(y) => Dead(x))
  BY <1>1 DEF ProcessFields, Dead
<1>3. proc' = [proc EXCEPT ![p] = x]
  BY DEF JobAlarm, y
<1> HIDE DEF x
<1>4. Grows(proc, [proc EXCEPT ![p] = x])
  <2>1. Dead(proc[p]) => Dead(x)
    BY <1>1, <1>2
  <2>2. QED
    BY <1>2, <2>1, OneKept
<1>5. QED
  BY <1>3, <1>4 DEF JobAlarm, SameShell

-----------------------------------------------------------------------------
(* The steps of a wrapped call: a datagram is followed at once by the wait *)
(* for its answer.                                                         *)

Paired(t) ==
    /\ \A i \in DOMAIN t : t[i][1] = "shellsync_signal" =>
           i + 1 \in DOMAIN t /\ t[i + 1][1] = "shellsync_wait"
    /\ \A i \in DOMAIN t : i # 1 /\ t[i][1] = "shellsync_wait" =>
           t[i - 1][1] = "shellsync_signal"

Waiting(t) == IF t # <<>> /\ t[1][1] = "shellsync_wait" THEN 1 ELSE 0

Calls(t) == IsSeq(t) /\ Paired(t) /\ Waiting(t) = 0

LEMMA NoCall == Calls(<<>>)
<1>1. <<>> \in Seq({})
  OBVIOUS
<1>2. QED
  BY <1>1 DEF Calls, IsSeq, Paired, Waiting

LEMMA OneCall ==
    ASSUME NEW x, x[1] \notin {"shellsync_signal", "shellsync_wait"}
    PROVE  Calls(<<x>>)
<1>1. <<x>> \in Seq({x})
  OBVIOUS
<1>2. DOMAIN <<x>> = {1} /\ <<x>>[1] = x
  OBVIOUS
<1>3. QED
  BY <1>1, <1>2 DEF Calls, IsSeq, Paired, Waiting

LEMMA SyncCalls == Calls(Sync)
<1>1. Sync \in Seq({<<"shellsync_signal">>, <<"shellsync_wait">>})
  BY DEF Sync
<1>2. /\ DOMAIN Sync = {1, 2} /\ Sync[1] = <<"shellsync_signal">>
      /\ Sync[2] = <<"shellsync_wait">>
  BY DEF Sync
<1>3. Paired(Sync) /\ Waiting(Sync) = 0
  BY <1>2 DEF Paired, Waiting
<1>4. QED
  BY <1>1, <1>3 DEF Calls, IsSeq

LEMMA CallsConcat ==
    ASSUME NEW s, NEW t, Calls(s), Calls(t)
    PROVE  Calls(s \o t)
<1> DEFINE u == s \o t
<1>1. PICK S, T : s \in Seq(S) /\ t \in Seq(T)
  BY DEF Calls, IsSeq
<1>2. /\ u \in Seq(S \cup T) /\ Len(u) = Len(s) + Len(t)
      /\ \A i \in 1 .. Len(s) + Len(t) : u[i] = IF i <= Len(s) THEN s[i] ELSE t[i - Len(s)]
  <2>1. s \in Seq(S \cup T) /\ t \in Seq(S \cup T)
    BY <1>1
  <2>2. QED
    BY <2>1, ConcatProperties
<1>3. /\ Len(s) \in Nat /\ Len(t) \in Nat /\ DOMAIN s = 1 .. Len(s) /\ DOMAIN t = 1 .. Len(t)
      /\ DOMAIN u = 1 .. Len(s) + Len(t)
  BY <1>1, <1>2
<1> HIDE DEF u
<1>4. /\ \A i \in DOMAIN s : i \in DOMAIN u /\ u[i] = s[i]
      /\ \A i \in DOMAIN t : Len(s) + i \in DOMAIN u /\ u[Len(s) + i] = t[i]
      /\ \A i \in DOMAIN u : i \in DOMAIN s \/ (i - Len(s) \in DOMAIN t /\ Len(s) + (i - Len(s)) = i)
  <2>1. \A i \in DOMAIN t : Len(s) + i \in DOMAIN u /\ ~(Len(s) + i <= Len(s))
                            /\ (Len(s) + i) - Len(s) = i
    BY <1>3
  <2>2. QED
    BY <1>2, <1>3, <2>1
<1>5. t # <<>> => t[1][1] # "shellsync_wait"
  BY DEF Calls, Waiting
<1>6. s # <<>> => s[1][1] # "shellsync_wait"
  BY DEF Calls, Waiting
<1>7. Paired(u)
  <2>1. ASSUME NEW i \in DOMAIN u, u[i][1] = "shellsync_signal"
        PROVE  i + 1 \in DOMAIN u /\ u[i + 1][1] = "shellsync_wait"
    <3>1. CASE i \in DOMAIN s
      <4>1. i + 1 \in DOMAIN s /\ s[i + 1][1] = "shellsync_wait"
        BY <1>4, <2>1, <3>1 DEF Calls, Paired
      <4>2. QED
        BY <1>4, <4>1
    <3>2. CASE i \notin DOMAIN s
      <4> DEFINE j == i - Len(s)
      <4>1. j \in DOMAIN t /\ Len(s) + j = i
        BY <1>4, <3>2
      <4> HIDE DEF j
      <4>2. u[i] = t[j]
        BY <1>4, <4>1
      <4>3. j + 1 \in DOMAIN t /\ t[j + 1][1] = "shellsync_wait"
        BY <2>1, <4>1, <4>2 DEF Calls, Paired
      <4>4. Len(s) + (j + 1) = i + 1
        BY <1>3, <4>1
      <4>5. QED
        BY <1>4, <4>3, <4>4
    <3>3. QED
      BY <3>1, <3>2
  <2>2. ASSUME NEW i \in DOMAIN u, i # 1, u[i][1] = "shellsync_wait"
        PROVE  u[i - 1][1] = "shellsync_signal"
    <3>1. CASE i \in DOMAIN s
      <4>1. s[i - 1][1] = "shellsync_signal" /\ i - 1 \in DOMAIN s
        BY <1>3, <1>4, <2>2, <3>1 DEF Calls, Paired
      <4>2. QED
        BY <1>4, <4>1
    <3>2. CASE i \notin DOMAIN s
      <4> DEFINE j == i - Len(s)
      <4>1. j \in DOMAIN t /\ Len(s) + j = i
        BY <1>4, <3>2
      <4> HIDE DEF j
      <4>2. u[i] = t[j]
        BY <1>4, <4>1
      <4>3. j # 1
        <5>1. t # <<>>
          BY <1>3, <4>1
        <5>2. QED
          BY <1>5, <2>2, <4>2, <5>1
      <4>4. t[j - 1][1] = "shellsync_signal" /\ j - 1 \in DOMAIN t
        BY <1>3, <2>2, <4>1, <4>2, <4>3 DEF Calls, Paired
      <4>5. Len(s) + (j - 1) = i - 1
        BY <1>3, <4>1
      <4>6. QED
        BY <1>4, <4>4, <4>5
    <3>3. QED
      BY <3>1, <3>2
  <2>3. QED
    BY <2>1, <2>2 DEF Paired
<1>8. Waiting(u) = 0
  <2>1. CASE s = <<>>
    <3>1. u = t
      BY <1>1, <2>1, ConcatEmptySeq DEF u
    <3>2. QED
      BY <3>1 DEF Calls
  <2>2. CASE s # <<>>
    <3>1. u[1] = s[1]
      <4>1. 1 \in DOMAIN s
        BY <1>1, <1>3, <2>2, EmptySeq
      <4>2. QED
        BY <1>4, <4>1
    <3>2. QED
      BY <1>6, <2>2, <3>1 DEF Waiting
  <2>3. QED
    BY <2>1, <2>2
<1>9. QED
  BY <1>2, <1>7, <1>8 DEF Calls, IsSeq, u

(* A step of a call is taken.                                              *)
LEMMA CallsTail ==
    ASSUME NEW t, IsSeq(t), Paired(t), t # <<>>
    PROVE  /\ IsSeq(Tail(t)) /\ Paired(Tail(t)) /\ Head(t) = t[1]
           /\ Waiting(Tail(t)) = IF t[1][1] = "shellsync_signal" THEN 1 ELSE 0
<1> DEFINE u == Tail(t)
<1>1. PICK T : t \in Seq(T)
  BY DEF IsSeq
<1>2. /\ u \in Seq(T) /\ Len(u) = Len(t) - 1
      /\ \A i \in 1 .. Len(u) : u[i] = t[i + 1]
  BY <1>1, HeadTailProperties
<1>3. Len(t) \in Nat /\ Len(t) > 0 /\ DOMAIN t = 1 .. Len(t)
  BY <1>1, EmptySeq
<1>4. DOMAIN u = 1 .. Len(t) - 1
  BY <1>2
<1> HIDE DEF u
<1>5. /\ \A i \in DOMAIN u : i + 1 \in DOMAIN t /\ i + 1 # 1 /\ u[i] = t[i + 1]
      /\ \A i \in DOMAIN t : i # 1 => i - 1 \in DOMAIN u /\ (i - 1) + 1 = i
  BY <1>2, <1>3, <1>4
<1>6. Paired(u)
  <2>1. ASSUME NEW i \in DOMAIN u, u[i][1] = "shellsync_signal"
        PROVE  i + 1 \in DOMAIN u /\ u[i + 1][1] = "shellsync_wait"
    <3> DEFINE k == i + 1
    <3>1. k \in DOMAIN t /\ t[k][1] = "shellsync_signal"
      BY <1>5, <2>1
    <3> HIDE DEF k
    <3>2. k + 1 \in DOMAIN t /\ t[k + 1][1] = "shellsync_wait"
      BY <3>1 DEF Paired
    <3>3. (i + 1) + 1 \in DOMAIN t /\ t[(i + 1) + 1][1] = "shellsync_wait" /\ i \in Nat
      BY <1>4, <3>2 DEF k
    <3>4. i + 1 \in DOMAIN u
      BY <1>3, <1>4, <3>3
    <3>5. QED
      BY <1>5, <3>3, <3>4
  <2>2. ASSUME NEW i \in DOMAIN u, i # 1, u[i][1] = "shellsync_wait"
        PROVE  u[i - 1][1] = "shellsync_signal"
    <3>1. i + 1 \in DOMAIN t /\ i + 1 # 1 /\ t[i + 1][1] = "shellsync_wait"
      BY <1>5, <2>2
    <3>2. t[(i + 1) - 1][1] = "shellsync_signal"
      BY <3>1 DEF Paired
    <3>3. (i + 1) - 1 = (i - 1) + 1 /\ i - 1 \in DOMAIN u
      BY <1>4, <2>2
    <3>4. QED
      BY <1>5, <3>2, <3>3
  <2>3. QED
    BY <2>1, <2>2 DEF Paired
<1>7. Waiting(u) = IF t[1][1] = "shellsync_signal" THEN 1 ELSE 0
  <2>1. u # <<>> <=> 2 \in DOMAIN t
    <3>1. u # <<>> <=> Len(u) # 0
      BY <1>2, EmptySeq
    <3>2. QED
      BY <1>2, <1>3, <3>1
  <2>2. u # <<>> => u[1] = t[2]
    <3>1. u # <<>> => 1 \in DOMAIN u
      BY <1>3, <1>4, <2>1
    <3>2. 1 + 1 = 2
      OBVIOUS
    <3>3. QED
      BY <1>5, <3>1, <3>2
  <2>3. /\ t[1][1] = "shellsync_signal" => 2 \in DOMAIN t /\ t[2][1] = "shellsync_wait"
        /\ 2 \in DOMAIN t /\ t[2][1] = "shellsync_wait" => t[1][1] = "shellsync_signal"
    <3>1. 1 \in DOMAIN t /\ 1 + 1 = 2 /\ 2 - 1 = 1
      BY <1>3
    <3>2. QED
      BY <3>1 DEF Paired
  <2>4. QED
    BY <2>1, <2>2, <2>3 DEF Waiting
<1>8. QED
  BY <1>2, <1>6, <1>7 DEF IsSeq, u

LEMMA WrappedCalls ==
    /\ \A point : Calls(SyncAt(point))
    /\ Calls(wrap_job_get_pid) /\ Calls(wrap_waitpid) /\ Calls(wrap_waitpid_after)
    /\ \A p, state : Calls(wrap_job_set_state(p, state))
    /\ \A group, sig : Calls(wrap_kill(group, sig))
<1>1. \A point : Calls(SyncAt(point))
  BY NoCall, SyncCalls DEF SyncAt
<1>2. Calls(<<<<"waitpid">>>>)
  <2>1. <<"waitpid">>[1] \notin {"shellsync_signal", "shellsync_wait"}
    OBVIOUS
  <2>2. QED
    BY <2>1, OneCall
<1>3. ASSUME NEW p, NEW state PROVE Calls(<<<<"job_set_state", p, state>>>>)
  <2>1. <<"job_set_state", p, state>>[1] \notin {"shellsync_signal", "shellsync_wait"}
    OBVIOUS
  <2>2. QED
    BY <2>1, OneCall
<1>4. ASSUME NEW p, NEW sig PROVE Calls(<<<<"kill", p, sig>>>>)
  <2>1. <<"kill", p, sig>>[1] \notin {"shellsync_signal", "shellsync_wait"}
    OBVIOUS
  <2>2. QED
    BY <2>1, OneCall
<1>5. QED
  BY <1>1, <1>2, <1>3, <1>4, CallsConcat
     DEF wrap_job_get_pid, wrap_waitpid, wrap_waitpid_after, wrap_job_set_state, wrap_kill

-----------------------------------------------------------------------------
(* The steps of the shell.                                                 *)

ShellFields == {"status", "at", "todo", "pending"}

(* What a step of the session does to the shell, and to the datagrams      *)
(* between it and the driver.                                              *)
ShellGoesOn ==
    /\ DOMAIN shell' = ShellFields /\ IsSeq(shell'.todo) /\ Paired(shell'.todo)
    /\ shellsyncs' \in Nat /\ shellsignals' \in Nat
    /\ shellsyncs' + shellsignals' - Waiting(shell'.todo)
         = shellsyncs + shellsignals - Waiting(shell.todo)
    /\ shell.status \in {"starting", "running"} \/ shell'.status = shell.status
    /\ shell.status = "running" => shell'.status \in {"running", "zombie"}
    /\ shell.status = "starting" => shell'.status \in {"starting", "running", "zombie"}

SyncTypeOK ==
    /\ shellsyncs \in Nat /\ shellsignals \in Nat
    /\ Paired(shell.todo)

(* The shell stays as it is, but for its signals and its place.            *)
LEMMA StaysAsItIs ==
    ASSUME SessionOK, SyncTypeOK, UNCHANGED shellsyncfd, DOMAIN shell' = DOMAIN shell,
           shell'.todo = shell.todo,
           shell'.status = shell.status
             \/ (shell.status = "running" /\ shell'.status = "zombie")
             \/ (shell.status = "starting" /\ shell'.status \in {"running", "zombie"})
    PROVE  ShellGoesOn
<1>1. Waiting(shell.todo) \in Nat
  BY DEF Waiting
<1>2. QED
  BY <1>1 DEF SessionOK, SyncTypeOK, ShellGoesOn, shellsyncfd, ShellFields

(* ... it begins other calls, when it is not in the middle of one.         *)
LEMMA BeginsCalls ==
    ASSUME SessionOK, SyncTypeOK, UNCHANGED shellsyncfd, DOMAIN shell' = DOMAIN shell,
           shell'.status = shell.status, Calls(shell'.todo), Waiting(shell.todo) = 0
    PROVE  ShellGoesOn
  BY DEF SessionOK, SyncTypeOK, ShellGoesOn, shellsyncfd, ShellFields, Calls

(* ... it takes a step of a call that is not one of the two.               *)
LEMMA CallStep ==
    ASSUME SessionOK, SyncTypeOK, NEW step, InCall(step), step \notin {"shellsync_signal", "shellsync_wait"}
    PROVE  Calls(Returned.todo) /\ Waiting(shell.todo) = 0
           /\ DOMAIN Returned = DOMAIN shell /\ Returned.status = shell.status
<1>1. shell.todo # <<>> /\ Head(shell.todo)[1] = step
  BY DEF InCall
<1>2. IsSeq(shell.todo) /\ Paired(shell.todo)
  BY DEF SessionOK, SyncTypeOK
<1>3. /\ IsSeq(Tail(shell.todo)) /\ Paired(Tail(shell.todo))
      /\ Head(shell.todo) = shell.todo[1]
      /\ Waiting(Tail(shell.todo)) = 0
  <2> DEFINE t == shell.todo
  <2>1. t # <<>> /\ Head(t)[1] = step /\ IsSeq(t) /\ Paired(t)
    BY <1>1, <1>2
  <2> HIDE DEF t
  <2>2. /\ IsSeq(Tail(t)) /\ Paired(Tail(t)) /\ Head(t) = t[1]
        /\ Waiting(Tail(t)) = IF t[1][1] = "shellsync_signal" THEN 1 ELSE 0
    BY <2>1, CallsTail
  <2>3. Waiting(Tail(t)) = 0
    BY <2>1, <2>2
  <2>4. QED
    BY <2>2, <2>3 DEF t
<1>4. Waiting(shell.todo) = 0
  BY <1>1, <1>3 DEF Waiting
<1>5. /\ Returned.todo = Tail(shell.todo) /\ DOMAIN Returned = DOMAIN shell
      /\ Returned.status = shell.status
  BY DEF Returned, SessionOK
<1>6. QED
  BY <1>3, <1>4, <1>5 DEF Calls

LEMMA ReadLineKeeps ==
    ASSUME SessionOK, SyncTypeOK, ReadLine
    PROVE  Grows(proc, proc') /\ ShellGoesOn
<1>1. shell.status = "running" /\ shell.todo = <<>> /\ UNCHANGED shellsyncfd
  BY DEF ReadLine, AtMain
<1>2. Waiting(shell.todo) = 0 /\ Grows(proc, proc)
  BY <1>1 DEF Waiting, Grows, SessionOK
<1>3. \/ \E program, state : RunJob(program, state)
      \/ \E p, state : Resume(p, state, wrap_job_get_pid) \/ Resume(p, state, <<>>)
      \/ ShellEnds \/ NoSuchJob
  <2> DEFINE c == Head(lines)
  <2>1. \/ RunJob(c[2], c[1])
        \/ Resume(job[c[2]].pid, "FG", wrap_job_get_pid)
        \/ Resume(job[c[2]].pid, "BG", wrap_job_get_pid)
        \/ Resume(c[2], c[3], <<>>)
        \/ ShellEnds \/ NoSuchJob
    BY DEF ReadLine
  <2>2. QED
    BY <2>1
<1>4. CASE \E program, state : RunJob(program, state)
  <2>1. PICK program, state : RunJob(program, state)
    BY <1>4
  <2> DEFINE x == NewProcess(program, Len(proc) + 1, Shell)
  <2>2. DOMAIN x = ProcessFields
    BY DEF NewProcess, ProcessFields
  <2>3. proc' = Append(proc, x)
    BY <2>1 DEF RunJob
  <2> HIDE DEF x
  <2>4. Grows(proc, proc')
    BY <1>2, <2>2, <2>3, OneMore DEF SessionOK
  <2>5. DOMAIN shell' = DOMAIN shell /\ shell'.todo = shell.todo /\ shell'.status = shell.status
    BY <2>1 DEF RunJob, SessionOK
  <2>6. QED
    BY <1>1, <2>4, <2>5, StaysAsItIs
<1>5. CASE \E p, state : Resume(p, state, wrap_job_get_pid) \/ Resume(p, state, <<>>)
  <2>1. PICK p, state : Resume(p, state, wrap_job_get_pid) \/ Resume(p, state, <<>>)
    BY <1>5
  <2>2. PICK first : Calls(first) /\ Resume(p, state, first)
    BY <2>1, WrappedCalls, NoCall
  <2>3. /\ shell'.todo = first \o wrap_kill(p, "CONT") \o wrap_job_set_state(p, state)
        /\ DOMAIN shell' = DOMAIN shell /\ shell'.status = shell.status /\ proc' = proc
    BY <2>2 DEF Resume, SessionOK
  <2>4. Calls(shell'.todo)
    BY <2>2, <2>3, CallsConcat, WrappedCalls
  <2>5. QED
    BY <1>1, <1>2, <2>3, <2>4, BeginsCalls
<1>6. CASE ShellEnds \/ NoSuchJob
  <2>1. /\ DOMAIN shell' = DOMAIN shell /\ shell'.todo = shell.todo /\ proc' = proc
        /\ shell'.status = shell.status
             \/ (shell.status = "running" /\ shell'.status = "zombie")
    BY <1>1, <1>6 DEF ShellEnds, NoSuchJob, SessionOK
  <2>2. QED
    BY <1>1, <1>2, <2>1, StaysAsItIs
<1>7. QED
  BY <1>3, <1>4, <1>5, <1>6

LEMMA WaitpidKeeps ==
    ASSUME SessionOK, SyncTypeOK, Waitpid
    PROVE  Grows(proc, proc') /\ ShellGoesOn
<1>1. InCall("waitpid") /\ UNCHANGED shellsyncfd /\ shell.status = "running"
  BY DEF Waitpid, InCall
<1>2. /\ Calls(Returned.todo) /\ Waiting(shell.todo) = 0
      /\ DOMAIN Returned = DOMAIN shell /\ Returned.status = shell.status
  BY <1>1, CallStep
<1>3. Grows(proc, proc)
  BY DEF Grows, SessionOK
<1>4. CASE shell' = Returned /\ UNCHANGED <<proc, job>>
  BY <1>1, <1>2, <1>3, <1>4, BeginsCalls
<1>5. ASSUME NEW p \in Children(Shell), WaitpidEnded(p) \/ WaitpidStopped(p)
      PROVE  Grows(proc, proc') /\ ShellGoesOn
  <2>1. p \in DOMAIN proc
    BY DEF Children
  <2>2. Grows(proc, proc')
    <3> DEFINE x == [proc[p] EXCEPT !.status = "gone", !.news = FALSE]
               y == [proc[p] EXCEPT !.news = FALSE]
    <3>1. /\ DOMAIN x = ProcessFields /\ Dead(x)
          /\ DOMAIN y = ProcessFields /\ y.status = proc[p].status
      BY <2>1 DEF SessionOK, ProcessFields, Dead
    <3>2. proc' = [proc EXCEPT ![p] = x] \/ proc' = [proc EXCEPT ![p] = y]
      BY <1>5, <2>1 DEF WaitpidEnded, WaitpidStopped
    <3> HIDE DEF x, y
    <3>3. Dead(proc[p]) => Dead(y)
      BY <3>1 DEF Dead
    <3>4. Grows(proc, [proc EXCEPT ![p] = x])
      BY <2>1, <3>1, OneKept DEF SessionOK
    <3>5. Grows(proc, [proc EXCEPT ![p] = y])
      BY <2>1, <3>1, <3>3, OneKept DEF SessionOK
    <3>6. QED
      BY <3>2, <3>4, <3>5
  <2>3. DOMAIN shell' = DOMAIN shell /\ shell'.status = shell.status
    BY <1>5 DEF WaitpidEnded, WaitpidStopped, SessionOK
  <2>4. Calls(shell'.todo)
    <3>1. \/ shell'.todo = wrap_waitpid_after \o wrap_waitpid
          \/ shell'.todo = wrap_waitpid_after \o wrap_job_set_state(p, "ST") \o wrap_waitpid
      BY <1>5 DEF WaitpidEnded, WaitpidStopped, SessionOK
    <3>2. QED
      BY <3>1, CallsConcat, WrappedCalls
  <2>5. QED
    BY <1>1, <1>2, <2>2, <2>3, <2>4, BeginsCalls
<1>6. QED
  BY <1>4, <1>5 DEF Waitpid

LEMMA DatagramKeeps ==
    ASSUME SessionOK, SyncTypeOK, ShellsyncSignal \/ ShellsyncWait
    PROVE  Grows(proc, proc') /\ ShellGoesOn
<1> DEFINE t == shell.todo
<1>1. t # <<>> /\ IsSeq(t) /\ Paired(t) /\ shell.status = "running"
  BY DEF ShellsyncSignal, ShellsyncWait, InCall, SessionOK, SyncTypeOK
<1>2. /\ shell'.todo = Tail(t) /\ DOMAIN shell' = DOMAIN shell
      /\ shell'.status = shell.status /\ proc' = proc
  BY DEF ShellsyncSignal, ShellsyncWait, Returned, SessionOK
<1> HIDE DEF t
<1>3. /\ IsSeq(Tail(t)) /\ Paired(Tail(t)) /\ Head(t) = t[1]
      /\ Waiting(Tail(t)) = IF t[1][1] = "shellsync_signal" THEN 1 ELSE 0
  BY <1>1, CallsTail
<1>4. Grows(proc, proc')
  BY <1>2 DEF Grows, SessionOK
<1>5. CASE ShellsyncSignal
  <2>1. t[1][1] = "shellsync_signal" /\ shellsyncs' = shellsyncs + 1 /\ shellsignals' = shellsignals
    BY <1>3, <1>5 DEF ShellsyncSignal, InCall, t
  <2>2. Waiting(t) = 0 /\ Waiting(Tail(t)) = 1
    BY <1>3, <2>1 DEF Waiting
  <2>3. QED
    BY <1>1, <1>2, <1>3, <1>4, <2>1, <2>2 DEF ShellGoesOn, SyncTypeOK, SessionOK, ShellFields, t
<1>6. CASE ShellsyncWait
  <2>1. /\ t[1][1] = "shellsync_wait" /\ shellsignals > 0
        /\ shellsyncs' = shellsyncs /\ shellsignals' = shellsignals - 1
    BY <1>3, <1>6 DEF ShellsyncWait, InCall, t
  <2>2. Waiting(t) = 1 /\ Waiting(Tail(t)) = 0
    BY <1>1, <1>3, <2>1 DEF Waiting
  <2>3. QED
    BY <1>1, <1>2, <1>3, <1>4, <2>1, <2>2 DEF ShellGoesOn, SyncTypeOK, SessionOK, ShellFields, t
<1>7. QED
  BY <1>5, <1>6

LEMMA ShellStepKeeps ==
    ASSUME SessionOK, SyncTypeOK, ShellStep
    PROVE  Grows(proc, proc') /\ ShellGoesOn
<1>1. Grows(proc, proc)
  BY DEF Grows, SessionOK
<1>2. CASE ShellStarts \/ Prompts \/ ForegroundDone
  <2>1. /\ DOMAIN shell' = DOMAIN shell /\ shell'.todo = shell.todo /\ proc' = proc
        /\ UNCHANGED shellsyncfd
        /\ shell'.status = shell.status
             \/ (shell.status = "starting" /\ shell'.status = "running")
    BY <1>2 DEF ShellStarts, Prompts, ForegroundDone, SessionOK
  <2>2. QED
    BY <1>1, <2>1, StaysAsItIs
<1>3. CASE \E sig \in {"INT", "TSTP", "CHLD"} : Handle(sig)
  <2>1. PICK sig \in {"INT", "TSTP", "CHLD"} : Handle(sig)
    BY <1>3
  <2>2. PICK handler \in Handlers(sig) :
          shell' = [shell EXCEPT !.pending = @ \ {sig}, !.todo = handler]
    BY <2>1 DEF Handle
  <2>3. Calls(handler)
    BY <2>2, CallsConcat, WrappedCalls, NoCall DEF Handlers
  <2>4. /\ DOMAIN shell' = DOMAIN shell /\ shell'.todo = handler
        /\ shell'.status = shell.status
    BY <2>2 DEF SessionOK
  <2>5. UNCHANGED <<proc, shellsyncfd>> /\ Waiting(shell.todo) = 0
    BY <2>1 DEF Handle, Waiting
  <2>6. QED
    BY <1>1, <2>3, <2>4, <2>5, BeginsCalls
<1>4. CASE Kill
  <2>1. PICK targets, sig : Becomes(AllSignalled(proc, targets, sig), Returned)
    BY <1>4 DEF Kill
  <2>2. /\ Calls(Returned.todo) /\ Waiting(shell.todo) = 0
        /\ DOMAIN Returned = DOMAIN shell /\ Returned.status = shell.status
    BY <1>4, CallStep DEF Kill
  <2>3. /\ proc' = AllSignalled(proc, targets, sig)
        /\ DOMAIN shell' = DOMAIN Returned /\ shell'.status = Returned.status
        /\ shell'.todo = Returned.todo
    BY <2>1, <2>2 DEF Becomes, SessionOK
  <2>4. Grows(proc, proc')
    BY <2>3, SignalsKeep DEF SessionOK
  <2>5. UNCHANGED shellsyncfd
    BY <1>4 DEF Kill
  <2>6. QED
    BY <2>2, <2>3, <2>4, <2>5, BeginsCalls
<1>5. CASE JobSetState
  <2>1. InCall("job_set_state") /\ UNCHANGED <<proc, shellsyncfd>> /\ shell.status = "running"
    BY <1>5 DEF JobSetState, InCall
  <2>2. /\ Calls(Returned.todo) /\ Waiting(shell.todo) = 0
        /\ DOMAIN Returned = DOMAIN shell /\ Returned.status = shell.status
    BY <2>1, CallStep
  <2>3. shell' = Returned \/ shell' = [shell EXCEPT !.status = "zombie"]
    BY <1>5 DEF JobSetState
  <2>4. CASE shell' = Returned
    BY <1>1, <2>1, <2>2, <2>4, BeginsCalls
  <2>5. CASE shell' = [shell EXCEPT !.status = "zombie"]
    <3>1. DOMAIN shell' = DOMAIN shell /\ shell'.todo = shell.todo /\ shell'.status = "zombie"
      BY <2>5 DEF SessionOK
    <3>2. QED
      BY <1>1, <2>1, <3>1, StaysAsItIs
  <2>6. QED
    BY <2>3, <2>4, <2>5
<1>6. QED
  BY <1>2, <1>3, <1>4, <1>5, ReadLineKeeps, WaitpidKeeps, DatagramKeeps DEF ShellStep

(* Every step that the driver does not take.                               *)
LEMMA SessionKeeps ==
    ASSUME SessionOK, SyncTypeOK,
           SessionStep \/ ShellCrashes \/ \E p \in DOMAIN proc : JobAlarm(p)
    PROVE  Grows(proc, proc') /\ ShellGoesOn
<1>1. ASSUME SameShell, UNCHANGED shellsyncfd PROVE ShellGoesOn
  BY <1>1, StaysAsItIs DEF SameShell
<1>2. CASE SessionStep
  BY <1>1, <1>2, JobKeeps, ShellStepKeeps DEF SessionStep
<1>3. CASE ShellCrashes
  <2>1. /\ DOMAIN shell' = DOMAIN shell /\ shell'.todo = shell.todo /\ proc' = proc
        /\ UNCHANGED shellsyncfd /\ shell.status = "running" /\ shell'.status = "zombie"
    BY <1>3 DEF ShellCrashes, SessionOK
  <2>2. QED
    BY <2>1, StaysAsItIs DEF Grows, SessionOK
<1>4. CASE \E p \in DOMAIN proc : JobAlarm(p)
  BY <1>1, <1>4, JobAlarmKeeps
<1>5. QED
  BY <1>2, <1>3, <1>4

-----------------------------------------------------------------------------
(* The steps of the driver.                                                *)

LEMMA StagesKept ==
    ASSUME DriverStages, CleanerProgress, DriverActs \/ UNCHANGED driverVars
    PROVE  DriverStages' /\ CleanerProgress'
<1> USE DEF DriverStages, CleanerProgress, Cleaner
<1>1. CASE Setup \/ MakeDirectory \/ ForkShell \/ Arm \/ InitialPrompt
  BY <1>1 DEF Setup, MakeDirectory, ForkShell, Arm, InitialPrompt, Calling
<1>2. CASE \/ Wait \/ ShellWait \/ SignalJob \/ SignalShell \/ NextPrompt
           \/ \E sig \in {"INT", "TSTP"} : KillShell(sig)
  <2>1. Play /\ Proceed
    BY <1>2 DEF Wait, ShellWait, SignalJob, SignalShell, NextPrompt, KillShell, AtCommand
  <2>2. QED
    BY <2>1 DEF Proceed
<1>3. CASE NextSync \/ NextOutput \/ FlushOutput \/ Writes \/ AlarmExpires \/ UNCHANGED driverVars
  <2>1. UNCHANGED <<pc, masked, cleanup_needed, tmp, cleaner, victims, then, spoiled>>
    BY <1>3 DEF NextSync, NextOutput, FlushOutput, Writes, AlarmExpires, driverVars, mainVars
  <2>2. QED
    BY <2>1
<1>4. CASE PassOn \/ SendPid
  <2>1. Play /\ (Proceed \/ Exit)
    BY <1>4 DEF PassOn, SendPid, Sent, AtCommand
  <2>2. pc = "play" /\ UNCHANGED <<masked, cleanup_needed, tmp, cleaner, victims>>
    BY <2>1 DEF Play, Proceed, Exit
  <2>3. \/ UNCHANGED <<pc, then, spoiled>>
        \/ pc' = "clean" /\ then' = "ended" /\ UNCHANGED spoiled
        \/ pc' = "ended" /\ spoiled' = TRUE
    BY <2>1, <2>2 DEF Proceed, Exit, Calling
  <2>4. QED
    BY <2>2, <2>3
<1>5. CASE TimesOut \/ InitialOutput
  <2>1. /\ pc \in {"prompt", "play"}
        /\ masked' = TRUE
        /\ UNCHANGED <<cleanup_needed, tmp, cleaner, victims, then>>
    BY <1>5 DEF TimesOut, InitialOutput, NothingReadable, AtCommand, Play
  <2>2. \/ pc' = "status" /\ UNCHANGED spoiled
        \/ pc' = "ended" /\ spoiled' = TRUE
    BY <1>5 DEF TimesOut, InitialOutput, Calling
  <2>3. QED
    BY <2>1, <2>2
<1>6. CASE PrintChildStatus \/ SignalEof \/ ShellHasEnded
  BY <1>6 DEF PrintChildStatus, SignalEof, ShellHasEnded
<1>7. CASE Flushed
  BY <1>7 DEF Flushed, Calling
<1>8. CASE Unmask \/ ExitNormally
  BY <1>8 DEF Unmask, ExitNormally, Exit, Calling
<1>9. CASE CleanFork \/ CleanerLists \/ CleanerKills \/ CleanerRemoves
  BY <1>9 DEF CleanFork, CleanerLists, CleanerKills, CleanerRemoves
<1>10. CASE CleanReturns
  <2>1. cleaner \in {"failed", "done", "killed"}
    BY <1>10 DEF CleanReturns, CleanerWaited
  <2>2. QED
    BY <1>10, <2>1 DEF CleanReturns
<1>11. CASE HandleSignal
  BY <1>11 DEF HandleSignal, Calling
<1>12. CASE \E fromKeyboard \in BOOLEAN : UserSignals(fromKeyboard)
  BY <1>12 DEF UserSignals
<1>13. QED
  BY <1>1, <1>2, <1>3, <1>4, <1>5, <1>6, <1>7, <1>8, <1>9, <1>10, <1>11, <1>12
     DEF DriverActs, DriverStep

(* What becomes of the shell after a step of the driver.                   *)
ShellOnlyEnds ==
    /\ shell.status = "none" => shell'.status = "none"
    /\ shell.status \notin {"none", "starting"} => shell'.status \notin {"none", "starting"}
    /\ shell.status \notin {"none", "starting", "running"} => shell'.status # "running"

LEMMA DriverLeavesShell ==
    ASSUME SessionOK,
           DriverActs
    PROVE  /\ Grows(proc, proc')
           /\ DOMAIN shell' = DOMAIN shell /\ shell'.todo = shell.todo
           /\ ForkShell \/ ShellOnlyEnds
           /\ CleanerKills \/ proc' = proc
<1>1. Grows(proc, proc)
  BY DEF Grows, SessionOK
<1>2. CASE UNCHANGED <<proc, shell>>
  BY <1>1, <1>2 DEF ShellOnlyEnds
<1>3. CASE ForkShell
  BY <1>1, <1>3 DEF ForkShell, SessionOK
<1>4. CASE \E sig \in {"INT", "TSTP"} : KillShell(sig)
  BY <1>1, <1>4 DEF KillShell, ShellSignalled, ShellOnlyEnds, SessionOK
<1>5. CASE PrintChildStatus \/ ShellHasEnded \/ CleanReturns
  BY <1>1, <1>5 DEF PrintChildStatus, ShellHasEnded, CleanReturns, Reaped, ShellOnlyEnds, SessionOK
<1>6. CASE CleanerKills
  <2> DEFINE sh == IF Shell \in victims /\ shell.status = "running"
                   THEN [shell EXCEPT !.status = "zombie"] ELSE shell
  <2>1. Becomes(AllSignalled(proc, victims, "KILL"), sh)
    BY <1>6 DEF CleanerKills
  <2>2. /\ DOMAIN sh = DOMAIN shell /\ sh.todo = shell.todo
        /\ sh.status = shell.status \/ (shell.status = "running" /\ sh.status = "zombie")
    BY DEF SessionOK
  <2> HIDE DEF sh
  <2>3. /\ proc' = AllSignalled(proc, victims, "KILL")
        /\ DOMAIN shell' = DOMAIN sh /\ shell'.todo = sh.todo /\ shell'.status = sh.status
    BY <2>1, <2>2 DEF Becomes, SessionOK
  <2>4. Grows(proc, proc')
    BY <2>3, SignalsKeep DEF SessionOK
  <2>5. QED
    BY <1>6, <2>2, <2>3, <2>4 DEF ShellOnlyEnds
<1>7. CASE \E fromKeyboard \in BOOLEAN : UserSignals(fromKeyboard)
  BY <1>1, <1>7 DEF UserSignals, ShellOnlyEnds, SessionOK
<1>8. CASE \/ Setup \/ MakeDirectory \/ Arm \/ InitialPrompt \/ InitialOutput
           \/ Wait \/ ShellWait \/ SignalJob \/ SignalShell \/ NextPrompt \/ NextSync
           \/ NextOutput \/ FlushOutput \/ Flushed \/ Writes
           \/ SignalEof \/ Unmask \/ ExitNormally
           \/ CleanFork \/ CleanerLists \/ CleanerRemoves \/ HandleSignal
  BY <1>2, <1>8 DEF Setup, MakeDirectory, Arm, InitialPrompt, InitialOutput, Wait, ShellWait,
       SignalJob, SignalShell, NextPrompt, NextSync, NextOutput, FlushOutput, Flushed, Writes, SignalEof, Unmask, ExitNormally, CleanFork,
       CleanerLists, CleanerRemoves, HandleSignal, sessionVars
<1>9. CASE PassOn \/ SendPid
  BY <1>2, <1>9 DEF PassOn, SendPid
<1>10. CASE TimesOut \/ AlarmExpires
  BY <1>2, <1>10 DEF TimesOut, AlarmExpires, sessionVars
<1>11. QED
  BY <1>3, <1>4, <1>5, <1>6, <1>7, <1>8, <1>9, <1>10 DEF DriverActs, DriverStep

-----------------------------------------------------------------------------
(* What has been listed and killed.                                        *)

LEMMA VictimsKept ==
    ASSUME SessionOK, VictimsStayDead, Grows(proc, proc'), UNCHANGED victims,
           cleaner' \in {"remove", "done"} => cleaner \in {"remove", "done"},
           shell.status \notin {"none", "starting"} => shell'.status \notin {"none", "starting"},
           shell.status \notin {"none", "starting", "running"} => shell'.status # "running",
           Early' => Early /\ proc' = proc /\ (shell.status = "none" => shell'.status = "none")
    PROVE  VictimsStayDead'
<1>1. Early' => proc' = <<>> /\ shell'.status = "none"
  BY DEF VictimsStayDead
<1>2. DOMAIN proc \subseteq DOMAIN proc'
  BY DEF Grows
<1>3. victims' \subseteq {Shell} \cup DOMAIN proc'
  BY <1>2 DEF VictimsStayDead
<1>4. Shell \in victims' => shell'.status \notin {"none", "starting"}
  BY DEF VictimsStayDead
<1>5. ASSUME cleaner' \in {"remove", "done"}, NEW p \in victims' \ {Shell}
      PROVE  Dead(proc'[p])
  BY <1>5 DEF VictimsStayDead, Grows
<1>6. cleaner' \in {"remove", "done"} /\ Shell \in victims' => shell'.status # "running"
  BY DEF VictimsStayDead
<1>7. QED
  BY <1>1, <1>3, <1>4, <1>5, <1>6 DEF VictimsStayDead

(* Before the shell has been forked, the driver is alone.                  *)
LEMMA NothingYet ==
    ASSUME SessionOK, proc = <<>>, shell.status = "none"
    PROVE  ~SessionStep /\ ~ShellCrashes /\ ~(\E p \in DOMAIN proc : JobAlarm(p))
<1>1. DOMAIN proc = {}
  OBVIOUS
<1>2. ~ShellStep
  BY DEF ShellStep, ShellStarts, Prompts, ReadLine, ForegroundDone, Handle, ShellsyncSignal,
         ShellsyncWait, Waitpid, JobSetState, Kill, AtMain, InCall
<1>3. QED
  BY <1>1, <1>2 DEF SessionStep, ShellCrashes

LEMMA EarlyBefore ==
    ASSUME DriverStages, CleanerProgress, Early', DriverActs
    PROVE  Early /\ ~ForkShell /\ ~CleanerKills
<1> USE DEF DriverStages, CleanerProgress, Cleaner, Early
<1>1. ~ForkShell
  BY DEF ForkShell
<1>2. CASE \/ Setup \/ MakeDirectory \/ Arm \/ InitialPrompt \/ InitialOutput \/ TimesOut
           \/ SignalEof \/ Flushed \/ Unmask
  <2>1. CASE Setup \/ MakeDirectory
    BY <1>1, <2>1 DEF Setup, MakeDirectory, Calling, CleanerKills
  <2>2. ~Arm /\ ~InitialPrompt /\ ~InitialOutput /\ ~TimesOut
    BY DEF Arm, InitialPrompt, InitialOutput, TimesOut, Calling
  <2>3. ~SignalEof /\ ~Flushed /\ ~Unmask
    BY DEF SignalEof, Flushed, Unmask, Calling
  <2>4. QED
    BY <1>2, <2>1, <2>2, <2>3
<1>3. ASSUME Play, Proceed \/ Exit PROVE FALSE
  BY <1>3 DEF Play, Proceed, Exit, Calling
<1>4. CASE \/ Wait \/ ShellWait \/ SignalJob \/ SignalShell \/ NextPrompt
           \/ \E sig \in {"INT", "TSTP"} : KillShell(sig)
  BY <1>3, <1>4 DEF Wait, ShellWait, SignalJob, SignalShell, NextPrompt, KillShell, AtCommand
<1>5. CASE PassOn \/ SendPid
  BY <1>3, <1>5 DEF PassOn, SendPid, Sent, AtCommand
<1>6. ~NextSync /\ ~NextOutput /\ ~FlushOutput
  <2>1. NextSync \/ NextOutput \/ FlushOutput => pc \in {"play", "flush"} /\ UNCHANGED pc
    BY DEF NextSync, NextOutput, FlushOutput, AtCommand, Play, driverVars, mainVars
  <2>2. QED
    BY <2>1
<1>7. ~PrintChildStatus /\ ~ShellHasEnded /\ ~CleanFork
  BY DEF PrintChildStatus, ShellHasEnded, CleanFork
<1>8. CASE AlarmExpires \/ Writes
  <2>1. UNCHANGED <<pc, cleaner, spoiled>> /\ cleaner' = cleaner
    BY <1>8 DEF AlarmExpires, Writes, mainVars
  <2>2. QED
    BY <1>1, <2>1 DEF CleanerKills
<1>9. ~ExitNormally
  <2>1. ExitNormally => /\ pc = "exit" /\ UNCHANGED cleaner
                        /\ pc' \in {"clean", "ended"} /\ (UNCHANGED spoiled \/ spoiled')
    BY DEF ExitNormally, Exit, Calling
  <2>2. QED
    BY <2>1
<1>10. ~CleanerLists /\ ~CleanerKills /\ ~CleanerRemoves
  BY DEF CleanerLists, CleanerKills, CleanerRemoves
<1>11. ~CleanReturns
  BY DEF CleanReturns, CleanerWaited
<1>12. CASE HandleSignal
  BY <1>1, <1>10, <1>12 DEF HandleSignal, Calling
<1>13. CASE \E fromKeyboard \in BOOLEAN : UserSignals(fromKeyboard)
  BY <1>1, <1>10, <1>13 DEF UserSignals
<1>14. QED
  BY <1>1, <1>2, <1>4, <1>5, <1>6, <1>7, <1>8, <1>9, <1>10, <1>11, <1>12, <1>13
     DEF DriverActs, DriverStep

LEMMA CleanUpInit == RunTraceInit => CleanUpInv
<1> SUFFICES ASSUME RunTraceInit PROVE CleanUpInv
  OBVIOUS
<1>1. SessionOK
  <2>1. <<>> \in Seq({})
    OBVIOUS
  <2>2. DOMAIN <<>> = {}
    OBVIOUS
  <2>3. QED
    BY <2>1, <2>2 DEF RunTraceInit, SessionInit, SessionOK, IsSeq
<1>2. tmp # "ours"
  BY DEF RunTraceInit
<1>3. /\ pc = "setup" /\ cleanup_needed = FALSE /\ cleaner = "none" /\ victims = {}
      /\ proc = <<>> /\ shell.status = "none"
  BY DEF RunTraceInit, SessionInit
<1>4. QED
  BY <1>1, <1>2, <1>3
     DEF CleanUpInv, DriverStages, CleanerProgress, VictimsStayDead, Cleaner, Early

(* CleanerKills: a process that has been killed is dead.                   *)
LEMMA KillsVictims ==
    ASSUME SessionOK, VictimsStayDead, CleanerKills, ~Early'
    PROVE  VictimsStayDead'
<1> DEFINE sh == IF Shell \in victims /\ shell.status = "running"
                 THEN [shell EXCEPT !.status = "zombie"] ELSE shell
           all == AllSignalled(proc, victims, "KILL")
<1>1. Becomes(all, sh)
  BY DEF CleanerKills
<1>2. /\ DOMAIN sh = DOMAIN shell
      /\ sh.status = shell.status \/ (shell.status = "running" /\ sh.status = "zombie")
      /\ Shell \in victims => sh.status # "running"
  BY DEF SessionOK
<1> HIDE DEF sh
<1>3. proc' = all /\ shell'.status = sh.status
  BY <1>1, <1>2 DEF Becomes, SessionOK
<1>4. /\ \A p \in victims \cap DOMAIN proc : Dead(all[p])
      /\ Grows(proc, all)
  BY SignalsKeep DEF SessionOK
<1>5. UNCHANGED victims
  BY DEF CleanerKills
<1> HIDE DEF all
<1>6. \A p \in victims' \ {Shell} : Dead(proc'[p])
  BY <1>3, <1>4, <1>5 DEF VictimsStayDead
<1>7. victims' \subseteq {Shell} \cup DOMAIN proc'
  BY <1>3, <1>4, <1>5 DEF VictimsStayDead, Grows
<1>8. Shell \in victims' => shell'.status \notin {"none", "starting", "running"}
  BY <1>2, <1>3, <1>5 DEF VictimsStayDead
<1>9. QED
  BY <1>6, <1>7, <1>8 DEF VictimsStayDead

LEMMA VictimsInductive ==
    ASSUME SessionOK, DriverStages, CleanerProgress, VictimsStayDead, SyncTypeOK,
           RunTraceNext \/ UNCHANGED runVars
    PROVE  VictimsStayDead'
<1>1. CASE UNCHANGED runVars
  BY <1>1 DEF runVars, sessionVars, driverVars, mainVars, VictimsStayDead, Early
<1>2. CASE /\ SessionStep \/ ShellCrashes \/ \E p \in DOMAIN proc : JobAlarm(p)
           /\ UNCHANGED driverVars
  <2>1. Grows(proc, proc') /\ ShellGoesOn
    BY <1>2, SessionKeeps
  <2>2. UNCHANGED <<pc, cleaner, victims, spoiled>>
    BY <1>2 DEF driverVars, mainVars
  <2>3. ~Early
    BY <1>2, NothingYet DEF VictimsStayDead
  <2>4. Early' <=> Early
    BY <2>2 DEF Early
  <2>5. shell.status \notin {"none", "starting"} => shell'.status \notin {"none", "starting"}
    BY <2>1 DEF ShellGoesOn
  <2>6. shell.status \notin {"none", "starting", "running"} => shell'.status # "running"
    BY <2>1 DEF ShellGoesOn
  <2>7. QED
    BY <2>1, <2>2, <2>3, <2>4, <2>5, <2>6, VictimsKept
<1>3. CASE DriverActs
  <2>1. /\ Grows(proc, proc')
        /\ ForkShell \/ ShellOnlyEnds
        /\ CleanerKills \/ proc' = proc
    BY <1>3, DriverLeavesShell
  <2>2. Early' => Early /\ ~ForkShell /\ ~CleanerKills
    BY <1>3, EarlyBefore
  <2>3. CASE CleanerKills
    BY <2>2, <2>3, KillsVictims
  <2>4. CASE CleanerLists
    <3>1. UNCHANGED <<proc, shell, pc>> /\ victims' = InSession /\ cleaner' = "kill"
      BY <2>4 DEF CleanerLists, sessionVars
    <3>2. ~Early'
      BY <2>4, <3>1 DEF CleanerLists, CleanerProgress, Early
    <3>3. Shell \notin DOMAIN proc
      BY SeqDomain DEF SessionOK, Shell
    <3>4. /\ victims' \subseteq {Shell} \cup DOMAIN proc'
          /\ Shell \in victims' => shell'.status = "running"
      BY <3>1, <3>3 DEF InSession, Live
    <3>5. QED
      BY <3>1, <3>2, <3>4 DEF VictimsStayDead
  <2>5. CASE ForkShell
    <3>1. victims = {} /\ UNCHANGED victims
      BY <2>5 DEF ForkShell, DriverStages, CleanerProgress
    <3>2. cleaner' = "none"
      BY <2>5 DEF ForkShell, DriverStages
    <3>3. QED
      BY <2>2, <2>5, <3>1, <3>2 DEF VictimsStayDead
  <2>6. CASE ~CleanerKills /\ ~CleanerLists /\ ~ForkShell
    <3>1. UNCHANGED victims
      BY <1>3, <2>6 DEF DriverActs, DriverStep, Setup, MakeDirectory, Arm, InitialPrompt,
           InitialOutput, Wait, ShellWait, SignalJob, SignalShell, KillShell, NextPrompt, NextSync,
           NextOutput, FlushOutput, Flushed, Writes, mainVars, PassOn, SendPid, Sent,
           Proceed, Exit, TimesOut, PrintChildStatus, SignalEof, AlarmExpires, ShellHasEnded,
           Unmask, ExitNormally, CleanFork, CleanerRemoves, CleanReturns, HandleSignal,
           UserSignals, driverVars
    <3>2. cleaner' \in {"remove", "done"} => cleaner \in {"remove", "done"}
      BY <1>3, <2>6 DEF DriverActs, DriverStep, Setup, MakeDirectory, Arm, InitialPrompt,
           InitialOutput, Wait, ShellWait, SignalJob, SignalShell, KillShell, NextPrompt, NextSync,
           NextOutput, FlushOutput, Flushed, Writes, mainVars, PassOn, SendPid, Sent,
           Proceed, Exit, TimesOut, PrintChildStatus, SignalEof, AlarmExpires, ShellHasEnded,
           Unmask, ExitNormally, CleanFork, CleanerRemoves, CleanReturns, HandleSignal,
           UserSignals, driverVars
    <3>3. ShellOnlyEnds /\ proc' = proc
      BY <2>1, <2>6
    <3>4. /\ shell.status = "none" => shell'.status = "none"
          /\ shell.status \notin {"none", "starting"} => shell'.status \notin {"none", "starting"}
          /\ shell.status \notin {"none", "starting", "running"} => shell'.status # "running"
      BY <3>3 DEF ShellOnlyEnds
    <3>5. QED
      BY <2>1, <2>2, <3>1, <3>2, <3>3, <3>4, VictimsKept
  <2>7. QED
    BY <2>3, <2>4, <2>5, <2>6
<1>4. QED
  BY <1>1, <1>2, <1>3 DEF DriverActs, RunTraceNext

-----------------------------------------------------------------------------
(* The meeting of the shell and the driver.                                *)

(* Of the commands before n, a wait for the shell is still to be answered. *)
Unanswered(n) ==
    \E j \in 1 .. (n - 1) :
        /\ trace[j][1] = "SHELLWAIT"
        /\ \A k \in (j + 1) .. (n - 1) : trace[k][1] # "SHELLSIGNAL"

Held == IF Unanswered(line) THEN 1 ELSE 0

Answers ==
    /\ IsSeq(trace)
    /\ \A i \in DOMAIN trace : trace[i][1] = "SHELLSIGNAL" => Unanswered(i)

(* The shell waits exactly while one of the two has the datagram, or it is *)
(* on its way.                                                             *)
OneToken == shellsyncs + shellsignals + Held = Waiting(shell.todo)

SyncInv ==
    /\ SyncTypeOK
    /\ line \in Nat \ {0}
    /\ Answers
    /\ OneToken

RunTraceInv == CleanUpInv /\ SyncInv

LEMMA HeldKept ==
    ASSUME line \in Nat \ {0}, UNCHANGED trace, line' = line + 1
    PROVE  /\ trace[line][1] = "SHELLWAIT" => Held' = 1
           /\ trace[line][1] = "SHELLSIGNAL" => Held' = 0
           /\ trace[line][1] \notin {"SHELLWAIT", "SHELLSIGNAL"} => Held' = Held
<1>1. line' - 1 = line /\ line \in 1 .. line
  BY SMT
<1>2. Unanswered(line)' <=>
        \E j \in 1 .. line : /\ trace[j][1] = "SHELLWAIT"
                             /\ \A k \in (j + 1) .. line : trace[k][1] # "SHELLSIGNAL"
  BY <1>1 DEF Unanswered
<1>3. /\ 1 .. line = 1 .. (line - 1) \cup {line}
      /\ \A j \in 1 .. (line - 1) : (j + 1) .. line = (j + 1) .. (line - 1) \cup {line}
      /\ (line + 1) .. line = {}
  OBVIOUS
<1>4. trace[line][1] = "SHELLWAIT" => Unanswered(line)'
  BY <1>1, <1>2, <1>3
<1>5. trace[line][1] = "SHELLSIGNAL" => ~Unanswered(line)'
  BY <1>2, <1>3
<1>6. ASSUME trace[line][1] \notin {"SHELLWAIT", "SHELLSIGNAL"}
      PROVE  Unanswered(line)' <=> Unanswered(line)
  <2>1. ASSUME NEW j \in 1 .. line, trace[j][1] = "SHELLWAIT",
               \A k \in (j + 1) .. line : trace[k][1] # "SHELLSIGNAL"
        PROVE  Unanswered(line)
    <3>1. j \in 1 .. (line - 1)
      BY <1>3, <1>6, <2>1
    <3>2. \A k \in (j + 1) .. (line - 1) : trace[k][1] # "SHELLSIGNAL"
      BY <1>3, <2>1, <3>1
    <3>3. QED
      BY <2>1, <3>1, <3>2 DEF Unanswered
  <2>2. ASSUME NEW j \in 1 .. (line - 1), trace[j][1] = "SHELLWAIT",
               \A k \in (j + 1) .. (line - 1) : trace[k][1] # "SHELLSIGNAL"
        PROVE  Unanswered(line)'
    <3>1. j \in 1 .. line
      BY <1>3
    <3>2. \A k \in (j + 1) .. line : trace[k][1] # "SHELLSIGNAL"
      BY <1>3, <1>6, <2>2
    <3>3. QED
      BY <1>2, <2>2, <3>1, <3>2
  <2>3. QED
    BY <1>2, <2>1, <2>2 DEF Unanswered
<1>7. QED
  BY <1>4, <1>5, <1>6 DEF Held

LEMMA SyncInit == RunTraceInit => SyncInv
<1> SUFFICES ASSUME RunTraceInit PROVE SyncInv
  OBVIOUS
<1>1. /\ line = 1 /\ shell.todo = <<>> /\ shellsyncs = 0 /\ shellsignals = 0
  BY DEF RunTraceInit, SessionInit
<1>2. Paired(shell.todo) /\ Waiting(shell.todo) = 0
  BY <1>1, NoCall DEF Calls
<1>3. Held = 0
  <2>1. 1 .. (line - 1) = {}
    BY <1>1
  <2>2. QED
    BY <2>1 DEF Held, Unanswered
<1>4. Answers
  <2> DEFINE Posed(c) ==
          /\ c \in Seq({c[i] : i \in DOMAIN c})
          /\ \A i \in DOMAIN c : c[i][1] = "SHELLSIGNAL" =>
                 \E j \in 1..(i - 1) :
                     /\ c[j][1] = "SHELLWAIT"
                     /\ \A k \in (j + 1)..(i - 1) : c[k][1] # "SHELLSIGNAL"
  <2>1. \A t \in GoodTraces \cup OtherTraces : Posed(t.commands)
    BY TracesAssumption, Zenon
  <2>2. PICK t \in GoodTraces \cup OtherTraces : trace = t.commands
    BY DEF RunTraceInit
  <2>3. Posed(t.commands)
    BY <2>1
  <2> HIDE DEF Posed
  <2>4. Posed(trace)
    BY <2>2, <2>3, Zenon
  <2> USE DEF Posed
  <2>5. QED
    BY <2>4 DEF Answers, IsSeq, Unanswered
<1>5. QED
  BY <1>1, <1>2, <1>3, <1>4 DEF SyncInv, SyncTypeOK, OneToken

LEMMA SameTrace ==
    ASSUME RunTraceNext \/ UNCHANGED runVars
    PROVE  UNCHANGED trace
<1>1. ASSUME DriverStep \/ Writes PROVE UNCHANGED trace
  BY <1>1 DEF DriverStep, Setup, MakeDirectory, ForkShell, Arm, InitialPrompt, InitialOutput,
       Wait, ShellWait, SignalJob, SignalShell, KillShell, NextPrompt, NextSync, NextOutput,
       FlushOutput, Flushed, Writes, mainVars, PassOn, SendPid, Sent,
       Proceed, Exit, TimesOut, PrintChildStatus, SignalEof, AlarmExpires, ShellHasEnded,
       Unmask, ExitNormally, CleanFork, CleanerLists, CleanerKills, CleanerRemoves,
       CleanReturns, HandleSignal, driverVars
<1>2. QED
  BY <1>1 DEF RunTraceNext, UserSignals, driverVars, mainVars, runVars

(* What the driver does to the datagrams.                                  *)
LEMMA DriverKeepsToken ==
    ASSUME SyncInv,
           DriverActs,
           UNCHANGED trace, shell'.todo = shell.todo
    PROVE  SyncInv'
<1> DEFINE w == Waiting(shell.todo)
<1>1. /\ shellsyncs \in Nat /\ shellsignals \in Nat /\ line \in Nat \ {0}
      /\ shellsyncs + shellsignals + Held = w
  BY DEF SyncInv, SyncTypeOK, OneToken
<1>2. w \in {0, 1} /\ Held \in {0, 1}
  BY DEF Waiting, Held
<1>3. Paired(shell'.todo) /\ Waiting(shell'.todo) = w
  BY DEF SyncInv, SyncTypeOK
<1> HIDE DEF w
<1>4. Answers'
  <2>1. DOMAIN trace' = DOMAIN trace /\ \A i : Unanswered(i)' <=> Unanswered(i)
    BY DEF Unanswered
  <2>2. QED
    BY <2>1 DEF SyncInv, Answers
<1>5. ASSUME shellsyncs' \in Nat, shellsignals' \in Nat, line' \in Nat \ {0},
             shellsyncs' + shellsignals' + Held' = w
      PROVE  SyncInv'
  BY <1>3, <1>4, <1>5 DEF SyncInv, SyncTypeOK, OneToken
<1>6. UNCHANGED line => Held' = Held
  BY DEF Held, Unanswered
<1>7. ASSUME UNCHANGED <<line, shellsyncfd>> PROVE SyncInv'
  BY <1>1, <1>5, <1>6, <1>7 DEF shellsyncfd
<1>8. ASSUME UNCHANGED shellsyncfd, Proceed,
             trace[line][1] \notin {"SHELLWAIT", "SHELLSIGNAL"}
      PROVE  SyncInv'
  <2>1. line' = line + 1 /\ line' \in Nat \ {0}
    BY <1>1, <1>8 DEF Proceed
  <2>2. Held' = Held
    BY <1>1, <1>8, <2>1, HeldKept
  <2>3. QED
    BY <1>1, <1>5, <1>8, <2>1, <2>2 DEF shellsyncfd
<1>9. CASE ShellWait
  <2>1. /\ trace[line][1] = "SHELLWAIT" /\ shellsyncs > 0
        /\ shellsyncs' = shellsyncs - 1 /\ shellsignals' = shellsignals
        /\ line' = line + 1 /\ line' \in Nat \ {0}
    BY <1>1, <1>9 DEF ShellWait, AtCommand, TraceCommand, Proceed
  <2>2. Held' = 1
    BY <1>1, <2>1, HeldKept
  <2>3. shellsyncs' \in Nat /\ shellsignals' \in Nat /\ shellsyncs' + shellsignals' + Held' = w
    BY <1>1, <1>2, <2>1, <2>2
  <2>4. QED
    BY <1>5, <2>1, <2>3
<1>10. CASE SignalShell
  <2>1. /\ trace[line][1] = "SHELLSIGNAL" /\ line \in DOMAIN trace
        /\ shellsignals' = shellsignals + 1 /\ shellsyncs' = shellsyncs
        /\ line' = line + 1 /\ line' \in Nat \ {0}
    <3>1. DOMAIN trace = 1 .. Len(trace)
      BY SeqDomain DEF SyncInv, Answers
    <3>2. QED
      BY <1>1, <1>10, <3>1 DEF SignalShell, AtCommand, TraceCommand, Play, Proceed
  <2>2. Held = 1
    BY <2>1 DEF SyncInv, Answers, Held
  <2>3. Held' = 0
    BY <1>1, <2>1, HeldKept
  <2>4. shellsyncs' \in Nat /\ shellsignals' \in Nat /\ shellsyncs' + shellsignals' + Held' = w
    BY <1>1, <2>1, <2>2, <2>3
  <2>5. QED
    BY <1>5, <2>1, <2>4
<1>11. CASE NextSync
  <2>1. /\ shellsyncs > 0 /\ shellsyncs' = shellsyncs - 1 /\ shellsignals' = shellsignals + 1
        /\ UNCHANGED line
    BY <1>11 DEF NextSync, driverVars, mainVars
  <2>2. shellsyncs' \in Nat /\ shellsignals' \in Nat /\ shellsyncs' + shellsignals' + Held' = w
    BY <1>1, <1>2, <1>6, <2>1
  <2>3. QED
    BY <1>1, <1>5, <2>1, <2>2
<1>12. CASE \/ Wait \/ SignalJob \/ NextPrompt
            \/ \E sig \in {"INT", "TSTP"} : KillShell(sig)
  <2>1. /\ UNCHANGED shellsyncfd /\ Proceed
        /\ trace[line][1] \in {"WAIT", "SIGNAL", "NEXT", "SIGINT", "SIGTSTP"}
    BY <1>12 DEF Wait, SignalJob, NextPrompt, KillShell, AtCommand, TraceCommand
  <2>2. QED
    BY <1>8, <2>1
<1>13. CASE PassOn \/ SendPid
  <2>1. /\ UNCHANGED shellsyncfd
        /\ Proceed \/ UNCHANGED line
        /\ trace[line][1] \in {"LINE", "PID"}
    BY <1>13 DEF PassOn, SendPid, Sent, AtCommand, TraceCommand, Exit
  <2>2. QED
    BY <1>7, <1>8, <2>1 DEF shellsyncfd
<1>14. CASE \/ Setup \/ MakeDirectory \/ ForkShell \/ Arm \/ InitialPrompt
            \/ InitialOutput \/ NextOutput \/ FlushOutput \/ Flushed \/ Writes
            \/ TimesOut \/ PrintChildStatus \/ SignalEof \/ AlarmExpires \/ ShellHasEnded
            \/ Unmask \/ ExitNormally
            \/ CleanFork \/ CleanerLists \/ CleanerKills \/ CleanerRemoves \/ CleanReturns
            \/ HandleSignal \/ \E fromKeyboard \in BOOLEAN : UserSignals(fromKeyboard)
  <2>1. UNCHANGED <<line, shellsyncfd>>
    BY <1>14 DEF Setup, MakeDirectory, ForkShell, Arm, InitialPrompt, InitialOutput,
         NextOutput, FlushOutput, Flushed, Writes, mainVars, TimesOut,
         PrintChildStatus, SignalEof, AlarmExpires, ShellHasEnded, Unmask, ExitNormally, Exit,
         CleanFork, CleanerLists, CleanerKills, CleanerRemoves, CleanReturns, HandleSignal,
         UserSignals, sessionVars, shellsyncfd
  <2>2. QED
    BY <1>7, <2>1
<1>15. QED
  BY <1>9, <1>10, <1>11, <1>12, <1>13, <1>14 DEF DriverActs, DriverStep

LEMMA RunTraceInductive ==
    ASSUME RunTraceInv, RunTraceNext \/ UNCHANGED runVars
    PROVE  RunTraceInv'
<1>1. SessionOK /\ DriverStages /\ CleanerProgress /\ VictimsStayDead /\ SyncTypeOK
  BY DEF RunTraceInv, CleanUpInv, SyncInv
<1>2. VictimsStayDead' /\ UNCHANGED trace
  BY <1>1, VictimsInductive, SameTrace
<1>3. CASE DriverActs
  <2>1. DriverStages' /\ CleanerProgress'
    BY <1>1, <1>3, StagesKept
  <2>2. /\ Grows(proc, proc')
        /\ DOMAIN shell' = DOMAIN shell /\ shell'.todo = shell.todo
    BY <1>1, <1>3, DriverLeavesShell
  <2>3. SessionOK'
    BY <1>1, <2>2 DEF Grows, SessionOK
  <2>4. SyncInv'
    BY <1>2, <1>3, <2>2, DriverKeepsToken DEF RunTraceInv
  <2>5. QED
    BY <1>2, <2>1, <2>3, <2>4 DEF RunTraceInv, CleanUpInv
<1>4. CASE UNCHANGED runVars
  <2>1. UNCHANGED <<proc, shell, driverVars, shellsyncs, shellsignals>>
    BY <1>4 DEF runVars, sessionVars
  <2>2. DriverStages' /\ CleanerProgress'
    BY <1>1, <2>1, StagesKept
  <2>3. SessionOK' /\ SyncInv'
    BY <2>1 DEF RunTraceInv, CleanUpInv, SessionOK, SyncInv, SyncTypeOK, Answers, OneToken,
         Held, Unanswered, driverVars, mainVars
  <2>4. QED
    BY <1>2, <2>2, <2>3 DEF RunTraceInv, CleanUpInv
<1>5. CASE /\ SessionStep \/ ShellCrashes \/ \E p \in DOMAIN proc : JobAlarm(p)
           /\ UNCHANGED driverVars
  <2>1. Grows(proc, proc') /\ ShellGoesOn
    BY <1>1, <1>5, SessionKeeps
  <2>2. DriverStages' /\ CleanerProgress'
    BY <1>1, <1>5, StagesKept
  <2>3. SessionOK' /\ SyncTypeOK'
    BY <1>1, <2>1 DEF Grows, ShellGoesOn, SessionOK, SyncTypeOK, ShellFields
  <2>4. UNCHANGED <<line, trace>>
    BY <1>5 DEF driverVars, mainVars
  <2>5. Answers' /\ (line \in Nat \ {0})' /\ Held' = Held
    BY <2>4 DEF RunTraceInv, SyncInv, Answers, Held, Unanswered
  <2>6. OneToken'
    <3>1. /\ Waiting(shell.todo) \in Nat /\ Waiting(shell'.todo) \in Nat /\ Held \in Nat
      BY DEF Waiting, Held
    <3>2. /\ shellsyncs \in Nat /\ shellsignals \in Nat
          /\ shellsyncs' \in Nat /\ shellsignals' \in Nat
          /\ shellsyncs' + shellsignals' - Waiting(shell'.todo)
               = shellsyncs + shellsignals - Waiting(shell.todo)
      BY <1>1, <2>1 DEF SyncTypeOK, ShellGoesOn
    <3>3. shellsyncs + shellsignals + Held = Waiting(shell.todo)
      BY DEF RunTraceInv, SyncInv, OneToken
    <3>4. shellsyncs' + shellsignals' + Held' = Waiting(shell'.todo)
      BY <2>5, <3>1, <3>2, <3>3
    <3>5. QED
      BY <3>4 DEF OneToken
  <2>7. QED
    BY <1>2, <2>2, <2>3, <2>5, <2>6 DEF RunTraceInv, CleanUpInv, SyncInv
<1>6. QED
  BY <1>3, <1>4, <1>5 DEF DriverActs, RunTraceNext

(* The driver and the session keep the invariant, for all traces.          *)
THEOREM RunTraceIsInv == RunTraceSpec => []RunTraceInv
<1>1. RunTraceInit => RunTraceInv
  BY CleanUpInit, SyncInit DEF RunTraceInv
<1>2. RunTraceInv /\ [RunTraceNext]_runVars => RunTraceInv'
  BY RunTraceInductive
<1>3. QED
  BY <1>1, <1>2, PTL DEF RunTraceSpec

(* When the driver has ended, its directory is gone and what its clean-up  *)
(* listed is dead, unless a call that the clean-up needs failed or the     *)
(* clean-up was killed.  Without a clean-up, there is nothing to be left;  *)
(* after one, what is left of the session joined it after the listing      *)
(* (main from runtrace.c:378 on, clean, the handlers).                     *)
THEOREM StraysCameLateAlways == RunTraceSpec => []StraysCameLate
<1>1. RunTraceInv => StraysCameLate
  <2> SUFFICES ASSUME RunTraceInv, pc = "ended", ~spoiled
               PROVE  /\ tmp # "ours"
                      /\ InSession \cap victims = {}
                      /\ InSession # {} => cleaner = "done"
    BY DEF StraysCameLate
  <2>1. cleaner \in {"none", "done"}
    BY DEF RunTraceInv, CleanUpInv, DriverStages, CleanerProgress, Cleaner
  <2>2. tmp # "ours"
    BY <2>1 DEF RunTraceInv, CleanUpInv, CleanerProgress
  <2>3. CASE cleaner = "none"
    <3>1. victims = {} /\ proc = <<>> /\ shell.status = "none"
      BY <2>3 DEF RunTraceInv, CleanUpInv, CleanerProgress, VictimsStayDead, Early
    <3>2. DOMAIN proc = {}
      BY <3>1
    <3>3. QED
      BY <2>2, <3>1, <3>2 DEF InSession, Live
  <2>4. CASE cleaner = "done"
    <3>1. /\ \A p \in victims \ {Shell} : Dead(proc[p])
          /\ Shell \in victims => shell.status # "running"
      BY <2>4 DEF RunTraceInv, CleanUpInv, VictimsStayDead
    <3>2. Shell \notin DOMAIN proc
      BY SeqDomain DEF RunTraceInv, CleanUpInv, SessionOK, Shell
    <3>3. QED
      BY <2>2, <2>4, <3>1, <3>2 DEF InSession, Live, Dead
  <2>5. QED
    BY <2>1, <2>3, <2>4
<1>2. QED
  BY <1>1, RunTraceIsInv, PTL

(* A shell that has stopped at a wrapper and the driver meet: the datagram *)
(* between them is never doubled, and while there is one the shell waits.  *)
THEOREM SyncIsRendezvousAlways == RunTraceSpec => []SyncIsRendezvous
<1>1. RunTraceInv => SyncIsRendezvous
  <2> SUFFICES ASSUME RunTraceInv PROVE SyncIsRendezvous
    OBVIOUS
  <2>1. /\ shellsyncs \in Nat /\ shellsignals \in Nat /\ Held \in Nat
        /\ shellsyncs + shellsignals + Held = Waiting(shell.todo)
    BY DEF RunTraceInv, SyncInv, SyncTypeOK, OneToken, Held
  <2>2. Waiting(shell.todo) \in {0, 1}
    BY DEF Waiting
  <2>3. shellsyncs + shellsignals <= 1
    BY <2>1, <2>2
  <2>4. ASSUME shellsyncs + shellsignals = 1
        PROVE  shell.todo # <<>> /\ Head(shell.todo)[1] = "shellsync_wait"
    <3>1. Waiting(shell.todo) = 1
      BY <2>1, <2>2, <2>4
    <3>2. shell.todo # <<>> /\ shell.todo[1][1] = "shellsync_wait"
      BY <3>1 DEF Waiting
    <3>3. Head(shell.todo) = shell.todo[1]
      <4>1. IsSeq(shell.todo) /\ Paired(shell.todo)
        BY DEF RunTraceInv, CleanUpInv, SessionOK, SyncInv, SyncTypeOK
      <4>2. QED
        BY <3>2, <4>1, CallsTail
    <3>4. QED
      BY <3>2, <3>3
  <2>5. QED
    BY <2>3, <2>4 DEF SyncIsRendezvous
<1>2. QED
  BY <1>1, RunTraceIsInv, PTL
=============================================================================
