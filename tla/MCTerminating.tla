--------------------------- MODULE MCTerminating ----------------------------
(***************************************************************************)
(* Three parts that have to come to an end, in one run: the cache's loop   *)
(* that makes room, the driver of the shell on the traces of MCRunTrace,   *)
(* and the console on the files of MCConsole.  A behaviour is one of them; *)
(* the variables of the others stay as they are.                           *)
(***************************************************************************)
EXTENDS WebCacheUse, MCRunTrace, MCConsole

VARIABLE program    \* the program that runs

allVars == <<program, useVars, runVars, consoleVars>>

Runs(p) ==
    /\ program = p
    /\ UNCHANGED program
    /\ IF p = "cache" THEN TRUE ELSE UNCHANGED useVars
    /\ IF p = "driver" THEN TRUE ELSE UNCHANGED runVars
    /\ IF p = "console" THEN TRUE ELSE UNCHANGED consoleVars

(* Of a program that does not run, one initial state is enough.            *)
Init ==
    /\ program \in {"cache", "driver", "console"}
    /\ UseInit
    /\ RunTraceInit
    /\ ConsoleInit
    /\ program # "driver" => good /\ trace = trace03.commands
    /\ program # "console" => buf_stack = <<Reader("empty", 0)>>

Next ==
    \/ program = "cache" /\ UseNext /\ Runs("cache")
    \/ program = "driver" /\ RunTraceNext /\ Runs("driver")
    \/ program = "console" /\ ConsoleNext /\ Runs("console")

(* The fairness of UseSpec, RunTraceSpec and ConsoleSpec, each where its   *)
(* program runs.                                                           *)
Fairness ==
    /\ WF_useVars(program = "cache" /\ Evict)
    /\ WF_useVars(program = "cache" /\ Insert)
    /\ WF_runVars(program = "driver" /\ DriverStep)
    /\ WF_runVars(program = "driver" /\ good /\ SessionStep /\ UNCHANGED driverVars)
    /\ WF_consoleVars(program = "console" /\ ConsoleNext)

Spec == Init /\ [][Next]_allVars /\ Fairness

-----------------------------------------------------------------------------
(* RuntraceEnds of the driver (runtrace.c).                                *)
DriverRunEnds == program = "driver" => RuntraceEnds

(* ConsoleFinishes of the console (console.c).                             *)
ConsoleRunFinishes == program = "console" => ConsoleFinishes

=============================================================================
