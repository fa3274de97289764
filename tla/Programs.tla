------------------------------ MODULE Programs ------------------------------
(***************************************************************************)
(* The programs of the repository that run on their own: the cache         *)
(* simulator, the shell's command-line parser, the bit puzzles under       *)
(* btest, two processes that use robust I/O and the tester of the queue.   *)
(* A behaviour is one of them; the variables of the others stay as they    *)
(* are.                                                                    *)
(***************************************************************************)
EXTENDS CSim, ParseLine, PuzzleTests, Rio, QueueTest

CONSTANT a  \* the one character that is no delimiter, operator or quote

VARIABLE program    \* the program that runs

programVars == <<program, csimVars, parseVars, btestVars, rioVars, testVars>>

BuiltinWords == {<<a>>}
FewWords == {Zero, One, {0, 2, SignBit}, Bits}

Runs(p) ==
    /\ program = p
    /\ UNCHANGED program
    /\ IF p = "csim" THEN TRUE ELSE UNCHANGED csimVars
    /\ IF p = "parseline" THEN TRUE ELSE UNCHANGED parseVars
    /\ IF p = "btest" THEN TRUE ELSE UNCHANGED btestVars
    /\ IF p = "rio" THEN TRUE ELSE UNCHANGED rioVars
    /\ IF p = "queue" THEN TRUE ELSE UNCHANGED testVars

Init ==
    /\ program \in {"csim", "parseline", "btest", "rio", "queue"}
    /\ CSimInit
    /\ BtestInit
    /\ RioInit
    /\ newlines # {} => program = "rio"
    /\ TestInit
    /\ \E length \in IF program = "parseline" THEN 0 .. MaxLine ELSE {0} :
          \E line \in CommandLine(length) : StartParse(line)

Next ==
    \/ program = "csim" /\ CSimNext /\ Runs("csim")
    \/ program = "parseline" /\ ParseNext /\ Runs("parseline")
    \/ program = "btest" /\ BtestNext /\ Runs("btest")
    \/ program = "rio" /\ RioNext /\ Runs("rio")
    \/ program = "queue" /\ TestNext /\ Runs("queue")

Spec == Init /\ [][Next]_programVars

=============================================================================
