------------------------------ MODULE MCShell ------------------------------
(* The shell on a small instance: symmetric process IDs.                   *)
EXTENDS ShellRefinement, TLC

Symmetry == Permutations(Pid)

=============================================================================
