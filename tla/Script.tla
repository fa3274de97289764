------------------------------- MODULE Script -------------------------------
(***************************************************************************)
(* What the console promises (console.h): the commands of a file are       *)
(* executed in order, those of a sourced file in the place of the command  *)
(* that sources it.                                                        *)
(***************************************************************************)
EXTENDS Sequences

CONSTANTS
    File,       \* names of files
    Text(_),    \* the lines of a file
    Sources(_)  \* the files that a line asks to source

VARIABLES
    todo,       \* lines to come
    ran         \* lines executed

vars == <<todo, ran>>

Init == \E f \in File : todo = Text(f) /\ ran = <<>>

Run ==
    /\ todo # <<>>
    /\ ran' = Append(ran, Head(todo))
    /\ \/ todo' = Tail(todo)
       \/ \E f \in Sources(Head(todo)) : todo' = Text(f) \o Tail(todo)
       \/ todo' = <<>>

(* The program may end on its own.                                         *)
Stop == todo' = <<>> /\ UNCHANGED ran

Spec == Init /\ [][Run \/ Stop]_vars

=============================================================================
