----------------------------- MODULE MCConsole ------------------------------
(* Small files for Console: nested and circular sources, timed failures,   *)
(* options that stop half way, a last line without a newline.              *)
EXTENDS Console

MCContent ==
    [empty |-> <<>>,
     main |-> <<"op", NL, "source", SP, "sub", NL, "net", NL, "#", NL, "op">>,
     sub  |-> <<"option", "echo", "1", "none", "0", NL,
                SP, NL, "time", "bad", NL, "log", "x">>,
     long |-> <<"option", "error", "0", "verbose", "1", "error", NL, "time", NL, "op">>,
     loop |-> <<"op", NL, "source", "loop", NL, "op", "op", NL, "help">>,
     logs |-> <<"log", NL, "log", "x", NL, "log", SP, "x", NL, "source", "sub", NL, "op">>,
     last |-> <<"source", "main", NL, "time", "quit", NL, "op", NL>>]

MCFile == DOMAIN MCContent

MCValue == [w \in {"0", "1"} |-> IF w = "0" THEN 0 ELSE 1]

=============================================================================
