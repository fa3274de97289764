---------------------------- MODULE TestPrograms ----------------------------
(***************************************************************************)
(* The programs that the shell lab's traces run as jobs,                   *)
(* shelllab/testprogs, as they run under the driver: the descriptor named  *)
(* by SYNCFD is open.  A program is the sequence of the steps that another *)
(* process can notice; a signal handler is a sequence of steps that are    *)
(* taken before the rest of the program.                                   *)
(*                                                                         *)
(*   send, recv      a datagram to and from the driver                     *)
(*   exit, die       ends, of its own accord or by a signal                *)
(*   stop            stops, until it is continued                          *)
(*   spin            loops for ever                                        *)
(*   fork, wait      starts a child;  waits for it to end                  *)
(*   tstp_parent, int_parent, tstp_child, term_child, term_spins  signals  *)
(***************************************************************************)
EXTENDS Sequences

Synchronise == <<"send", "recv">>

sigalrm_handler == <<"exit">>

myspin1 == Synchronise \o <<"exit">>
myspin1_sigterm == <<"recv", "send", "die">>

(* ... with SIGINT and SIGTSTP blocked.                                    *)
myspin2 == Synchronise \o <<"exit">>

mysplit == <<"fork", "wait", "exit">>
mysplit_child == Synchronise \o <<"exit">>

mysplitp == <<"fork", "tstp_child", "stop", "term_child", "exit">>
mysplitp_child == <<"spin">>

mysigfun == Synchronise \o <<"exit">>
mysigfun_sigint == <<"stop">>
mysigfun_sigtstp == <<"die">>

mytstpandspin == <<"tstp_parent">> \o Synchronise \o <<"exit">>

myspinandtstps == Synchronise \o <<"stop", "spin">>
myspinandtstps_sigalrm == <<"stop", "spin">>

myintp == <<"int_parent", "spin">>
myints == <<"die", "spin">>
mytstpp == <<"tstp_parent", "spin">>
mytstps == <<"stop", "exit">>
mysleepnprint == <<"tstp_parent", "exit">>

(* /bin/echo, and pkill -s 0 myspin1.                                      *)
echo == <<"exit">>
pkill == <<"term_spins", "exit">>

ProgramText ==
    [myspin1 |-> myspin1, myspin2 |-> myspin2, mysplit |-> mysplit,
     mysplit_child |-> mysplit_child, mysplitp |-> mysplitp,
     mysplitp_child |-> mysplitp_child, mysigfun |-> mysigfun,
     mytstpandspin |-> mytstpandspin, myspinandtstps |-> myspinandtstps,
     myintp |-> myintp, myints |-> myints, mytstpp |-> mytstpp,
     mytstps |-> mytstps, mysleepnprint |-> mysleepnprint,
     echo |-> echo, pkill |-> pkill]

Program == DOMAIN ProgramText

ChildProgram(program) ==
    IF program = "mysplit" THEN "mysplit_child" ELSE "mysplitp_child"

(* Every program that might otherwise stay for ever sets an alarm, save    *)
(* these.                                                                  *)
HasAlarm(program) ==
    program \notin {"mytstps", "mysplitp", "mysplitp_child", "echo", "pkill"}

Blocked(program) == IF program = "myspin2" THEN {"INT", "TSTP"} ELSE {}

(* The handlers that programs install, for the signals they are sent.      *)
Caught(program) ==
    CASE program = "myspin1" -> {"TERM", "ALRM"}
      [] program = "mysigfun" -> {"INT", "TSTP", "ALRM"}
      [] OTHER -> {"ALRM"}

Handler(program, sig) ==
    CASE program = "myspin1" /\ sig = "TERM" -> myspin1_sigterm
      [] program = "mysigfun" /\ sig = "INT" -> mysigfun_sigint
      [] program = "mysigfun" /\ sig = "TSTP" -> mysigfun_sigtstp
      [] program = "myspinandtstps" -> myspinandtstps_sigalrm
      [] OTHER -> sigalrm_handler
=============================================================================
