----------------------------- MODULE MCRunTrace -----------------------------
(***************************************************************************)
(* The traces of shelllab/traces that play the test programs, without the  *)
(* commands that only print: /bin/echo stands for itself where it shows    *)
(* something.                                                              *)
(***************************************************************************)
EXTENDS RunTrace

Fg(program) == <<<<"LINE", "FG", program>>>>
Bg(program) == <<<<"LINE", "BG", program>>>>
fg(j) == <<<<"LINE", "%FG", j>>>>
bg(j) == <<<<"LINE", "%BG", j>>>>
quit == <<<<"LINE", "quit">>>>
NEXT == <<<<"NEXT">>>>
WAIT == <<<<"WAIT">>>>
SIGNAL == <<<<"SIGNAL">>>>
SHELLWAIT == <<<<"SHELLWAIT">>>>
SHELLSIGNAL == <<<<"SHELLSIGNAL">>>>
SIGINT == <<<<"SIGINT">>>>
SIGTSTP == <<<<"SIGTSTP">>>>
PID(program, builtin) == <<<<"PID", program, builtin>>>>

Trace(sync, commands) == [shellsync |-> sync, commands |-> commands]
Plain(commands) == Trace("none", commands)

trace03 == Plain(Fg("myspin1") \o WAIT \o SIGNAL \o quit)
trace06 == Plain(Bg("myspin1") \o NEXT \o Fg("myspin2") \o WAIT \o WAIT
                 \o SIGNAL \o SIGNAL \o NEXT \o quit)
trace08 == Trace("waitpid_before",
                 Bg("myspin1") \o NEXT \o Bg("myspin1") \o NEXT \o WAIT \o WAIT
                 \o SIGNAL \o SIGNAL \o SHELLWAIT \o SHELLSIGNAL
                 \o Fg("echo") \o NEXT \o quit)
trace08_one_job ==
           Trace("waitpid_before",
                 Bg("myspin1") \o NEXT \o WAIT \o SIGNAL \o SHELLWAIT \o SHELLSIGNAL
                 \o Fg("echo") \o NEXT \o quit)
trace09 == Plain(Fg("myintp") \o NEXT \o quit)
trace10 == Plain(Fg("mytstpp") \o NEXT \o quit)
trace11 == Plain(Bg("myspin1") \o NEXT \o WAIT \o Fg("pkill") \o NEXT
                 \o SIGNAL \o SIGNAL \o WAIT \o quit)
trace13 == Plain(Fg("mytstps") \o NEXT \o Bg("myspinandtstps") \o NEXT
                 \o WAIT \o SIGNAL \o quit)
trace14 == Plain(Bg("myints") \o NEXT \o Fg("echo") \o NEXT \o quit)
trace15 == Plain(SIGINT \o Bg("myspin1") \o NEXT \o WAIT \o Fg("myintp") \o NEXT
                 \o SIGNAL \o quit)
trace17 == Plain(Fg("mysplit") \o WAIT \o SIGINT \o NEXT \o quit)
trace19 == Trace("kill",
                 Fg("myspin2") \o WAIT \o SIGTSTP \o SHELLWAIT \o SIGNAL
                 \o SHELLSIGNAL \o NEXT \o Fg("myspin2") \o WAIT \o SIGINT
                 \o SHELLWAIT \o SIGNAL \o SHELLSIGNAL \o NEXT \o quit)
trace20 == Trace("waitpid_after",
                 Fg("myspin1") \o WAIT \o SIGNAL \o SHELLWAIT \o SIGTSTP
                 \o SHELLSIGNAL \o NEXT \o quit)
trace21 == Plain(Fg("mysigfun") \o WAIT \o SIGTSTP \o NEXT
                 \o Fg("mysigfun") \o WAIT \o SIGINT \o NEXT \o quit)
trace22 == Plain(Fg("mytstpandspin") \o NEXT \o bg(1) \o NEXT \o WAIT \o SIGNAL
                 \o quit)
trace23 == Plain(Bg("myspin1") \o NEXT \o WAIT \o Fg("mytstpp") \o NEXT
                 \o PID("mytstpp", "BG") \o NEXT \o SIGNAL \o quit)
trace24 == Plain(Fg("mysleepnprint") \o NEXT \o fg(1) \o NEXT \o quit)
trace26 == Trace("job_set_state",
                 Bg("myspin1") \o NEXT \o WAIT \o fg(1) \o SHELLWAIT \o SIGNAL
                 \o SHELLSIGNAL \o NEXT \o quit)
trace27 == Plain(Fg("mysplit") \o WAIT \o SIGTSTP \o NEXT \o fg(1) \o SIGNAL
                 \o NEXT \o quit)

(* Not among the repository's: mysplitp, and the wrapper of job_get_pid.   *)
splitp == Plain(Fg("mysplitp") \o NEXT \o fg(1) \o NEXT \o quit)
getpid == Trace("job_get_pid",
                Bg("mytstps") \o NEXT \o fg(1) \o SHELLWAIT \o SHELLSIGNAL \o NEXT
                \o quit)

MCGoodTraces ==
    {trace03, trace06, trace08_one_job, trace09, trace10, trace11, trace13, trace14, trace15,
     trace17, trace19, trace20, trace21, trace22, trace23, trace24, trace26, trace27,
     splitp, getpid}

pid == Plain(Fg("mytstpp") \o NEXT \o PID("mytstpp", "BG") \o NEXT \o quit)

MCOtherTraces == {trace03, trace08_one_job, trace13, trace26, splitp, pid}
=============================================================================
