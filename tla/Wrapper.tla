------------------------------- MODULE Wrapper -------------------------------
(***************************************************************************)
(* The link-time wrappers of shelllab/wrapper.c that let a trace stop the  *)
(* shell at one of its calls: before the call the shell sends a datagram   *)
(* and waits for the driver's.  A wrapped call is the sequence of steps it *)
(* comes to.  The wrappers of fork, sigsuspend and the printf family only  *)
(* delay their caller.                                                     *)
(***************************************************************************)
EXTENDS Sequences

VARIABLE shellsync      \* the wrapper that SHELLSYNC enables, or "none"

(* A bug: the shell goes on without the driver's answer.                   *)
Sync_NoWait == <<<<"shellsync_signal">>>>

Sync == <<<<"shellsync_signal">>, <<"shellsync_wait">>>>

SyncAt(point) == IF shellsync = point THEN Sync ELSE <<>>

wrap_job_get_pid == SyncAt("job_get_pid")

wrap_job_set_state(p, state) ==
    SyncAt("job_set_state") \o <<<<"job_set_state", p, state>>>>

wrap_kill(group, sig) ==
    SyncAt("kill") \o <<<<"kill", group, sig>>>>

wrap_waitpid == SyncAt("waitpid_before") \o <<<<"waitpid">>>>

wrap_waitpid_after == SyncAt("waitpid_after")
=============================================================================
