------------------------------- MODULE Mutex --------------------------------
(***************************************************************************)
(* One pthread mutex, as the C library of the build makes it from a futex: *)
(* a word that is 0 when free, 1 when locked and 2 when locked with        *)
(* threads perhaps asleep on it.  pthread_mutex_init writes 0 whatever the *)
(* mutex was doing: a thread asleep on it is not told, and an unlock that  *)
(* finds 1 or 0 wakes nobody.                                              *)
(***************************************************************************)
EXTENDS Integers

CONSTANT Thread     \* the threads that may use the mutex

VARIABLES
    word,       \* the futex
    waiter      \* what each thread does in pthread_mutex_lock

mutexVars == <<word, waiter>>

MutexTypeOK ==
    /\ word \in 0..2
    /\ waiter \in [Thread -> {"no", "asleep", "woken"}]

MutexZero ==
    /\ word = 0
    /\ waiter = [t \in Thread |-> "no"]

pthread_mutex_init ==
    /\ word' = 0
    /\ UNCHANGED waiter

(* A thread that has slept no longer knows who else sleeps, and leaves 2.  *)
MutexAcquire(t) ==
    /\ waiter[t] # "asleep"
    /\ word = 0
    /\ word' = IF waiter[t] = "woken" THEN 2 ELSE 1
    /\ waiter' = [waiter EXCEPT ![t] = "no"]

MutexSleep(t) ==
    /\ waiter[t] # "asleep"
    /\ word # 0
    /\ word' = 2
    /\ waiter' = [waiter EXCEPT ![t] = "asleep"]

pthread_mutex_unlock ==
    /\ word' = 0
    /\ IF word = 2 /\ \E s \in Thread : waiter[s] = "asleep"
       THEN \E s \in Thread : /\ waiter[s] = "asleep"
                              /\ waiter' = [waiter EXCEPT ![s] = "woken"]
       ELSE UNCHANGED waiter

=============================================================================
