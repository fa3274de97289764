# A verification project for the 15-213 labs

The repository holds one student's solutions to the labs of a computer systems course, with the
courseware around them. This directory models the programs in it that keep state and can go wrong
in ways a test seldom reaches, checks the models with TLC and proves the main results about the
shell and its driver, the proxy, robust I/O, the queue and its console with TLAPS.

Run everything from this directory: `tlc -config MCShell.cfg MCShell.tla` (the module and the
configuration of each run are in the table of runs), `tlapm ShellProofs.tla`.

## Inventory

| Component | State | Operations | What is hard | What makes it correct |
|---|---|---|---|---|
| **Tiny shell**, `shelllab/tsh.c` | the signal mask, the handlers installed, where the main flow is | read a command, fork and run it, `bg`, `fg`, `jobs`, `quit`; handlers of SIGCHLD, SIGINT, SIGTSTP, SIGQUIT; clean-up | handlers interrupt the main flow; signals merge; children run at their own pace; forks fail | list and children agree; no lost wake-up; signals reach only the foreground |
| **Job list**, `shelllab/tsh_helper.c` | an array of 64 slots, `nextjid` | `add_job`, `delete_job`, `job_set_state`, look-ups | shared by the main flow and the handlers; its checks abort the process | slots, `nextjid` and the children agree; no check fails by the shell's own fault |
| **Command-line parser**, `tsh_helper.c` | a copy of the line, pointers into it | `parseline` | words are ended in place while the pointer moves on; quotes, redirections, at most 127 words | the strings found in the end are those of the line |
| **Shell driver**, `runtrace.c` | the shell it started, datagram sockets, timers, a directory | play a trace; clean up after it | two timers, user signals, a shell that crashes, hangs or keeps writing, calls that fail, all at any point | it ends once output does; what its clean-up lists is dead; a good trace plays through |
| **Wrapper**, `wrapper.c`, and **test programs** | none of their own | stop the shell before a call until the driver answers; signal, stop, split | a rendezvous of three processes | one datagram at a time between shell and driver |
| **Web proxy**, `proxylab/proxy.c` | one mutex, one clock, one thread per connection | accept; `doit`: parse, search, fetch, forward, insert | the mutex is initialised again by every thread; the lock is released during the fetch; errors on either socket | the lock excludes; what is cached is whole; descriptors are the thread's own; an answered connection leaves nothing behind |
| **Proxy cache**, `proxylab/cache.c` | a doubly linked list of blocks, the bytes left | search, read, add, evict the oldest, remove | pointers in three cases of removal; the loop that evicts until there is room | it is an LRU cache |
| **Robust I/O**, `csapp.c` | a buffer per descriptor | `rio_readn`, `rio_readlineb`, `rio_readnb`, `rio_writen` | short reads, interrupted calls, end of file, errors | bytes in order, none lost or repeated |
| **Cache simulator**, `cachelab/csim.c` | lines with tag, valid, dirty, time; counters | `run` for each access; the summary | LRU by time stamps, dirty bytes | it counts what a set-associative LRU cache does |
| **Queue**, `cprogramminglab-handout/queue.c` | head, tail, size, elements | insert at head and tail, remove, reverse, free | stale tail after the last removal; `malloc` fails; an alarm breaks `reverse` off | it is a sequence; nothing leaks |
| **Queue harness**, `harness.c` | allocated blocks, modes, a jump buffer, an alarm | `test_malloc`, `test_free`, time limit | the alarm races the end of the operation | the tester survives; every block accounted for |
| **Queue console and report**, `console.c`, `report.c` | a stack of open files with buffers, commands, options, errors counted | read a line, interpret it, `source`, `quit` | reads that split a line; files that source each other; failures half way | the script's order; every block and descriptor is accounted for |
| **Bit puzzles**, `datalab-handout/bits.c`, and `btest` | none | functions of one or two words | overflow, the smallest integer, rounding of floats | equal to their references |
| Transpose, `cachelab/trans.c` | two matrices | blocked transposes | index arithmetic | not modelled |
| Tiny web server; proxy test driver; `sdriver`; cache lab and allocator test programs; `mm-naive.c`; socket helpers; bomb lab and attack lab | | | | not modelled |

How they interact. Inside the shell, `main` reads a line and calls `eval`, which forks, adds the job
to the list and, for a foreground job, waits in `while (fg_job() > 0) sigsuspend(&prev)`;
`sigchld_handler` waits for children and deletes or marks their jobs; `sigint_handler` and
`sigtstp_handler` send the signal on to the foreground job's group. They share the list and keep out
of each other's way by blocking the three signals. The driver starts the shell, types a trace to it,
and meets the shell and its jobs through datagram sockets and signals; the wrapper makes the shell
stop for it. The proxy's threads share the cache, the clock, the mutex and the table of descriptors.
The queue's tester calls the queue through the harness's `malloc` and `free`. The other programs
stand alone.

## Modules

| Module | Models | Notes |
|---|---|---|
| `JobList` | `tsh_helper.c`, the job list | one operator per routine, with the routine's name; look-ups are state functions, changes are actions, the checks that abort are operators of their own |
| `Processes` | the shell's children from `fork` to reaping: the child's branch of `eval`, and the kernel's fork, kill, waitpid and signal posting as `tsh.c` uses them | extends `JobList` |
| `Shell` | `tsh.c` | extends `Processes`; `Spec`, its properties, the fairness |
| `JobControl`, `ShellRefinement` | what the shell promises its user; the mapping of `Shell` to it | one entry per process, no slots, signals, handlers or system calls |
| `MCShell` | instance for TLC | process IDs are interchangeable, hence a symmetry set |
| `ShellProofs` | the theorems about the shell | |
| `WebCacheProofs`, `WebCacheUseProofs`, `ProxyProofs` | the theorems about the cache and the proxy | |
| `ProgramsProofs` | the theorems about robust I/O and the cache simulator | |
| `QueueProofs`, `ConsoleProofs` | the theorems about the queue under its tester, and about the console | |
| `RunTraceProofs` | the theorems about the driver and its session | |
| `ParseLine` | `parseline` | the pointer walk; the meaning of a line, without pointers, beside it |
| `TestPrograms`, `Wrapper`, `Session` | the jobs of the traces, the wrapped calls, and the processes, signals and sockets of a session under the driver | the shell in it only calls what `Wrapper` wraps when `tsh.c` does |
| `RunTrace`, `MCRunTrace` | `runtrace.c`, and the traces of `shelllab/traces` | extends `Session` |
| `WebCache` | `cache.c` | extended by `WebCacheUse` and by `Proxy` |
| `LRUCache`, `WebCacheUse` | an LRU cache; `WebCache` used by one thread, implementing it | |
| `Mutex`, `Proxy` | a futex mutex that may be initialised again; `proxy.c` | `Proxy` composes `WebCache`, `Mutex` and the descriptors |
| `Rio`, `ByteStream` | robust I/O between two processes; a stream of bytes | `Rio` implements `ByteStream` |
| `CSim`, `LRUSim` | `csim.c`; a simulator of LRU sets | `CSim` implements `LRUSim` |
| `Harness`, `Queue`, `QueueTest`, `Deque` | `harness.c`, `queue.c`, a tester that uses both; a sequence | `QueueTest` implements `Deque` |
| `Report`, `Console`, `Script`, `MCConsole` | `report.c`, `console.c`; a script; small files | `Console` implements `Script` |
| `Puzzles`, `PuzzleTests` | `bits.c`; `tests.c` and the loops of `btest.c` | |
| `Programs` | `CSim`, `ParseLine`, `PuzzleTests`, `QueueTest` and `Rio`, one per behaviour | they share nothing, so one run checks the five |
| `MCTerminating` | `WebCacheUse`, `MCRunTrace` and `MCConsole`, one per behaviour | three parts with a loop that has to end, each with its fairness |

Operators named `<definition>_<What>` under a comment "A bug:" are variants of the definition after
them that no action uses; they show, substituted for it, that the properties can fail.

### The shell

* `job_list`, `nextjid`: the static variables of the same names. A slot is a PID and a state; the
  command line kept with it is only printed, and the `jid` field repeats the index.
* `proc[p]`: the child with process ID `p`: `stage` ("forked" before `setpgid`, "grouped" before
  `execve`, "running", "zombie"), whether it is stopped, whether its stop is still to be waited for,
  and the keyboard signals it has been sent. `sigpending`: the signals pending for the shell, one of
  each kind at most.
* `pc`: where the main flow is. `handler`: whether `sigchld_handler` is in its loop. `forked`: the
  child `eval` has forked and not yet added. `installed`: the handlers `cleanup` has not yet removed.
* `refused` (children `add_job` did not record) and `fatal` (the check that ended the shell) are
  history for the properties; no guard reads them.

A stretch of code that runs with SIGCHLD, SIGINT and SIGTSTP blocked is cut only at the system calls
whose results the children may change (`fork`, `waitpid`) and where it waits; in between, the job
list is the shell's alone. So `EvalFork` and `EvalAddJob` are two steps and children run between
them; `sigchld_handler` is one step per turn of its loop; the keyboard handlers, with one `kill`,
are one step. The handlers block all three signals, so they do not overlap. SIGQUIT is never
blocked: `SigquitHandler` can end the shell in any state. Evaluating a command before the signals
are blocked (parsing) is part of the state "prompt", where handlers run.

A `%` alone, or an empty quoted word, given to `bg` or `fg` makes `sscanf` return -1, which the code
does not treat as a failure to scan: `jid` or `pid` is used uninitialized. It is any job ID or any
PID in the model, the same inputs as those the user may type.

An abort, an exit and a kill end the shell's process: its memory and its children leave the model
(`Ends`). Printing, the `jobs` command and the command line are left out.

### The parser, the driver and its session

`ParseLine` keeps the copy of the line as a sequence in which words are ended by writing NULs, and
arguments and file names as positions in it; one step is a turn of `parseline`'s loop. `argv` and the
files are turned into strings only when the parse is over, as its caller does, so a NUL written too
early or too late shows. Beside it stands what a line means: `ItemsFrom` cuts the line into operators
and words, `Meaning` reads these as the header describes them (`tsh_helper.h:88-99`), and `AsRead`
names the two places where the code reads something else: no more than `MAXARGS - 1` arguments, and a
last argument that begins with `&`, quoted or not, as the sign of a background job.

A program of `TestPrograms` is the sequence of its steps that another process can notice. `Session`
holds the processes, each with what is left of its program, its state, its parent, its group and the
signals pending for it, and the datagrams on their way on each socket. Its shell starts jobs, reaps
them and sends them signals, with a plain table of them: job control is the subject of `Shell`.
`RunTrace` has one action per command of a trace and per step of the clean-up, which forks a process
that lists the session, kills what it finds and removes the directory. `good` chooses, at the start,
whether only the trace happens. In the other runs the shell and its jobs may write something that is
no prompt whenever they like (`Writes`; `output` says that such a datagram is readable, and one
stands for several). `next_prompt` and `flush_output` read one datagram per step, for as long as
there are any: the code bounds neither, and after a timeout `flush_output` runs with every signal
masked and no alarm. In a good run that output is left out, for it is only printed. `calloc` and
`sigprocmask` may fail wherever they are called, and then the driver leaves by `_exit`, which does
not clean up (`Calling`). `timedOut`, `spoiled` (a call the clean-up needs failed, or it was killed)
and `victims` are history. Options, what is printed, and the comparison of outputs are left out.

### The proxy

`WebCache` keeps the list as addresses with `prev`, `next`, URI, size and age; `add_to_cache` is cut
at its loop, because that loop need not end. A step of `Proxy` is a stretch of one thread between two
accesses to what threads share. `open` says, for each descriptor, whose it is; the kernel hands out
the lowest free one. `cell` is the heap cell through which `main` passes the descriptor to its
thread. `pc` tells the three ways apart in which a thread ends: answered, without a connection to the
server, and with one to which the request could not be written. `killed` says what ended the process:
headers longer than the arrays they are put together in (`proxy.c:344-371`), or a `memcpy` of the length
-1 (`proxy.c:237`); `reinit`, which is history, that the mutex was initialised while another thread used
it. Once two threads are in the lock at once the program has a data race; after that, and after an
overflow, its behaviour is undefined, and the model stops (`Defined`). An uninitialised URI is any URI.
Writes to a client or server that has gone fail, for SIGPIPE is ignored (`proxy.c:94`), and only that of
the request has a consequence.

`Mutex` follows the futex protocol, with 0, 1 and 2 for free, locked, and locked with threads perhaps
asleep, because what a second `pthread_mutex_init` does depends on it.

### The queue lab

`Harness` describes one `malloc` or `free` with its checks and modes; `Queue` writes each routine of
`queue.c` with them, as one action, and `q_reverse` as an action per turn, since the alarm may strike
in between; `QueueTest` is the tester: any sequence of commands, with `malloc` failing at any call
(`fail_allocation`) and allocation disallowed in `reverse`. A string is its length, and `bufsize - 1`
wraps at `SIZE_MAX`. What the tester finds after the alarm has broken `q_reverse` off is left out: it
gives the queue up there.

`Console` has the stack of files with their buffers, the commands and the options;
`read` returns any part of what a file has left. A command of the program that uses the console
succeeds or fails, and some block the console until an answer comes. `log` opens a descriptor, and the
one it had open until then, if any, is dropped and stays open (`logs`); an event that a command reports
closes the log file and leaves `logfile` set (`report.c:82`), so that what is reported next goes to a
closed file, and the model stops there. What is printed and logged, and the clock, are left out. A
`read` that fails is to `readline` the end of the file; the model has it where the file ends.

### The programs that stand alone

`CSim` has one step per instruction of the trace, with the lines of each set as the code lays them
out; `Puzzles` writes each puzzle with sets of bits, `&` as intersection and so on, and sums that
wrap; `PuzzleTests` states the references over numbers. `Rio` moves any number of the bytes asked for
at each `write` and `read`, and may interrupt each.

## Runs

| Run | Module, configuration | Question | Result |
|---|---|---|---|
| `shell` | `MCShell`, `MCShell.cfg` | the shell's safety invariants and action properties, and that it implements `JobControl` | holds, 101 315 states |
| `shell_live` | `MCShell`, `MCShellLive.cfg` | every zombie is reaped; the wait for the foreground job ends | holds, 83 479 states |
| `shell_full_list` | `MCShell`, `MCShellFull.cfg` | can a job be added whenever a slot is free? | violated |
| `shell_ctrl_c` | `MCShell`, `MCShellCtrlC.cfg` | does Ctrl-C reach the foreground job? | violated |
| `proxy` | `Proxy`, `Proxy.cfg` | two connections and failing peers: the cache, the descriptors, the lock, what each way out leaves | holds, 110 153 states |
| `proxy_lock` | `Proxy`, `ProxyLock.cfg` | does the lock exclude? | violated |
| `proxy_leak` | `Proxy`, `ProxyLeak.cfg` | does a thread close both its descriptors? | violated |
| `terminating` | `MCTerminating`, `MCTerminating.cfg` | the cache as an LRU cache; traces and the driver's clean-up; the console's script and accounts; and do their loops end? | holds, 214 884 states |
| `driver_strays` | `MCRunTrace`, `DriverStrays.cfg` | does the driver leave no stray process? | violated |
| `programs` | `Programs`, `Programs.cfg` | do the parser, the puzzles, the cache simulator, robust I/O and the queue do what they promise? | holds, 966 412 states |
| `parse_header` | `Programs`, `ParseHeader.cfg` | is a line parsed as the header says? | violated |
| `queue_stale_tail` | `QueueTest`, `QueueStaleTail.cfg` | is the queue a sequence if an insertion at the head follows the removal of the last element? | violated |

The shell (`Shell.tla`):

* `NextJidIsOnePastLargest`: what `add_job`'s assertion that its slot is free rests on.
* `OneForegroundJob`: one foreground job at most, and none where a command is read.
* `JobsAreChildren`: list and kernel agree. It fails if SIGCHLD can be handled between `fork` and
  `add_job`, and it is why `kill(-pid)` never reaches a process that took over a PID.
* `NoLostSigchld`: a child that can be waited for has SIGCHLD pending or the handler in its loop.
* `SleepsOnForegroundJob`: no sleep without something to wake the shell.
* `StoppedIsShownStopped`: a stop that has been waited for shows on the list until `bg` or `fg`
  continues the process. The premise leaves out a child that has not reached `setpgid`: SIGCONT to
  its group finds no group, so `fg` marks it FG while it is still stopped. The converse does not
  hold, for the handler does not wait for continuations.
* `AbortsOnlyOnBadInput`: which of the fatal checks can fail, and when.
* `JobStateTransitions`, `ForgottenOnlyWhenReaped`, `KeyboardSignalsOnlyToForeground`: what a step
  may do to a job, to the list and to a process.
* `ImplementsJobControl`: the whole of it, as the user sees it.

The proxy (`WebCacheUse.tla`, which is in the run `terminating`, and `Proxy.tla`):

* `CacheIsSound`, `ImplementsLRU`: the list is linked both ways without a cycle, its blocks and the
  bytes left add up to the capacity, a URI has one block; and the blocks in order of age are the
  entries of an LRU cache.
* `EvictionEnds`: the loop that makes room ends, or every block has reached the age `MIN` that
  `evict_age` passes over (`cache.c:107`); ages are a clock that only rises, so after enough requests
  the loop spins for ever with the lock held.
* `LockExcludesUnlessReinit`, `LockIsObtained`: nothing but the second initialisation breaks the lock
  or leaves a thread asleep on it.
* `SharedCacheIsSound`: the cache is sound although the lock is released during the fetch and two
  threads may come back with one URI. `KeptIsWhole`: a response that is cached is whole.
* `DescriptorsAreOwn`: no thread uses or closes a descriptor that has become another connection's.
* `AnsweredLeavesNothing`: what each way out of `doit` leaves: an answered connection nothing, one
  without a server no descriptor (but the heap cell of `proxy.c:117`, which only the other ways free),
  and one whose request could not be written not the client's. That it leaves the server's is the
  finding of `proxy_leak`.

That the proxy survives its peers is no property, for it does not; see "What is not guaranteed".

The queue lab (`QueueTest.tla`, `Console.tla`), the queue in the run `programs` and the console in
`terminating`:

* `ImplementsDeque`, `OnlyTheQueueIsAllocated`, `ReverseTurnsBounded`: contents, size and results are
  a sequence's, what is allocated is exactly the queue, and `q_reverse` stops at the old tail.
* `TesterSurvives`: no check of the harness fails, a removed string stays within its buffer, and the
  alarm never finds the tester with nowhere to jump to.
* `ImplementsScript`: no line is lost, repeated or out of its place, however `read` cuts the files up.
* `ErrorsAreLimited`: the error limit ends the console.
* `AllIsAccounted`: between any two steps each block is in one of the lists, each file on the stack has
  a descriptor of its own, and the descriptors beyond those are the ones `log` opened, which nothing
  closes. At the end lists and files have been given back exactly, unless the error limit ended the
  console: then nothing has.
* `ConsoleRunFinishes`: a file that sources itself runs out of descriptors.

The driver (`RunTrace.tla`), in the run `terminating`:

* `TracesPlay`: when nothing but the trace happens, no wait of the driver times out, and nothing is
  left in the end.
* `SyncIsRendezvous`: while a datagram is between the shell and the driver, the shell waits for it.
* `StraysCameLate`: when the driver has ended and no call that the clean-up rests on has failed, the
  directory is gone and all that the clean-up listed is dead. That nothing at all is left is refuted
  by `driver_strays`.
* `DriverRunEnds`: the driver ends if the shell and its jobs stop writing at some time, whatever else
  they do, and unless the clean-up cannot be forked.

The programs that stand alone: `PuzzlesAreRight`, `ImplementsLRUSim`, `ImplementsByteStream`, each
stated in its module, and `ParsedAsWritten`: every line is parsed into what it means, but for the two
departures of `AsRead`. That a line of the documented form is parsed as the header says is
`ParsedAsDocumented`, which `parse_header` refutes.

### Bounds

**Shell.** Two process IDs and two slots. PIDs are handed out again after they are reaped, so two are
enough for jobs that overlap, end in either order, leave a hole below `nextjid`, fill the list, are
refused, and for PIDs that are reused. The behaviours are not bounded: no counter grows, and
commands, signals and stops go on for ever. The liveness run types Ctrl-C only, to keep the graph
small; stops still happen, for a program may stop itself. The theorems hold for any number of either.
`Gone` states step to themselves (`Terminated`), so that deadlock checking stays on.

**Cache.** Four nodes, three URIs and room for three bytes make the list as long as three and remove
at its head, end and middle; a response of three bytes evicts all. `MaxTime` bounds the clock at six
requests; `MIN`, which the code takes for an age no block reaches, is 4, below it, so that blocks
the eviction passes over do occur: this is where the loop that never finds a block is met.

**Proxy.** Two threads, two URIs, three descriptors and responses of one to three bytes, of which
`MAX_OBJECT_SIZE` is two and the cache holds three: one response fits with another, fills the buffer
exactly, or is too long. Each thread serves one connection, so the second may start after the first
has ended and get its descriptor. `proxy_lock` has three threads: one that holds the lock, one that
resets it, one more. `proxy_leak` is the run `proxy` with one URI. `MIN` is above all ages, so that
a thread's eviction loop ends; where it does not is the subject of `EvictionEnds`, in the run
`terminating`.

**Queue.** Nine addresses: the header and four elements with their strings, the size at which
`q_reverse` makes more than one turn; strings of up to one character, buffers from 0 (which wraps at
`SIZE_MAX` = 7) to more than the string. For a buffer of 0 the length wraps and the whole string is
written; `TesterSurvives` leaves that case out (`bufsize > 0`). `Nearest` limits the choice of
addresses, which are interchangeable, to the lowest free one. `HeadAfterEmptying` says whether the
tester inserts at the head once a removal has emptied the queue, which is the known error:
`programs` leaves it out to check the rest, `queue_stale_tail` has it.

**Console.** Buffers of three words and lines of five, against files of up to ten, so that lines span
reads and one is longer than a line may be; three descriptors, so that a file that sources itself, or
one that calls `log` again and again, gets to the limit. `empty` is the file of the idle console in the
behaviours of `terminating` that are another part's.

**Driver.** The traces of the repository that use the test programs, and two more for a program and
a wrapper no trace uses; six of them are also played with faults, each of which may strike at any
step. Where a trace repeats a pattern, it is played once, and trace 08 with one job (see the
findings). At most one datagram that is no prompt waits to be read: the driver reads them one by one
and does the same for each, and another may follow at once.

**Programs.** All lines of up to six characters over a letter, a space, `<`, `>`, both quotes and
`&`, with `MAXLINE_TSH` 6 and `MAXARGS` 3, so that lines are cut and arguments left over;
`parse_header` needs no more than three characters. Words of eight bits and floats of four exponent
and three fraction bits, every value of each. Two sets of two lines, four addresses of which three
fall into one set, at most five instructions; `MIN`, which `csim.c:75` takes for a time no line
reaches, stays above them. Four bytes, a reader's buffer of three, a connection that holds three.

`CHECK_DEADLOCK FALSE` is in the configurations of programs that stop: a console that has quit, a
trace that has been played, a bound on requests that is reached.

### Fairness

`FairSpec` assumes of the shell and the kernel: the main flow goes on whenever it is again and again
able to (`SF(Eval)`); a SIGCHLD that is pending and unblocked again and again is delivered
(`SF(SigchldHandler)`): strong fairness, because other handlers and the main flow come in between,
and the kernel delivers every unblocked pending signal before the process runs on; the handler's loop
runs (`WF`), and `waitpid` passes over no child for ever. Nothing is assumed of the user, of the
programs, or of the typing.

`NoEndlessContinuing` assumes that children are not continued by others again and again while the
handler is in its loop. Without it the loop `while ((pid = waitpid(...)) > 0)` need not end: a child
that stops, is waited for, is continued and stops again keeps the handler, and the shell, busy. The
code has no bound there, so this is an assumption about the environment.

`WebCacheUse` and `Proxy` assume that a thread that can compute does (`WF` of `Evict` and `Insert`,
and of `Computes(t)`): threads are scheduled. Nothing is assumed of clients and servers, nor that the
mutex is fair: a thread that wakes up competes for it, and obtains it because each thread locks it
twice at most. `Console` assumes that it runs and that the network answers (`WF` of `Next`).
`RunTrace` assumes that the driver runs and its timers expire; of the shell under test only in a good
run, where the timers are long enough for it. `DriverRunEnds` has a premise besides: that the shell and
its jobs write no more output than prompts from some time on (`<>[][~Writes]`). The code has no
bound there, neither in `next_prompt` nor in `flush_output`. In `MCTerminating` each of these conditions
holds where its part runs.

## Findings

1. **A free slot is not enough** (`shell_full_list`). `add_job` refuses a job while `nextjid` is past
   the last slot (`tsh_helper.c:360`), and `nextjid` is one past the largest job ID in use
   (`tsh_helper.c:411`). While the job in the last slot lives, no job can be added, whatever slots
   are free; the header speaks of "no more job IDs available" and of `delete_job` "freeing its job ID
   for use by another job" (`tsh_helper.h:162`, `169`). `eval` does not look at the result: a refused
   foreground command runs unwaited for, and if it stops, `job_set_state` aborts the shell.
2. **An early Ctrl-C is lost** (`shell_ctrl_c`). The child makes its process group itself
   (`tsh.c:235`), and runs the shell's handlers until `execve`. A Ctrl-C in that time goes to a group
   that does not exist, or to a handler that finds no foreground job, while the header of `tsh.c`
   promises that it is forwarded to the foreground job's group (`tsh.c:22`).
3. **The mutex is reset while it is held** (`proxy_lock`). Every thread calls `pthread_mutex_init` on
   the one global mutex (`proxy.c:165`). A thread that does so while another is in the lock frees it,
   and two of them change the cache at once, which the heading of the file excludes (`proxy.c:18`).
4. **An insertion is lost** (`queue_stale_tail`). `q_remove_head` leaves `tail` on the freed element
   when it empties the queue (`queue.c:147`). An insertion at the head then does not set it, and one at
   the tail links its element to freed memory, although it returns true (`queue.c:94`).
5. **The server's descriptor leaks** (`proxy_leak`). When the request cannot be written,
   `send_request_to_server` returns -1 and drops the connection it has opened (`proxy.c:280-282`);
   `doit` takes this for no connection, closes the client's descriptor and returns. Its header says that
   both are closed (`proxy.c:142`). The heap cell is not freed either (`proxy.c:189` against `210`).
6. **Strays survive the clean-up** (`driver_strays`). The clean-up lists the session once and kills what
   is on the list (`runtrace.c:368-369`). A shell that has been forked and has not got to `setsid`
   (`runtrace.c:333`), or a job that is forked after the list was made, is not on it, and lives on, while
   the comments promise to kill "any of our stray shells and jobs" (`runtrace.c:595`, `617`).
7. **A quoted `&` is the sign of a background job** (`parse_header`). `parseline` looks at the first
   character of the last argument (`tsh_helper.c:172`), in quotes or not and whatever follows it, while the
   header says that what is in quotes is an argument and shows `&` as a sign of its own
   (`tsh_helper.h:93`, `99`). It also stops at `MAXARGS - 1` arguments (`tsh_helper.c:140`), where the
   header says `MAXARGS` (`tsh_helper.h:94`).

### What is not guaranteed

These are things a reader might expect of the programs and the code does not do. The models contain
them, but for the last two, and the properties are stated so that they hold all the same.

* `bg` or `fg` of a PID that is no job's, and a failed `fork`, abort the shell (`AbortsOnlyOnBadInput`).
* The proxy does not survive everything its peers can do, although its tests are about "ability of
  proxy to continue after error occurs" (`tests/README.txt:6`). The headers of a request are put together in
  arrays of `MAXLINE` characters without a look at their length (`proxy.c:344-371`): a client with more of
  them overflows the arrays (`HeadersOverflow`). A server that breaks off in the middle of a response makes
  `rio_readnb` return -1, which is kept in a `size_t` and handed to `memcpy` (`proxy.c:237`,
  `ReceiveFails`). A client or server that is gone when something is written to it does no harm.
* A cache whose blocks have all reached the age `MIN` hangs the proxy (`EvictionEnds`), and a malformed
  request is answered with an error and then processed with whatever its variables held.
* A thread that is not created, or that finds no server, leaves its heap cell.
* The console's `log` drops the log file it had open, and nothing closes the last one
  (`report.c:51-55`). `report_event` closes the log file and leaves `logfile` set (`report.c:82`). When
  the error limit ends the console, `finish_cmd` finds `quit_flag` set and does nothing
  (`console.c:708-716`): nothing is given back, and the functions that were to be "executed as part of
  program exit" (`console.h:51`) are not.
* The driver need not end while the shell or a job keeps writing: `next_prompt` goes on for as long as
  `select` finds something readable (`runtrace.c:758-792`), and so does `flush_output`, after a timeout
  with all signals masked (`runtrace.c:814-825`). If its clean-up cannot be forked, it waits for process
  -1, that is for the shell, and kills nothing. If `calloc` or `sigprocmask` fails once the shell
  has been forked, it leaves with `_exit(1)`, and shell and directory stay (`runtrace.c:371-375`, `380-383`).
* In trace 08 the wrapper stops the shell before each `waitpid`. A job that ends after the driver's
  last `NEXT` makes the shell ask for an answer that nobody gives, so the trace as written times out
  when its second job ends late. It is played here with one job.
* `csim` run without one of `-s -E -b -t` reads variables it has not set; the model's are given.
* The puzzle `distinctNegation` negates the smallest long, which is undefined; that value is no input.

## Proofs

Each theorem holds for every value of the constants that the named assumptions of its module allow:
any number of slots, process IDs, connections, descriptors and cache blocks, any sizes of buffers,
caches, lines and responses, any addresses, lengths of queues and of strings, any files and traces.
The assumptions say that such sizes are natural numbers (and not zero where the code needs one), that
special values (`NULL`, `NoPid`, `NoFd`, `FreeCell`, `NoUri`) are not ordinary ones, that the sets of
addresses, descriptors and commands are finite, and that a trace answers the shell only after it has
waited for it. TLC evaluates them in the runs.

**The shell** (`ShellProofs`).

* The routines: first what the list's routines return and change, each a lemma. `FirstSlot` and
  `maxjid` are `CHOOSE`s of a smallest and a largest slot, whose existence comes from the
  well-foundedness of `<` on the naturals (`SmallestExists`, `LargestExists`). Then `TypeCorrect`:
  `TypeOK` alone is not inductive, for `add_job` keeps the types only if the child recorded in
  `forked` is one; so it is proved with `ControlConsistent`, which says where no handler can be
  running and that the child just forked is there to be added.
* The invariants: `ShellInvariant`, that the conjunction `ShellInv` of all the safety invariants
  and three helping ones (`ControlConsistent`, `FatalAborts`, `ForkedStopUnreported`) is inductive.
  One lemma for each conjunct shows that a step keeps it, from the conjuncts before it, with one case
  per action. They lean on each other: that `add_job` does not abort needs `NextJidIsOnePastLargest`
  and `OneForegroundJob`; that the sleeping shell's job has a child needs `JobsAreChildren`; that only
  a refused child's stop can abort the shell needs that every unreaped child is listed or refused; and
  that a stop is shown needs that PIDs on the list are distinct, and that no stop of a child can have
  been waited for before its job was added. Each invariant of the run `shell` is then a theorem.
* The steps: what a step may do. Each action is one of a few kinds of change of the list (it
  keeps it, adds a job, deletes one, sets a state, or ends the shell), and the three action properties
  `TransitionsAsTabulated`, `NotForgottenEarly` and `KeyboardOnlyForeground` follow from `ShellInv` and
  the kind. `ShellRefines`: every step of `Shell` is one of `JobControl`, or a stutter. A typed signal, a
  `kill` of `bg` or `fg`, a turn of the handler's loop and the child's own steps each map to one step
  of the user's view, which shows each process with the state of its job. That one slot's change is
  one process's rests on PIDs being distinct on the list (`JobsAreChildren`).

**The proxy.**

* `ProxyProofs`: `ProxyInvariant`, the inductive invariant of the threads. `ResponseSoFar` says how
  much of a response has been read and kept at each turn of the loop: nothing, all of it, exactly the
  buffer's size, or too much. `MutexHeldByOne` says that a thread in a critical section has set the
  mutex's word, as long as nobody has initialised it while it was used. `DescriptorsKnown` says that
  the descriptors open on a thread's connections are the ones the thread has, at each place of `doit`,
  which is what keeps the lowest-free rule of the kernel from giving two threads one descriptor.
  `LockExcludesOtherwise`, `KeptResponsesAreWhole`, `ThreadsUseOwnDescriptors` and `AnsweredIsClosed`
  follow; the last needs to know which descriptor a thread that has ended can have left, namely its server's, if
  the request could not be written.
* `WebCacheProofs`: the operators of `cache.c`, as lemmas. The list's invariant, `OnAChain`, is that there is a
  sequence without repetition that starts at `head`, is linked forward and backward, and is exactly the allocated
  blocks. From it comes what `Walk`, a recursive function, yields (`WalkOfChain`, by exhibiting the function it must
  be), that the list is well linked, and that insertion, a hit and removal at head, middle and end
  keep it. The sum of the blocks' sizes is a fold over a set in an order nobody fixes: `SumExists`,
  `SumIsUnique` and `SumWithout` show, by a set of fewest elements for which it fails, that it is what removing any
  element leaves plus that element.
* `WebCacheUseProofs`: `CacheStaysSound`, for one thread: besides `CacheInv` it needs that the URI being added
  is on no block. `SharedCacheStaysSound`, in `ProxyProofs`, is the same for the threads. The lookup before
  the insertion, and the insertion, are one critical section, so no other thread adds that
  URI in between; it is proved together with `ProxyInv`, for what is added must have a URI and a size.
* `CacheIsLRU`, in `WebCacheUseProofs`: the cache of one thread implements `LRUCache`. Beyond `UseInv`
  it needs that no two blocks are of one age and that, while a response is being added, all are older
  than the clock (`AgesInv`): the clock moves before every use, and an insertion has the time of its miss.
  An entry's place is then the number of younger blocks; the blocks in order of age exist as a
  sequence (`OrderExists`), and a hit, an eviction and an insertion move its elements as `LRUCache` says
  (`OrderAfterHit`, `OrderAfterEviction`, `OrderAfterInsertion`). That `evict_age`, which
  passes over blocks of an age of `MIN` or more, finds the oldest block or none is `OldestIsEvicted`; that there is
  no room for the abstract cache exactly if `slots` is too small is `UsedIsTaken`, an equation between
  a fold over a sequence and one over the list (`SumInOrder`).

**Robust I/O.** `ProgramsProofs` shows that the bytes delivered, copied, in the buffer, on the connection and
still to be written follow one another without gap or overlap (`RioInv`: `BytesAreInOrder`), and
from that, that every call of the reader returns the next block or line of the stream
(`RioRefines`: `Rio` implements `ByteStream`). TLC agrees that `RioInv` holds on the run `programs`.

**The cache simulator.** `ProgramsProofs` shows that `SimInv` is inductive (`LinesAreInOrder`) and that
`CSim` implements `LRUSim` (`SimulatorIsLRU`), for any number of sets and lines, size of a block and trace.

* `SetOK`, for each set: the valid lines come first, which is why the search may stop at the first
  invalid one; no two of them hold one block or were used at one time; only they are dirty, which `dirtyInCache`
  takes for granted; and no time is past the clock. TLC agrees that `SimInv` holds on the run `programs`.
* A set's list is ordered by the number of lines used later, as an entry's place is in the proxy's cache. A hit, a
  filled line and a replaced one move its elements as `LRUSim` says (`UsedAgain`, `UsedFirst`,
  `OldestIsLast`); what the abstract sequence operations yield is `MovedToFront`, `PutInFront` and `LastMoved`.
* `BlockInTwo`: tag and set index are the number of the block in two parts. The provers know nothing of
  `2^n`, so that `2^(n + m)` is a product comes from counting subsets (`PowerOfSum`).
* `OldestIsReplaced` is where `MIN` matters: `evict` finds the line used longest ago if no time reaches
  `MIN`, and the comment at `csim.c:75` assumes that none does (`MinAssumption`).
* `DirtyAgree`: the dirty lines are as many as the dirty places of the lists, by the bijection that the
  orders of use give.

**The queue.** `QueueProofs` shows that `QueueInv` is inductive, and the rest follows from it.

* `QueueInv`: there is a sequence of elements without repetition, each linked to the next, that starts
  at the header's `head` and ends at its `tail`, with a string for each, as many as `size` says, and
  nothing but these and the header is allocated (`Chained`). Between two turns of `q_reverse`, after
  `k` of them, the first `k + 1` elements are linked backwards behind the old tail and the others
  forwards to it (`PartlyReversed`), which is why the loop ends where it does. `TesterInStep` ties the
  tester's place to the harness's modes. TLC agrees that `QueueInv` holds on the queue of the run `programs`.
* `ElementsInOrder`: what `Elements`, a recursive function, yields on such a heap is that sequence
  (`WalkInOrder` exhibits a function that satisfies the recursive equation and shows, by the least bound
  at which another would differ, that there is no other).
* From the invariant: `NothingIsLost`, `ReverseEnds`, `CommandsAreSurvived` and `QueueRefines`, which maps each command to
  one step of `Deque` and the turns of `q_reverse` to stutters until its last.
* All of them assume `~HeadAfterEmptying`, as the run `programs` does: the tester does not insert at the
  head of a queue that removals have emptied. There the code leaves `tail` on a freed element, the
  invariant is lost and so are the results; the run `queue_stale_tail` shows it.

**The console.** `ConsoleProofs` shows that `ConsoleInv` is inductive (`ConsoleIsInv`), for any files,
commands, descriptors, buffer, line length and error limit, and from it `ErrorsAreLimitedAlways`,
`AllIsAccountedAlways` and `ScriptIsFollowed`.

* `ErrorsCounted`: while lines are executed, fewer errors than the limit have been counted, unless the
  option was set; a command under `time` that fails counts more than once, so the count bounds the
  lines that failed and is not equal to them. The limit is assumed to be at least 1
  (`default_err_limit` is 5).
* `FilesOpen`: the open descriptors are those of the files on the stack, each its own, and those that
  `log` opened, which are none of the others; that `open` returns the lowest free one is not needed for
  it, that a descriptor is closed when its file is popped is.
* `ListsAllocated`: the blocks and bytes in the accounts of `report.c` are those of the elements of the
  three lists. Between two steps the copies that `parse_args` makes of a line have come and gone;
  that what it takes for the words (`Strsaved`) is given back (`Strfreed`) is an equation between
  two folds over the words of a line, and `parse_args` is a recursive function. Both exist, for the
  line at hand, by a finite approximation: `WordsAreThere` exhibits the function that satisfies the recursive
  equation up to each bound, and reaches each bound by counting up to it (`CountUp`, the finite induction:
  there is no least bound that is not reached).
* `AllIsAccounted` says more than the accounts do: `0` blocks exactly if `0` bytes, which follows because
  every element has a size.
* `ScriptIsFollowed`: the console implements `Script`. What the script has still to do (`Todo`) is the
  line that has been read, if any, then the lines of what is left of the file on top of the stack, then
  those of the files below it; a line of which `readline` has a part already is put before what is left of its
  file. Each step then runs the first of them, ends the script, or is a stutter (`NextMaps`, with one
  lemma for each kind of step). It needs, besides `ConsoleInv`, that the part read has no newline
  and is shorter than a line may be (`LineOpen`): with it, what `readline` completes is the first
  line of what was there (`NextLine`), what it keeps at the end of a file is the last (`LastLine`), and taking
  part of a line or refilling the buffer changes no line.
* `LinesFirst`, on which these rest: the lines of a text are the first one and then those of the text
  behind it. `Lines` is a recursive function over positions; the lines from each position on are a chain of
  pieces that exists (`ChainExists`, from the end backwards with `CountDown`) and is the only one
  (`ChainsAgree`), and the chain of a text's rest is the rest of the text's chain. `FlattenCons` says the
  same of the sequence of all files' lines, whose `FlattenSeq` is recursive too.

**The driver.** `RunTraceProofs` shows that `RunTraceInv` is inductive (`RunTraceIsInv`), for any traces,
slots and interleaving of jobs, shell, clean-up, timers and user, and from it `StraysCameLateAlways` and
`SyncIsRendezvousAlways`. TLC agrees that `RunTraceInv` holds on the traces of the run `terminating`.

* `DriverStages` and `CleanerProgress`: where `main` is, what it has still to undo, and how far the
  process that cleans up has come; in particular, that signals are blocked from the making of the
  directory until `cleanup_needed` is set, without which a signal could end the driver and leave the directory.
* `VictimsStayDead`: nothing is in the session before the shell has been forked; what the clean-up has
  listed is dead once it has sent SIGKILL, and stays so. The latter is `Grows`, kept by every step of a
  job, the shell and the kernel: no process disappears, and none that is a zombie or gone comes to life
  again.
* `SyncInv`: the datagrams on their way between the shell and the driver, and the one the driver has
  taken and not yet answered (`Held`), are together one exactly while the shell's next step is the wait of a
  wrapper (`OneToken`). It needs that the steps of a wrapped call come in pairs (`Paired`), which concatenations
  of calls keep and which is what `SyncCalls`, `CallsConcat` and `WrappedCalls` show of `wrapper.c`, and
  that nothing but a wrapper's steps come between its two halves.
* `TracesAssumption`: a trace answers the shell (`SHELLSIGNAL`) only after it has waited for it
  (`SHELLWAIT`), as those of `shelllab/traces` do. A trace that answers without waiting puts a second
  datagram into the socket, and the rendezvous is lost; nothing in `runtrace.c` looks for that.

Left to TLC:

* liveness under fairness, and `ENABLED`: `ZombiesAreReaped`, `ForegroundWaitEnds`, `LockIsObtained`, `EvictionEnds`,
  `DriverRunEnds` and `ConsoleRunFinishes`;
* what recursive definitions compute for every input: the references of the puzzles
  (`PuzzlesAreRight`) and the items of a line (`ParsedAsWritten`);
* `TracesPlay`: the timers of a good run expire only when nobody else can step, which is `ENABLED`.

## Not modelled

* In the shell: output and its order, the redirection of a child's files but for its failure, the
  `jobs` command (it only reads), terminal control, and signals that other processes send to the shell
  other than SIGQUIT. A failing `realloc` in `add_job`, which ends the shell, is `SigquitHandler`'s
  effect and is not an action of its own. `Shell` takes any command; `ParseLine` says which one a line is.
* In `wrapper.c`: the random delays (an interleaving, which the models allow everywhere) and the checks
  of `errno` and of what handlers may call. `sdriver.c` compares normalised text.
* In `csapp.c`: `open_clientfd` and `open_listenfd` are steps of the proxy that succeed or fail, `sio_*`
  formats numbers, and the wrappers call one function and exit when it fails.
* `trans.c`: loops over matrices of fixed sizes without a choice, compared element by element by the
  lab's own test. `mm-naive.c`: the allocator handed out with the lab, which never reuses memory; no
  solution is in the repository. The test programs of both labs measure and print.
* Tiny, `pxy`, the programs that only print, and the bomb and attack labs, whose logic is in binaries.

## Plan

1. Done: the models, runs and refinements above; the proofs about the shell, the proxy, its cache,
   robust I/O, the queue, the console, the driver and the cache simulator.
2. Later, if worth it: the transposes for all sizes up to a bound, and the socket helpers.
