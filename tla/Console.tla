------------------------------ MODULE Console -------------------------------
(***************************************************************************)
(* The command interpreter of the queue lab, cprogramminglab-handout/      *)
(* console.c, with the memory it takes through report.c.                   *)
(*                                                                         *)
(* A file is a sequence of words, spaces and newlines; read returns any    *)
(* part of what is left, so a line may come in several pieces.  A command  *)
(* of the program that uses the console (qtest) succeeds or fails, and may *)
(* block the console until the network has answered.  Left out: what is    *)
(* printed and logged, and the clock of the time command; a log file is    *)
(* none of the files that are read.                                        *)
(***************************************************************************)
EXTENDS Report, FiniteSets

CONSTANTS
    File,       \* names of files
    Content,    \* Content[f]: the words, spaces and newlines of f
    NL, SP,     \* newline, space
    Value,      \* Value[w]: what get_int makes of a word that it accepts
    Op,         \* commands of the program that uses the console
    AsyncOp,    \* those of them that block the console
    Fd,         \* file descriptors, 0 for the standard input
    Buffer,     \* RIO_BUFSIZE, in words: what one read returns at most
    LineLimit,  \* RIO_BUFSIZE - 2, in words
    ErrLimit    \* default_err_limit

ASSUME ConsoleAssumption ==
    /\ \A f \in File : Content[f] \in Seq(ToSet(Content[f]))
    /\ AsyncOp \subseteq Op /\ IsFiniteSet(Op)
    /\ Fd \subseteq Nat /\ IsFiniteSet(Fd)
    /\ {Buffer, LineLimit, ErrLimit} \subseteq Nat \ {0}

VARIABLES
    cmd_list,       \* names of the commands
    param_list,     \* names of the parameters
    param,          \* value of each parameter
    buf_stack,      \* the file being read, before those that source it
    open,           \* open descriptors
    logs,           \* those of them that log opened
    logging,        \* logfile is not NULL
    linebuf,        \* the line being read, without its newline
    block_flag,
    quit_flag,
    err_cnt,
    mem,            \* the accounts of report.c
    at,             \* where the program is
    ran,            \* history: lines executed
    failed,         \* history: how many of them failed
    limit_set       \* history: the option error was set

consoleVars == <<cmd_list, param_list, param,
                 buf_stack, open, logs, logging, linebuf, block_flag, quit_flag,
                 err_cnt, mem, at, ran, failed, limit_set>>

logVars == <<logs, logging>>
inputVars == <<buf_stack, open, logVars>>
listVars == <<cmd_list, param_list>>
tableVars == <<listVars, param>>
historyVars == <<ran, failed, limit_set>>

Builtin == {"help", "option", "quit", "source", "log", "time", "#"}

cmd_done == buf_stack = <<>> \/ quit_flag

(* Bytes of a cmd_ele, a param_ele, a rio_t and a pointer; a word is one   *)
(* character.                                                              *)
CmdSize == 32
ParamSize == 40
RioSize == 8224
PointerSize == 8
WordLength == 1

(* A file that was opened.                                                 *)
Reader(f, fd) == [fd |-> fd, unread |-> Content[f], buf |-> <<>>]

(* init_cmd, the commands that the program adds, and start_cmd.            *)
ConsoleInit ==
    /\ cmd_list = Builtin \cup Op
    /\ param_list = {"verbose", "error", "echo"}
    /\ param = [verbose |-> 0, error |-> ErrLimit, echo |-> 0]
    /\ \E f \in File : buf_stack = <<Reader(f, 0)>>
    /\ open = {0} /\ logs = {} /\ logging = FALSE
    /\ linebuf = <<>>
    /\ block_flag = FALSE /\ quit_flag = FALSE
    /\ err_cnt = 0
    /\ mem = malloc_or_fail(MallocEach(MallocEach(NothingAllocated,
                 Cardinality(cmd_list), CmdSize), Cardinality(param_list), ParamSize),
                 RioSize)
    /\ at = "select"
    /\ ran = <<>> /\ failed = 0 /\ limit_set = FALSE

-----------------------------------------------------------------------------
(* cmd_select and readline.                                                *)

(* A bug: the descriptor stays open.                                       *)
pop_file_LeavesOpen ==
    /\ buf_stack' = Tail(buf_stack)
    /\ mem' = free_block(mem, RioSize)
    /\ UNCHANGED open

(* A bug: the file stays on the stack.                                     *)
pop_file_OnlyCloses ==
    /\ open' = open \ {Head(buf_stack).fd}
    /\ UNCHANGED <<buf_stack, mem>>

pop_file ==
    /\ buf_stack' = Tail(buf_stack)
    /\ open' = open \ {Head(buf_stack).fd}
    /\ mem' = free_block(mem, RioSize)

(* A complete line is in the buffer of the top file.                       *)
read_ready == buf_stack # <<>> /\ NL \in ToSet(Head(buf_stack).buf)

(* The loop of cmd_select goes on after quit_flag is set, for what is in   *)
(* the buffer; otherwise select waits for the file, which is always ready. *)
cmd_select ==
    /\ at = "select"
    /\ ~block_flag
    /\ read_ready \/ ~cmd_done
    /\ at' = "readline"
    /\ linebuf' = <<>>
    /\ UNCHANGED <<tableVars, inputVars, mem, block_flag, quit_flag, err_cnt, historyVars>>

(* A bug: a line cut off by the end of the buffer is taken for a line.     *)
TakeChars_StopsAtBuffer ==
    LET top == Head(buf_stack)
        n == IF NL \in ToSet(top.buf)
             THEN CHOOSE i \in DOMAIN top.buf :
                    top.buf[i] = NL /\ \A j \in 1..(i - 1) : top.buf[j] # NL
             ELSE Len(top.buf)
    IN  /\ at = "readline" /\ top.buf # <<>>
        /\ linebuf' = linebuf \o SelectSeq(SubSeq(top.buf, 1, n), LAMBDA c : c # NL)
        /\ buf_stack' = [buf_stack EXCEPT ![1].buf = SubSeq(@, n + 1, Len(@))]
        /\ at' = "interpret"
        /\ UNCHANGED <<tableVars, open, logVars, mem, block_flag, quit_flag,
                       err_cnt, historyVars>>

(* readline takes what the buffer holds, up to a newline or the limit of   *)
(* the line.                                                               *)
TakeChars ==
    LET top == Head(buf_stack)
        room == LineLimit - Len(linebuf)
        ends == {i \in DOMAIN top.buf : top.buf[i] = NL}
        n == CHOOSE i \in 1..Len(top.buf) :
                /\ i \in ends \/ i = room \/ i = Len(top.buf)
                /\ \A j \in 1..(i - 1) : j \notin ends /\ j # room
    IN  /\ at = "readline" /\ top.buf # <<>>
        /\ linebuf' = linebuf \o SubSeq(top.buf, 1, IF n \in ends THEN n - 1 ELSE n)
        /\ buf_stack' = [buf_stack EXCEPT ![1].buf = SubSeq(@, n + 1, Len(@))]
        /\ at' = IF n \in ends \/ n = room THEN "interpret" ELSE "readline"
        /\ UNCHANGED <<tableVars, open, logVars, mem, block_flag, quit_flag,
                       err_cnt, historyVars>>

Refill ==
    LET top == Head(buf_stack)
    IN  /\ at = "readline" /\ top.buf = <<>>
        /\ \E n \in 1..Buffer :
              /\ n <= Len(top.unread)
              /\ buf_stack' = [buf_stack EXCEPT ![1] =
                     [fd |-> top.fd,
                      unread |-> SubSeq(top.unread, n + 1, Len(top.unread)),
                      buf |-> SubSeq(top.unread, 1, n)]]
        /\ UNCHANGED <<tableVars, open, logVars, mem, linebuf, block_flag,
                       quit_flag, err_cnt, at, historyVars>>

(* The end of the file: it is closed, and a last line without a newline is *)
(* still a line.                                                           *)
EndOfFile ==
    /\ at = "readline"
    /\ Head(buf_stack).buf = <<>> /\ Head(buf_stack).unread = <<>>
    /\ pop_file
    /\ at' = IF linebuf = <<>> THEN "select" ELSE "interpret"
    /\ UNCHANGED <<tableVars, logVars, linebuf, block_flag, quit_flag, err_cnt, historyVars>>

-----------------------------------------------------------------------------
(* interpret_cmd.                                                          *)

(* The words between the spaces.                                           *)
parse_args(line) ==
    LET words[i \in 0..Len(line)] ==
            IF i = 0 THEN <<>>
            ELSE IF line[i] = SP THEN words[i - 1] ELSE Append(words[i - 1], line[i])
    IN  words[Len(line)]

Strsaved(m, argv) == FoldLeft(LAMBDA acc, w : strsave_or_fail(acc, WordLength), m, argv)

(* parse_args keeps a copy of the line, with its newline, while it makes   *)
(* the array of words.                                                     *)
Parsed(m, line) ==
    LET argv == parse_args(line)
        copied == malloc_or_fail(m, Len(line) + 2)
        array == calloc_or_fail(copied, Len(argv), PointerSize)
    IN  free_block(Strsaved(array, argv), Len(line) + 2)

Strfreed(m, argv) == FoldLeft(LAMBDA acc, w : free_string(acc, WordLength), m, argv)

(* interpret_cmd frees the words, then the array.                          *)
Forgotten(m, line) ==
    LET argv == parse_args(line)
    IN  free_array(Strfreed(m, argv), Len(argv), PointerSize)

(* The command that the words time before it apply to.                     *)
Times(argv) ==
    Cardinality({i \in 1..(Len(argv) - 1) : \A j \in 1..i : argv[j] = "time"})

Timed(argv) == SubSeq(argv, Times(argv) + 1, Len(argv))

(* The file that a line sources, if there is one.                          *)
Sources(line) ==
    LET argv == Timed(parse_args(line))
    IN  IF Len(argv) > 1 /\ argv[1] = "source" THEN {argv[2]} \cap File ELSE {}

(* The pairs of name and value after option, up to the first that is no    *)
(* pair, has no integer, or names no parameter.                            *)
OptionOk(argv, i) ==
    /\ 2 * i + 1 <= Len(argv)
    /\ argv[2 * i + 1] \in DOMAIN Value
    /\ argv[2 * i] \in param_list

OptionPairs(argv) == 1..(Len(argv) \div 2)

OptionsSet(argv) ==
    {i \in OptionPairs(argv) : \A j \in 1..i : OptionOk(argv, j)}

OptionsFail(argv) == OptionsSet(argv) # OptionPairs(argv)

ParamAfter(argv) ==
    [p \in DOMAIN param |->
        LET named == {i \in OptionsSet(argv) : argv[2 * i] = p}
        IN  IF named = {} THEN param[p]
            ELSE Value[argv[2 * (CHOOSE i \in named : \A j \in named : j <= i) + 1]]]

(* A bug: the command that reaches the limit is the first one too many.    *)
record_error_OneMore(n, limit) ==
    /\ err_cnt' = err_cnt + n
    /\ quit_flag' = (quit_flag \/ (n > 0 /\ err_cnt' > limit))

(* record_error, once for each of the n commands that failed together: the *)
(* command that time runs, and time itself.                                *)
record_error(n, limit) ==
    /\ err_cnt' = err_cnt + n
    /\ quit_flag' = (quit_flag \/ (n > 0 /\ err_cnt' >= limit))

(* One line: the result, the parameters after it, and the memory accounts  *)
(* when the command returns.                                               *)
InterpretWith(ok, new_param, m) ==
    LET argv == parse_args(linebuf)
    IN  /\ at = "interpret" /\ ~quit_flag
        /\ param' = new_param
        /\ mem' = Forgotten(m, linebuf)
        /\ record_error(IF ok THEN 0 ELSE Times(argv) + 1, new_param.error)
        /\ at' = "select"
        /\ ran' = Append(ran, linebuf)
        /\ failed' = failed + (IF ok THEN 0 ELSE 1)
        /\ UNCHANGED linebuf

Interpret(ok, new_param) == InterpretWith(ok, new_param, Parsed(mem, linebuf))

Succeeds == Interpret(TRUE, param)
Fails == Interpret(FALSE, param)

Command == Timed(parse_args(linebuf))
IsCommand(name) == Command # <<>> /\ Command[1] = name

(* A blank line, a time without a command, help, or a comment.             *)
DoesNothing ==
    /\ Succeeds
    /\ \/ Command = <<>>
       \/ \E name \in {"time", "help", "#"} : IsCommand(name)
    /\ UNCHANGED <<listVars, inputVars, block_flag, limit_set>>

Unknown ==
    /\ Command # <<>> /\ Command[1] \notin cmd_list
    /\ Fails
    /\ UNCHANGED <<listVars, inputVars, block_flag, limit_set>>

(* A command of the program; it may call block_console.                    *)
Operation ==
    /\ Command # <<>> /\ Command[1] \in Op
    /\ Succeeds \/ Fails
    /\ block_flag' = (Command[1] \in AsyncOp)
    /\ UNCHANGED <<listVars, inputVars, limit_set>>

(* An operation may report an event: report_event closes the log file and  *)
(* leaves logfile set, and the next thing reported uses a file that is     *)
(* closed.  Anything may follow; the model stops there.                    *)
EventClosesLog ==
    /\ at = "interpret" /\ ~quit_flag
    /\ Command # <<>> /\ Command[1] \in Op
    /\ logging
    /\ at' = "undefined"
    /\ UNCHANGED <<tableVars, inputVars, mem, linebuf, block_flag, quit_flag,
                   err_cnt, historyVars>>

do_option_cmd ==
    /\ IsCommand("option")
    /\ Interpret(~OptionsFail(Command), ParamAfter(Command))
    /\ limit_set' = (limit_set \/ \E i \in OptionsSet(Command) : Command[2 * i] = "error")
    /\ UNCHANGED <<listVars, inputVars, block_flag>>

(* open gives the lowest free descriptor, if there is one left.            *)
NewFd(fd) == fd \in Fd \ open /\ \A other \in Fd \ open : fd <= other

(* The log file that was open until then, if any, stays open: nothing      *)
(* knows of it any more.  Where the new one cannot be opened there is none.*)
set_logfile ==
    \/ /\ \E fd \in Fd : NewFd(fd) /\ open' = open \cup {fd} /\ logs' = logs \cup {fd}
       /\ logging' = TRUE
       /\ Succeeds
    \/ Fails /\ logging' = FALSE /\ UNCHANGED <<open, logs>>

do_log_cmd ==
    /\ IsCommand("log")
    /\ \/ Len(Command) = 1 /\ Fails /\ UNCHANGED <<open, logVars>>
       \/ Len(Command) > 1 /\ set_logfile
    /\ UNCHANGED <<listVars, buf_stack, block_flag, limit_set>>

(* The file may be missing.                                                *)
push_file ==
    /\ \E f \in Sources(linebuf), fd \in Fd :
          /\ NewFd(fd)
          /\ buf_stack' = <<Reader(f, fd)>> \o buf_stack
          /\ open' = open \cup {fd}
    /\ UNCHANGED logVars

do_source_cmd ==
    /\ IsCommand("source")
    /\ \/ push_file /\ InterpretWith(TRUE, param, malloc_or_fail(Parsed(mem, linebuf), RioSize))
       \/ /\ Sources(linebuf) = {} \/ Fd \subseteq open
          /\ Fails
          /\ UNCHANGED inputVars
    /\ UNCHANGED <<listVars, block_flag, limit_set>>

(* What do_quit_cmd frees and closes: not the log files.                   *)
Reading == {buf_stack[i].fd : i \in DOMAIN buf_stack}

FreeLists(m) ==
    FreeEach(FreeEach(FreeEach(m, Cardinality(cmd_list), CmdSize),
        Cardinality(param_list), ParamSize), Len(buf_stack), RioSize)

Release ==
    /\ cmd_list' = {} /\ param_list' = {}
    /\ buf_stack' = <<>>
    /\ open' = open \ Reading
    /\ UNCHANGED logVars

(* One of the functions that the program wants called at the end may fail. *)
do_quit_cmd ==
    /\ IsCommand("quit")
    /\ at = "interpret" /\ ~quit_flag
    /\ Release
    /\ mem' = Forgotten(FreeLists(Parsed(mem, linebuf)), linebuf)
    /\ quit_flag' = TRUE
    /\ \E ok \in BOOLEAN :
          /\ err_cnt' = err_cnt + (IF ok THEN 0 ELSE Times(parse_args(linebuf)) + 1)
          /\ failed' = failed + (IF ok THEN 0 ELSE 1)
    /\ at' = "select"
    /\ ran' = Append(ran, linebuf)
    /\ UNCHANGED <<param, linebuf, block_flag, limit_set>>

(* After quit_flag is set no line is executed.                             *)
SkipLine ==
    /\ at = "interpret" /\ quit_flag
    /\ at' = "select"
    /\ UNCHANGED <<tableVars, inputVars, mem, linebuf, block_flag, quit_flag,
                   err_cnt, historyVars>>

(* malloc_or_fail, in parse_args or push_file, ends the program.           *)
MallocFails ==
    /\ at = "interpret" /\ ~quit_flag
    /\ at' = "exit"
    /\ UNCHANGED <<tableVars, inputVars, mem, linebuf, block_flag, quit_flag,
                   err_cnt, historyVars>>

-----------------------------------------------------------------------------

(* run_console returns, and the program calls finish_cmd.                  *)
finish_cmd ==
    /\ at = "select" /\ cmd_done /\ (block_flag \/ ~read_ready)
    /\ at' = "done"
    /\ IF quit_flag
       THEN UNCHANGED <<listVars, inputVars, mem>>
       ELSE Release /\ mem' = FreeLists(mem)
    /\ quit_flag' = TRUE
    /\ UNCHANGED <<param, linebuf, block_flag, err_cnt, historyVars>>

(* The network's answer: unblock_console.                                  *)
unblock_console ==
    /\ block_flag /\ at \notin {"done", "exit", "undefined"}
    /\ block_flag' = FALSE
    /\ UNCHANGED <<tableVars, inputVars, mem, linebuf, quit_flag, err_cnt, at, historyVars>>

readline == TakeChars \/ Refill \/ EndOfFile

interpret_cmd ==
    \/ SkipLine \/ MallocFails \/ EventClosesLog
    \/ DoesNothing \/ Unknown \/ Operation
    \/ do_option_cmd \/ do_log_cmd \/ do_source_cmd \/ do_quit_cmd

ConsoleNext ==
    cmd_select \/ readline \/ interpret_cmd \/ finish_cmd \/ unblock_console

ConsoleFairness == WF_consoleVars(ConsoleNext)

ConsoleSpec == ConsoleInit /\ [][ConsoleNext]_consoleVars /\ ConsoleFairness

-----------------------------------------------------------------------------
(* The lines of a text, at most LineLimit words each: the one that begins  *)
(* at i ends with the text, at a newline, or when it is full.              *)
EndOfLine(text, i) ==
    CHOOSE n \in i..Len(text) :
        /\ n = Len(text) \/ text[n] = NL \/ n = i + LineLimit - 1
        /\ n <= i + LineLimit - 1
        /\ \A j \in i..(n - 1) : text[j] # NL

Line(text, i, n) == SubSeq(text, i, IF text[n] = NL THEN n - 1 ELSE n)

Lines(text) ==
    LET from[i \in 1..(Len(text) + 1)] ==
            IF i > Len(text) THEN <<>>
            ELSE LET n == EndOfLine(text, i)
                 IN  <<Line(text, i, n)>> \o from[n + 1]
    IN  from[1]

Text(f) == Lines(Content[f])

(* What is left of a file: in its buffer, then on the disk.                *)
Rest(i) == buf_stack[i].buf \o buf_stack[i].unread

Unexecuted ==
    LET depth == Len(buf_stack)
        partial == IF at = "readline" THEN linebuf ELSE <<>>
        current == IF at = "interpret" THEN <<linebuf>> ELSE <<>>
    IN  current \o FlattenSeq([i \in 1..depth |->
            Lines(IF i = 1 THEN partial \o Rest(1) ELSE Rest(i))])

S == INSTANCE Script WITH
    todo <- IF quit_flag \/ at \in {"exit", "undefined"} THEN <<>> ELSE Unexecuted

(* However the reads cut the files up, and however deep files source       *)
(* others, no line is lost, repeated or executed out of its place          *)
(* (readline, cmd_select, push_file, pop_file).                            *)
ImplementsScript == S!Spec

(* "Number of errors until exit" (console.c:103): no more commands than    *)
(* that fail, unless the option is set on the way, and the error count     *)
(* that the exit status shows is 0 exactly if none did.                    *)
ErrorsAreLimited ==
    /\ ~limit_set => failed <= ErrLimit
    /\ (err_cnt = 0) <=> (failed = 0)

(* Every block that the console holds is in one of its lists, every file   *)
(* on the stack has a descriptor of its own, and the other descriptors are *)
(* those that log opened, one for every time it did, which nothing closes. *)
(* At the end the lists and the files are given back, exactly, unless the  *)
(* limit of errors ended it: then nothing is (console.c:708-716).          *)
AllIsAccounted ==
    /\ BooksBalance(mem)
    /\ Outstanding(mem) = Cardinality(cmd_list) + Cardinality(param_list) + Len(buf_stack)
    /\ Outstanding(mem) = 0 <=> mem.current_bytes = 0
    /\ open = Reading \cup logs /\ Reading \cap logs = {}
    /\ Cardinality(Reading) = Len(buf_stack)
    /\ at = "done" => \/ Outstanding(mem) = 0 /\ open = logs
                      \/ err_cnt >= param.error

(* The console comes to its end whatever it is told to source, itself      *)
(* included, for want of descriptors (console.c:489).                      *)
ConsoleFinishes == <>(at \in {"done", "exit", "undefined"})

=============================================================================
