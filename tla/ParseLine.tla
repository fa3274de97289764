----------------------------- MODULE ParseLine ------------------------------
(***************************************************************************)
(* The tiny shell's command-line parser, parseline of tsh_helper.c: it     *)
(* walks a copy of the line with a pointer and ends each word with a NUL   *)
(* in that copy; arguments and file names are pointers into it.  A pointer *)
(* is a position, 0 the null pointer.  One step per turn of its loop.      *)
(*                                                                         *)
(* Left out: a null command line (no caller passes one) and the messages.  *)
(* The four delimiters are one character, SP, and a builtin is a word of   *)
(* the set BuiltinWord.  The builtin of a line that is not parsed to its   *)
(* end is not set in the token; it is BUILTIN_NONE here, and no caller     *)
(* reads it.                                                               *)
(***************************************************************************)
EXTENDS Integers, Sequences, FiniteSets, FiniteSetsExt, SequencesExt

CONSTANTS
    SP, LT, GT, SQ, DQ, AMP,    \* white space, < > ' " and &
    Letter,                     \* all other characters
    NUL,
    BuiltinWord,                \* the names of builtins, as sequences
    MAXARGS, MAXLINE_TSH,
    MaxLine                     \* bound: characters of a command line

ASSUME ArgsAssumption ==
    /\ MAXARGS > 1 /\ MAXLINE_TSH > 0
    /\ \A name \in BuiltinWord : name # <<>> /\ name[1] # AMP

Char == {SP, LT, GT, SQ, DQ, AMP} \cup Letter

ASSUME CharAssumption ==
    NUL \notin Char /\ Cardinality(Char) = 6 + Cardinality(Letter)

CommandLine(length) == [1 .. length -> Char]

VARIABLES
    cmdline,        \* the command line
    tokenBuf,       \* token->_buf, of which 1 .. Len(tokenBuf) is used
    parsePos,       \* the pointer buf
    argv,           \* token->argv, and token->argc as its length
    infile, outfile,
    parsing_state,  \* ST_NORMAL, ST_INFILE or ST_OUTFILE
    builtin,        \* token->builtin
    parsed          \* what parseline returned, or PARSING

parseVars == <<cmdline, tokenBuf, parsePos, argv, infile, outfile,
               parsing_state, builtin, parsed>>

(* A builtin is its name, and none the empty one.                          *)
BUILTIN_NONE == <<>>

Minimum(a, b) == IF a < b THEN a ELSE b

(* strncpy, and the NUL that ends a line of MAXLINE_TSH - 1 characters.    *)
Copied(line) == Append(SubSeq(line, 1, Minimum(Len(line), MAXLINE_TSH - 1)), NUL)

StartParse(line) ==
    /\ cmdline = line
    /\ tokenBuf = Copied(line)
    /\ parsePos = 1
    /\ argv = <<>>
    /\ infile = 0 /\ outfile = 0
    /\ parsing_state = "ST_NORMAL"
    /\ builtin = BUILTIN_NONE
    /\ parsed = "PARSING"

endbuf == Len(tokenBuf)

(* The first position from p on that holds one of a set of characters; the *)
(* line's own NUL ends every search.                                       *)
FirstIn(p, chars) == Min({q \in p .. endbuf : tokenBuf[q] \in chars \cup {NUL}})

(* strspn over the delimiters.                                             *)
Skipped == IF parsePos >= endbuf THEN parsePos
           ELSE FirstIn(parsePos, Char \ {SP})

(* The string a pointer points to.                                         *)
StringAt(p) == SubSeq(tokenBuf, p, FirstIn(p, {}) - 1)

InLine == parsed = "PARSING" /\ Skipped < endbuf

At(chars) == tokenBuf[Skipped] \in chars

ParseError ==
    /\ parsed' = "PARSELINE_ERROR"
    /\ UNCHANGED <<cmdline, tokenBuf, parsePos, argv, infile, outfile,
                   parsing_state, builtin>>

-----------------------------------------------------------------------------
(* "<" or ">": the next word is a file, unless the file is there already.  *)
Redirect(char, file, state) ==
    /\ InLine /\ At({char})
    /\ IF file # 0 THEN ParseError
       ELSE /\ parsing_state' = state
            /\ parsePos' = Skipped + 1
            /\ UNCHANGED <<cmdline, tokenBuf, argv, infile, outfile, builtin,
                           parsed>>

(* A bug: the word after a redirection does not end it.                    *)
Record_StaysInState(start) ==
    /\ argv' = IF parsing_state = "ST_NORMAL" THEN Append(argv, start) ELSE argv
    /\ infile' = IF parsing_state = "ST_INFILE" THEN start ELSE infile
    /\ outfile' = IF parsing_state = "ST_OUTFILE" THEN start ELSE outfile
    /\ UNCHANGED parsing_state

(* The word becomes the next argument or the awaited file.                 *)
Record(start) ==
    /\ argv' = IF parsing_state = "ST_NORMAL" THEN Append(argv, start) ELSE argv
    /\ infile' = IF parsing_state = "ST_INFILE" THEN start ELSE infile
    /\ outfile' = IF parsing_state = "ST_OUTFILE" THEN start ELSE outfile
    /\ parsing_state' = "ST_NORMAL"

(* The loop goes on behind the NUL; a full argv ends it, whatever follows. *)
TakeWord(start, next) ==
    /\ tokenBuf' = [tokenBuf EXCEPT ![next] = NUL]
    /\ Record(start)
    /\ parsePos' = IF Len(argv') >= MAXARGS - 1 THEN endbuf ELSE next + 1
    /\ UNCHANGED <<cmdline, builtin, parsed>>

QuotedWord ==
    LET start == Skipped + 1
        next == FirstIn(start, {tokenBuf[Skipped]})
    IN /\ InLine /\ At({SQ, DQ})
       /\ IF next = endbuf THEN ParseError ELSE TakeWord(start, next)

PlainWord ==
    /\ InLine /\ ~ At({LT, GT, SQ, DQ})
    /\ TakeWord(Skipped, FirstIn(Skipped, {SP}))

(* After the loop: a missing file name, a blank line, and what argv tells. *)
Conclude ==
    /\ parsed = "PARSING" /\ Skipped >= endbuf
    /\ IF parsing_state # "ST_NORMAL" THEN ParseError
       ELSE IF argv = <<>>
       THEN /\ parsed' = "PARSELINE_EMPTY"
            /\ UNCHANGED <<argv, builtin, parsing_state>>
       ELSE /\ builtin' = IF StringAt(argv[1]) \in BuiltinWord
                          THEN StringAt(argv[1]) ELSE BUILTIN_NONE
            /\ IF tokenBuf[argv[Len(argv)]] = AMP
               THEN /\ parsed' = "PARSELINE_BG"
                    /\ argv' = SubSeq(argv, 1, Len(argv) - 1)
               ELSE /\ parsed' = "PARSELINE_FG"
                    /\ UNCHANGED argv
            /\ UNCHANGED parsing_state
    /\ UNCHANGED <<cmdline, tokenBuf, parsePos, infile, outfile>>

ParseNext ==
    \/ Redirect(LT, infile, "ST_INFILE")
    \/ Redirect(GT, outfile, "ST_OUTFILE")
    \/ QuotedWord
    \/ PlainWord
    \/ Conclude

-----------------------------------------------------------------------------
(* What a line says, without pointers: its items, each an operator, a word *)
(* with its text, in quotes or not, or a quote without its other half.     *)
Said == SubSeq(cmdline, 1, Minimum(Len(cmdline), MAXLINE_TSH - 1))

(* The end of the word that starts at p: the first of a set of characters  *)
(* behind it, or the end of the line.                                      *)
EndOf(p, chars) ==
    Min({q \in p .. Len(Said) : Said[q] \in chars} \cup {Len(Said) + 1})

WordItem(first, behind, inQuotes) ==
    <<[text |-> SubSeq(Said, first, behind - 1), quoted |-> inQuotes]>>

ItemsFrom ==
    LET Items[p \in 1 .. Len(Said) + 2] ==
          IF p > Len(Said) THEN <<>>
          ELSE LET c == Said[p]
                   close == EndOf(p + 1, {c})
                   space == EndOf(p, {SP})
               IN CASE c = SP -> Items[p + 1]
                    [] c \in {LT, GT} -> <<[op |-> c]>> \o Items[p + 1]
                    [] c \in {SQ, DQ} /\ close > Len(Said) -> <<[unmatched |-> c]>>
                    [] c \in {SQ, DQ} /\ close <= Len(Said) ->
                         WordItem(p + 1, close, TRUE) \o Items[close + 1]
                    [] OTHER -> WordItem(p, space, FALSE) \o Items[space + 1]
    IN Items[1]

Has(items, k, field) == k \in 1 .. Len(items) /\ field \in DOMAIN items[k]

(* A word right behind an operator names a file.                           *)
IsFile(items, k) == Has(items, k, "text") /\ Has(items, k - 1, "op")

Ampersand == [text |-> <<AMP>>, quoted |-> FALSE]

(* The parse of a sequence of items as the header describes it: the words  *)
(* that are no files are the arguments, but for an & of its own at the     *)
(* end, by which the user asks for a background job.                       *)
Meaning(items) ==
    LET all == 1 .. Len(items)
        sign == items # <<>> /\ Last(items) = Ampersand
                /\ ~ IsFile(items, Len(items))
        args == {k \in all : /\ Has(items, k, "text") /\ ~ IsFile(items, k)
                             /\ sign => k # Len(items)}
        given == [n \in 1 .. Cardinality(args) |->
                    items[CHOOSE k \in args :
                            Cardinality({j \in args : j <= k}) = n].text]
        Files(c) == {k \in all : IsFile(items, k) /\ items[k - 1].op = c}
        Name(c) == IF Files(c) = {} THEN <<>> ELSE <<items[Min(Files(c))].text>>
        wrong == \E k \in all :
                   \/ Has(items, k, "unmatched")
                   \/ /\ Has(items, k, "op")
                      /\ k = Len(items) \/ \E j \in Files(items[k].op) : j < k
    IN IF wrong THEN [returns |-> "PARSELINE_ERROR"]
       ELSE [returns |-> CASE sign -> "PARSELINE_BG"
                           [] ~ sign /\ args = {} -> "PARSELINE_EMPTY"
                           [] ~ sign /\ args # {} -> "PARSELINE_FG",
             args |-> given, in |-> Name(LT), out |-> Name(GT),
             runs |-> IF args # {} /\ given[1] \in BuiltinWord
                      THEN given[1] ELSE BUILTIN_NONE]

(* Where the code reads the line in a way of its own: nothing is read      *)
(* behind argument MAXARGS - 1, with an & counted as one; and the last of  *)
(* the arguments is the &, wherever it stands, if its first character is   *)
(* one, in quotes or not and whatever follows it in the word.              *)
AsRead(items) ==
    LET ArgsTo(k) == {j \in 1 .. k : Has(items, j, "text") /\ ~ IsFile(items, j)}
        full == {k \in 1 .. Len(items) : Cardinality(ArgsTo(k)) = MAXARGS - 1}
        cut == Min(full \cup {Len(items)})
        last == Max(ArgsTo(cut) \cup {0})
        background == /\ last # 0 /\ items[last].text # <<>>
                      /\ items[last].text[1] = AMP
                      /\ ~ Has(items, cut, "op")
    IN IF background
       THEN Append(RemoveAt(SubSeq(items, 1, cut), last), Ampersand)
       ELSE SubSeq(items, 1, cut)

(* The lines that the header's form covers:                                *)
(*     command [arguments...] [< infile] [> outfile] [&]                   *)
(* with words in quotes or of letters only, and at most MAXARGS of them.   *)
Documented(items) ==
    LET Kind(item) ==
          CASE "op" \in DOMAIN item -> item.op
            [] "unmatched" \in DOMAIN item -> "other"
            [] "text" \in DOMAIN item ->
                 CASE item = Ampersand -> "&"
                   [] item.quoted \/ ToSet(item.text) \subseteq Letter -> "word"
                   [] OTHER -> "other"
        Words == {[i \in 1 .. n |-> "word"] : n \in 1 .. MAXARGS}
    IN \E command \in Words, from \in {<<>>, <<LT, "word">>},
          to \in {<<>>, <<GT, "word">>}, sign \in {<<>>, <<"&">>} :
            [k \in 1 .. Len(items) |-> Kind(items[k])]
                = command \o from \o to \o sign

(* What the caller finds in the token: the strings its pointers lead to.   *)
Found ==
    LET Name(p) == IF p = 0 THEN <<>> ELSE <<StringAt(p)>>
    IN IF parsed = "PARSELINE_ERROR" THEN [returns |-> parsed]
       ELSE [returns |-> parsed,
             args |-> [n \in 1 .. Len(argv) |-> StringAt(argv[n])],
             in |-> Name(infile), out |-> Name(outfile),
             runs |-> builtin]

(* Whatever the order of words, quotes and redirections, the strings that  *)
(* the pointers lead to once all NULs are written, and the return value,   *)
(* are what the line says, but for the two departures that AsRead names    *)
(* (tsh_helper.c:42-178).                                                  *)
ParsedAsWritten ==
    parsed # "PARSING" => Found = Meaning(AsRead(ItemsFrom))

(* A line of the documented form means what the header says of it: what is *)
(* in quotes is an argument, and MAXARGS arguments are parsed              *)
(* (tsh_helper.h:93-99).                                                   *)
ParsedAsDocumented ==
    parsed # "PARSING" /\ Documented(ItemsFrom) => Found = Meaning(ItemsFrom)

=============================================================================
