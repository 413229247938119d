------------------------------- MODULE CmdLine -------------------------------
(***************************************************************************)
(* cmps3620/code/lab6/s_sh.c: the command line.  getcmd() reads it byte by *)
(* byte, parse_cmdbuf() cuts it into tokens, "! num" repeats a line of the *)
(* history ring, and main() decides what becomes of it; expand_wcard()     *)
(* puts file names in the place of a wildcard, in cmdexp[], whose strings  *)
(* stay allocated from one command to the next.                            *)
(*                                                                         *)
(* A byte is a member of a small set of classes; the words of the internal *)
(* commands are left out: a line that gets past the tokens is executed, or *)
(* is internal, or fails, as it may.  Processes and proc[] are in Shell.   *)
(***************************************************************************)
EXTENDS Integers, SequencesExt

CONSTANTS
  MAX_LINEL,        \* size of cmdbuf[]
  MAX_ARGS,         \* size of cmd[] and cmdexp[]
  MAX_ARGLEN,       \* size of the copy of a token
  HISTORY_LINES,    \* lines kept in raw_cmdline[]
  Keyboards,        \* sequence of records [keys, max]: sequences of bytes the
                    \* user types, and the bound on how many of them
  Files             \* the names in the directory, in the order of readdir()

\* A byte is its class; "NULL" is no byte, but marks an empty place of cmdexp[].
Byte == STRING \ {"NULL"}

\* There is room for "! 1", as there is in the 64 arguments and 1024 bytes of
\* s_sh.c:274-276.
ASSUME CmdLineAssumption ==
  /\ {MAX_LINEL, MAX_ARGS, MAX_ARGLEN, HISTORY_LINES} \subseteq Nat \ {0, 1}
  /\ MAX_ARGS > 2 /\ MAX_ARGLEN + 2 < MAX_LINEL
  /\ Keyboards \in Seq([keys: SUBSET Seq(Byte), max: Nat])
  /\ Files \in Seq(Seq(Byte))

VARIABLES
  place,               \* prompt, getcmd() or main() with a parsed line, or exited
  keyboard,         \* what the user types from, an index of Keyboards
  typed,            \* number of keys typed
  input,            \* bytes typed and not yet read
  cmdbuf,           \* the line read so far
  last_cmd,         \* index in the history filled last
  command_num,      \* number of the current command
  history,          \* raw_cmdline[], num_cmdline[], pid_cmdline[]
  cmd,              \* what getcmd() returned
  cmdexp,           \* the strings of the last expansions, NULL where none
  executed,         \* the argument vector of the last external command
  lines             \* history: the line of each command number

histVars == <<last_cmd, command_num, history, lines>>
ttyVars == <<keyboard, typed, input>>
cmdVars == <<place, ttyVars, cmdbuf, histVars, cmd, cmdexp, executed>>

UNSUPPORT_ERR == -3
SYNTAX_ERR    == -2
EXEC_FAILED   == -1
INTERNAL      == 0
Pid           == 1                       \* any process id of a command

NUL     == "nul"
Blanks  == {"sp", "tab"}
Endings == {"cr", "lf"}
Erases  == {"bs", "del"}
Digits  == [d \in {"0", "1", "2", "3"} |->
              CASE d = "0" -> 0 [] d = "1" -> 1 [] d = "2" -> 2 [] d = "3" -> 3]
\* neither printing nor white: a control character or one above 126
Printing(c) == c \notin Blanks \cup {NUL, "ctl"}

Ring == 0 .. HISTORY_LINES - 1
NULL == <<"NULL">>

------------------------------------------------------------------------------
(* parse_cmdbuf()                                                           *)

\* cline[i], as C counts, with the '\0' behind the last byte.
At(line, i) == IF i < Len(line) THEN line[i + 1] ELSE NUL
Least(S) == CHOOSE k \in S : \A m \in S : k <= m
\* Mutant of Skip: a tab ends no token.
SkipSpaces(line, i) == Least({k \in i .. Len(line) : At(line, k) # "sp"})

Skip(line, i) == Least({k \in i .. Len(line) : At(line, k) \notin Blanks})

\* Whether the scan that entered position s with a quote open, or not, has one
\* open at position k.
Quotes(line, s, k) == {q \in s .. k - 1 : At(line, q) = "quote"}
InQuote(line, s, open, k) ==
  open # (Cardinality(Quotes(line, s, k)) % 2 = 1)

\* Where the scan of the token that starts at s stops.
TokenEnd(line, s, open) ==
  Least({k \in s .. Len(line) :
           \/ k - s = MAX_ARGLEN - 1
           \/ At(line, k) = NUL
           \/ /\ ~Printing(At(line, k))
              /\ ~(At(line, k) = "sp" /\ InQuote(line, s, open, k))})

\* Each opening quote moves the pointer on by one, each closing one becomes '\0'.
TokenText(line, s, e, open) ==
  LET quotes == Quotes(line, s, e)
      first  == s + Cardinality({q \in quotes : ~InQuote(line, s, open, q)})
      ends   == {q \in quotes : InQuote(line, s, open, q) /\ q >= first}
  IN  SubSeq(line, first + 1, Least(ends \cup {e}))

\* The token from s to e enters cmd[], where the '<' and '>' that redirect
\* and the first '*' are remembered by their index.
StoreToken(p, e, text, star) ==
  LET j == Len(p.argv)
      full == j = MAX_ARGS - 1
      isIn == p.inredir_j = 0 /\ text = <<"<">>
      isOut == p.outredir_j = 0 /\ text = <<">">>
  IN  [p EXCEPT !.i = e + 1,
                !.argv = IF full THEN @ ELSE Append(@, text),
                !.nowildcard = @ /\ ~star,
                !.wc_index = IF p.nowildcard /\ star THEN j ELSE @,
                !.in_redir = @ \/ isIn,
                !.inredir_j = IF isIn THEN j ELSE @,
                !.out_redir = @ \/ isOut,
                !.outredir_j = IF isOut THEN j ELSE @,
                !.done = full \/ At(p.line, e) = NUL]

TakeToken(p, s, e) ==
  StoreToken([p EXCEPT !.inquote = InQuote(p.line, s, @, e)], e,
             TokenText(p.line, s, e, p.inquote),
             \E k \in s .. e - 1 : At(p.line, k) = "*")

\* One turn of the while loop over the tokens, from s on.
ParseToken(p, s) ==
  IF At(p.line, s) = NUL THEN [p EXCEPT !.done = TRUE]
  ELSE TakeToken(p, s, TokenEnd(p.line, s, p.inquote))

Turn(p) ==
  IF p.done \/ At(p.line, p.i) = NUL \/ p.i >= MAX_LINEL - MAX_ARGLEN
  THEN p ELSE ParseToken(p, Skip(p.line, p.i))

\* The loop ends at the latest when cmd[] is full.
ParseTokens(p0) ==
  LET turn[n \in 0 .. MAX_ARGS] == IF n = 0 THEN p0 ELSE Turn(turn[n - 1])
  IN  turn[MAX_ARGS]

\* drop_arg(): -1 when there is no such argument; otherwise j-- .
drop_arg(r, index) ==
  IF index >= Len(r.argv) THEN [r EXCEPT !.count = -1]
  ELSE [r EXCEPT !.argv = RemoveAt(@, index + 1), !.count = @ - 1]

\* A '<' or '>' and its file; at index 0 there is none.
DropRedirection(r, index) == IF index = 0 THEN r ELSE drop_arg(drop_arg(r, index), index)

\* A redirection needs a target that is not the other redirection.
Target(argv, index, other) ==
  index + 1 < Len(argv) /\ argv[index + 2] # <<other>>

\* A quote left open or a redirection without a target is an error;
\* otherwise the redirections are dropped, the later of the two first.
Finish(p) ==
  LET r == [argv |-> p.argv, count |-> Len(p.argv), nowildcard |-> p.nowildcard,
            wc_index |-> p.wc_index, redirect |-> p.in_redir \/ p.out_redir]
  IN  IF \/ p.inquote
         \/ p.inredir_j > 0 /\ ~Target(p.argv, p.inredir_j, ">")
         \/ p.outredir_j > 0 /\ ~Target(p.argv, p.outredir_j, "<")
      THEN [r EXCEPT !.count = -1]
      ELSE IF p.inredir_j > p.outredir_j
      THEN DropRedirection(DropRedirection(r, p.inredir_j), p.outredir_j)
      ELSE DropRedirection(DropRedirection(r, p.outredir_j), p.inredir_j)

parse_cmdbuf(line) ==
  Finish(ParseTokens([line |-> line, i |-> 0, argv |-> <<>>, inquote |-> FALSE,
                      nowildcard |-> TRUE, wc_index |-> 0,
                      in_redir |-> FALSE, inredir_j |-> 0,
                      out_redir |-> FALSE, outredir_j |-> 0, done |-> FALSE]))

------------------------------------------------------------------------------
(* main() and getcmd()                                                      *)

NoCommand == [argv |-> <<>>, count |-> 0, nowildcard |-> TRUE, wc_index |-> 0,
              redirect |-> FALSE]

CmdInit ==
  /\ place = "prompt" /\ cmdbuf = <<>>
  /\ keyboard \in DOMAIN Keyboards /\ typed = 0 /\ input = <<>>
  /\ last_cmd = HISTORY_LINES - 1 /\ command_num = 0 /\ lines = <<>>
  /\ history = [i \in Ring |-> [raw |-> <<>>, num |-> 0, pid |-> 0]]
  /\ cmd = NoCommand
  /\ cmdexp = [k \in 0 .. MAX_ARGS - 1 |-> NULL]
  /\ executed = <<>>

\* Mutant of NextIndex: the ring does not go round.
NextIndexStuck == IF last_cmd + 1 >= HISTORY_LINES THEN last_cmd ELSE last_cmd + 1

NextIndex == IF last_cmd + 1 = HISTORY_LINES THEN 0 ELSE last_cmd + 1

\* The next line of the history belongs to the new command, which counts as
\* failed until it has been executed.
NextCommand ==
  /\ place = "prompt" /\ place' = "getcmd"
  /\ last_cmd' = NextIndex
  /\ command_num' = command_num + 1
  /\ history' = [history EXCEPT ![NextIndex].num = command_num + 1,
                                ![NextIndex].pid = EXEC_FAILED]
  /\ lines' = Append(lines, <<>>)
  /\ UNCHANGED <<ttyVars, cmdbuf, cmd, cmdexp, executed>>

\* The user types, whether or not somebody reads.
Strike(k) ==
  /\ place = "getcmd" /\ input = <<>> /\ typed < Keyboards[keyboard].max
  /\ input' = k
  /\ typed' = typed + 1
  /\ UNCHANGED <<place, keyboard, cmdbuf, histVars, cmd, cmdexp, executed>>

Reads(b) == place = "getcmd" /\ input # <<>> /\ b = Head(input) /\ input' = Tail(input)

LineFull == Len(cmdbuf) = MAX_LINEL - 1

\* A byte is read: '\0' is ignored, BS and DEL take the last byte back.  An
\* interrupted read() is repeated and the line kept.
Type(b) ==
  /\ Reads(b) /\ b \notin Endings /\ ~LineFull
  /\ cmdbuf' = CASE b = NUL -> cmdbuf
                 [] b \in Erases -> IF cmdbuf = <<>> THEN cmdbuf ELSE Front(cmdbuf)
                 [] OTHER -> Append(cmdbuf, b)
  /\ UNCHANGED <<place, keyboard, typed, histVars, cmd, cmdexp, executed>>

\* atoi(): 0 for what is not a number.
Atoi(word) ==
  LET n == Least({k \in 0 .. Len(word) : k = Len(word) \/ word[k + 1] \notin DOMAIN Digits})
      value[k \in 0 .. n] == IF k = 0 THEN 0 ELSE 10 * value[k - 1] + Digits[word[k]]
  IN  value[n]

\* Mutant of Repeatable: the command may name itself, or a later one.
RepeatableAny(cnum) == \E i \in Ring : history[i].num = cnum

Repeatable(cnum) ==
  cnum < command_num /\ \E i \in Ring : history[i].num = cnum

\* Mutant of Repeated: the index in the ring is taken for the number.
RepeatedByIndex(cnum) == history[cnum % HISTORY_LINES].raw

Repeated(cnum) == history[Least({i \in Ring : history[i].num = cnum})].raw

\* After "! num" the line that was run under that number takes the place of
\* the one typed; a number that cannot be repeated is an error.
Resolve(first, raw, found) ==
  /\ history' = [history EXCEPT ![last_cmd].raw = raw]
  /\ lines' = [lines EXCEPT ![command_num] = raw]
  /\ cmd' = IF found THEN parse_cmdbuf(raw) ELSE first

Repeat(first, cnum) ==
  IF Repeatable(cnum) THEN Resolve(first, Repeated(cnum), TRUE)
  ELSE Resolve([first EXCEPT !.count = -1], cmdbuf, FALSE)

Enter(first) ==
  IF first.count > 1 /\ first.argv[1] = <<"!">>
  THEN Repeat(first, Atoi(first.argv[2]))
  ELSE Resolve(first, cmdbuf, FALSE)

\* The line ends, or is full: then the byte just read is lost with it.
EnterLine(b) ==
  /\ Reads(b) /\ (b \in Endings \/ LineFull)
  /\ Enter(parse_cmdbuf(cmdbuf))
  /\ place' = "main"
  /\ cmdbuf' = <<>>
  /\ UNCHANGED <<keyboard, typed, last_cmd, command_num, cmdexp, executed>>

\* End of file on the standard input.
EndOfInput ==
  /\ place = "getcmd" /\ input = <<>> /\ place' = "exited"
  /\ UNCHANGED <<ttyVars, cmdbuf, histVars, cmd, cmdexp, executed>>

------------------------------------------------------------------------------
(* main(): what becomes of the line                                         *)

Outcome(status) ==
  /\ history' = [history EXCEPT ![last_cmd].pid = status]
  /\ place' = "prompt"
  /\ UNCHANGED <<ttyVars, cmdbuf, last_cmd, command_num, lines>>

EmptyLine == history[last_cmd].raw = <<>>

\* Just [CR]: the same command number is used again.
SkipEmpty ==
  /\ place = "main" /\ EmptyLine /\ place' = "getcmd"
  /\ UNCHANGED <<ttyVars, cmdbuf, histVars, cmd, cmdexp, executed>>

SyntaxError ==
  /\ place = "main" /\ ~EmptyLine /\ cmd.count < 1
  /\ Outcome(SYNTAX_ERR)
  /\ UNCHANGED <<cmd, cmdexp, executed>>

Good == place = "main" /\ ~EmptyLine /\ cmd.count >= 1

Redirected ==
  /\ Good /\ cmd.redirect
  /\ Outcome(UNSUPPORT_ERR)
  /\ UNCHANGED <<cmd, cmdexp, executed>>

\* A last token "&" is dropped; without a free slot in proc[] the command ends.
Background ==
  /\ Good /\ ~cmd.redirect /\ cmd.count > 1 /\ Last(cmd.argv) = <<"&">>
  /\ cmd' = drop_arg(cmd, cmd.count - 1)
  /\ UNCHANGED <<ttyVars, cmdbuf, last_cmd, command_num, lines, history,
                 cmdexp, executed>>
  /\ place' \in {"prompt", "command"}

Ready ==
  \/ place = "command"
  \/ Good /\ ~cmd.redirect /\ ~(cmd.count > 1 /\ Last(cmd.argv) = <<"&">>)

\* hist_internal(): from the entry after the newest round to the newest; of
\* those the ones that were filled are listed.
Looked(x) == IF last_cmd + x < HISTORY_LINES THEN last_cmd + x ELSE last_cmd + x - HISTORY_LINES
Filled == {x \in 1 .. HISTORY_LINES : history[Looked(x)].num > 0}
hist_internal == [x \in Filled |-> history[Looked(x)]]

\* help, history, cd, an assignment...; or a name that is not found, a failed
\* chdir() or fork().
NotExecuted ==
  /\ Ready
  /\ \E status \in {INTERNAL, EXEC_FAILED} : Outcome(status)
  /\ UNCHANGED <<cmd, cmdexp, executed>>

Execute ==
  /\ Ready /\ cmd.nowildcard
  /\ Outcome(Pid)
  /\ executed' = cmd.argv
  /\ UNCHANGED <<cmd, cmdexp>>

Vector(exp) ==
  LET n == Least({k \in DOMAIN exp : exp[k] = NULL}) IN [k \in 1 .. n |-> exp[k - 1]]

\* The ways to go through n numbers of a set, upwards.
Increasing(n, S) == {f \in [1 .. n -> S] : \A x, y \in 1 .. n : x < y => f[x] < f[y]}

\* The names that match, as many as there is room for.
Matched(matches, k) ==
  SubSeq(matches, 1, Least({Len(matches), MAX_ARGS - 1 - k}))

\* Mutant of CopyAfter: what an earlier expansion left there stays.
CopyNoClear(exp, k, after) ==
  [exp EXCEPT ![k] = IF after = <<>> \/ k = MAX_ARGS - 1 THEN NULL ELSE Last(after)]

\* Every argument behind the wildcard goes to the same place (k++ stands
\* behind the loop): the last one stays, and the place after it is cleared.
CopyAfter(exp, k, after) ==
  IF k = MAX_ARGS - 1 THEN [exp EXCEPT ![k] = NULL]
  ELSE [exp EXCEPT ![k] = IF after = <<>> THEN NULL ELSE Last(after), ![k + 1] = NULL]

Behind == SubSeq(cmd.argv, cmd.wc_index + 2, Len(cmd.argv))

CopyBefore ==
  [x \in DOMAIN cmdexp |-> IF x < cmd.wc_index THEN cmd.argv[x + 1] ELSE cmdexp[x]]

expand_wcard(names) ==
  LET k == cmd.wc_index + Len(names)
  IN  CopyAfter([x \in DOMAIN cmdexp |->
                   IF x \in cmd.wc_index .. k - 1 THEN names[x - cmd.wc_index + 1]
                   ELSE CopyBefore[x]], k, Behind)

Wild == Ready /\ ~cmd.nowildcard /\ cmd.wc_index > 0

\* The first token with a wildcard gives way to the names that match, as many
\* as there is room for.  Nothing is executed when there are none.
ExecuteWild ==
  /\ Wild /\ cmd.wc_index < Len(cmd.argv)
  /\ \E n \in 0 .. Len(Files) : \E at \in Increasing(n, DOMAIN Files) :
       LET names == Matched([x \in 1 .. n |-> Files[at[x]]], cmd.wc_index)
       IN  /\ cmdexp' = expand_wcard(names)
           /\ \/ Outcome(EXEC_FAILED) /\ UNCHANGED executed      \* or no fork()
              \/ names # <<>> /\ Outcome(Pid) /\ executed' = Vector(cmdexp')
           /\ UNCHANGED cmd

\* opendir() fails when the arguments before the wildcard have been copied.
NoDirectory ==
  /\ Wild /\ cmd.wc_index < Len(cmd.argv)
  /\ cmdexp' = CopyBefore
  /\ Outcome(EXEC_FAILED)
  /\ UNCHANGED <<cmd, executed>>

\* Undefined behaviour that ends the shell: the token with the wildcard was
\* the one too many for cmd[], so cmd[wc_index] is NULL; or the names fill
\* cmdexp[], and what stands behind its end is taken for a string to free.
ExpandOverrun ==
  /\ Wild
  /\ \/ cmd.wc_index >= Len(cmd.argv)
     \/ cmd.wc_index + Len(Files) >= MAX_ARGS - 1
  /\ place' = "crashed"
  /\ UNCHANGED <<ttyVars, cmdbuf, histVars, cmd, cmdexp, executed>>

CmdNext ==
  \/ NextCommand
  \/ \E k \in Keyboards[keyboard].keys : Strike(k)
  \/ \E b \in ToSet(input) : Type(b) \/ EnterLine(b)
  \/ EndOfInput
  \/ SkipEmpty \/ SyntaxError \/ Redirected \/ Background
  \/ NotExecuted \/ Execute \/ ExecuteWild \/ NoDirectory \/ ExpandOverrun

CmdSpec == CmdInit /\ [][CmdNext]_cmdVars

------------------------------------------------------------------------------
(* Properties                                                               *)

CmdTypes ==
  /\ place \in {"prompt", "getcmd", "main", "command", "exited", "crashed"}
  /\ Len(cmdbuf) < MAX_LINEL
  /\ last_cmd \in Ring /\ command_num \in Nat
  /\ cmd.count \in -1 .. MAX_ARGS - 1
  /\ Len(cmd.argv) < MAX_ARGS
  /\ DOMAIN cmdexp = 0 .. MAX_ARGS - 1
  /\ \A i \in Ring : history[i].pid \in {UNSUPPORT_ERR, SYNTAX_ERR, EXEC_FAILED,
                                         INTERNAL, Pid}

(* "history" shows the last HISTORY_LINES commands in their order, each     *)
(* with its own number and the line that was run under it, whatever "! num" *)
(* copied and however often the ring went round                             *)
(* (s_sh.c:500-505, 1479-1514, 1219-1255).                                  *)
HistoryRing ==
  place \in {"main", "command"} =>
    LET oldest == command_num - HISTORY_LINES
    IN  /\ Filled = {x \in 1 .. HISTORY_LINES : oldest + x > 0}
        /\ \A x \in Filled : /\ hist_internal[x].num = oldest + x
                              /\ hist_internal[x].raw = lines[oldest + x]

(* "! num" runs the very line that has that number: not another one, not    *)
(* itself (s_sh.c:1491-1514).                                               *)
RepeatIsOriginal ==
  [][\A b \in Endings, d \in {"1", "2", "3"} :
       EnterLine(b) /\ cmdbuf = <<"!", "sp", d>> /\ cmd'.count > 0 =>
         /\ Digits[d] < command_num
         /\ lines'[command_num] = lines[Digits[d]]]_cmdVars

(* The words of a line as the comment of getcmd() tells them: runs of bytes *)
(* between blanks, where a blank inside quotes does not count.              *)
Delimiter(line, k) == At(line, k) \in Blanks /\ ~InQuote(line, 0, FALSE, k)
Starts(line) == {k \in 0 .. Len(line) - 1 :
                   ~Delimiter(line, k) /\ (k = 0 \/ Delimiter(line, k - 1))}
EndOf(line, s) == Least({k \in s .. Len(line) : k = Len(line) \/ Delimiter(line, k)})
Word(line, s) == IF At(line, s) = "quote" THEN SubSeq(line, s + 2, EndOf(line, s) - 1)
                 ELSE SubSeq(line, s + 1, EndOf(line, s))
Words(line) == [s \in Starts(line) |-> Word(line, s)]

\* Lines within the limits, and quotes around whole words only.
Ordinary(line) ==
  /\ \A c \in ToSet(line) : c \in Blanks \/ Printing(c)
  /\ ~InQuote(line, 0, FALSE, Len(line))
  /\ \A s \in Starts(line) :
       LET e == EndOf(line, s)
       IN  /\ e - s < MAX_ARGLEN /\ s < MAX_LINEL - MAX_ARGLEN
           /\ \A q \in s .. e - 1 : At(line, q) = "quote" => q \in {s, e - 1}
           /\ \A q \in s .. e - 1 : At(line, q) # "tab"
  /\ Cardinality(Starts(line)) < MAX_ARGS

\* Where the first "<", the first ">" and the words behind them start.
Signs(words, sign) == {s \in DOMAIN words : /\ words[s] = <<sign>>
                                            /\ \A t \in DOMAIN words : t < s => words[t] # <<sign>>}
NextTo(words, s) == {t \in DOMAIN words : s < t /\ \A u \in DOMAIN words : u > s => t <= u}
Redirections(words) ==
  UNION {{s} \cup NextTo(words, s) : s \in Signs(words, "<") \cup Signs(words, ">")}

(* An ordinary line is cut into exactly its words, in order, quotes removed *)
(* and, when the line does not begin with one, redirections and their files *)
(* removed (s_sh.c:1580-1730 against the comments at 1383-1415, 1538-1564). *)
WordsOf(argv, line) ==
  LET words == Words(line)
      gone == Redirections(words)
      kept == DOMAIN words \ gone
  IN  Ordinary(line) /\ (\A s \in gone : \E t \in DOMAIN words : t < s) =>
        \E at \in Increasing(Len(argv), kept) :
          /\ kept = {at[x] : x \in 1 .. Len(argv)}
          /\ argv = [x \in 1 .. Len(argv) |-> words[at[x]]]
TokensAreWords ==
  place = "main" /\ cmd.count > 0 => WordsOf(cmd.argv, history[last_cmd].raw)

(* main() finds the last argument at cmd[count - 1], the NULL behind it and *)
(* no more than MAX_ARGS - 1 arguments: the count returned is the length of *)
(* the vector after every drop_arg() (s_sh.c:1635-1643, 1685-1730).         *)
CountIsLength ==
  place = "main" /\ cmd.count >= 0 => cmd.count = Len(cmd.argv)

(* The numbers of the history hold through every repetition.                *)
HistoryKept == []HistoryRing /\ RepeatIsOriginal

(* What getcmd() hands to main() is within its buffers and is the line.     *)
LineCut == CmdTypes /\ TokensAreWords /\ CountIsLength

(* What is executed in the place of a wildcard are the arguments before it, *)
(* names of the directory in their order, and at most the last argument     *)
(* behind it: nothing that an earlier command left in cmdexp[]              *)
(* (s_sh.c:1845-1988).                                                      *)
ExpansionFresh ==
  [][executed' # executed /\ ~cmd.nowildcard =>
       LET n == cmd.wc_index
           tail == SubSeq(executed', n + 1, Len(executed'))
       IN  /\ SubSeq(executed', 1, n) = SubSeq(cmd.argv, 1, n)
           /\ \E m \in 1 .. Len(Files) : \E at \in Increasing(m, DOMAIN Files) :
                LET names == [x \in 1 .. m |-> Files[at[x]]]
                IN  \/ tail = names
                    \/ Behind # <<>> /\ tail = Append(names, Last(Behind))]_cmdVars
=============================================================================
