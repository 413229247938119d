--------------------------------- MODULE GStdio ---------------------------------
(***************************************************************************)
(* cmps3620/code/lab6/g_stdio.c: buffered streams over open, read, write,  *)
(* lseek and close.                                                        *)
(*                                                                         *)
(* A stream is one slot of g_iob[].  Its record has the fields of G_FILE,  *)
(* with base as "is there a buffer", ptr as an offset from base, and buf   *)
(* for what the buffer holds; name and off stand for the descriptor fd:    *)
(* the file it is open on and the kernel's offset in it.                   *)
(*                                                                         *)
(* The program is one thread, so a call is one action, except that the     *)
(* calls with a loop (g_gets, g_read, g_puts, g_profflush) take one step   *)
(* per turn.  What the kernel refuses is a choice: malloc(), read(),       *)
(* write() (all of it or the end of it) and lseek() may fail, a bounded    *)
(* number of times; read() from a terminal may return less than asked for. *)
(* g_profile() and its log are left out but for the registration of        *)
(* g_profflush(); an open, a seek or a close that fails is what g_open(),  *)
(* g_seek() and g_close() make of it.                                      *)
(*                                                                         *)
(* The caller uses a stream for what it was opened for, and has a file     *)
(* open once.                                                              *)
(***************************************************************************)
EXTENDS Integers, Sequences

CONSTANTS
  OpenMax,        \* G_OPEN_MAX
  BufSiz,         \* G_BUFSIZ
  Names,          \* the files, those of the three standard streams included
  Files,          \* those of them the program opens
  In, Out, Err,   \* what stdin, stdout and stderr are open on
  Terminals,      \* those that cannot seek and hand out what has been typed
  StartFile,      \* what is in each file at the start
  NoFile,         \* no such file; not open on a file
  Newline,        \* the byte that ends a line
  Offsets,        \* the offsets the caller gives g_seek
  Programs,       \* bounds: the slots a caller uses, how it opens, how many
                  \* characters it puts, how often the kernel refuses something
  MaxBeyond,      \* bound: how far behind the end of a file a seek may go
  MaxBase,        \* bound: how far the baseposition of a stream in error drifts
  MaxGets,        \* bound: the largest size given to g_gets
  MaxRead         \* bound: the most bytes asked of one g_read

ASSUME ConstantsAssumption ==
  /\ OpenMax \in Nat /\ OpenMax >= 3
  /\ BufSiz \in Nat \ {0}
  /\ {In, Out, Err} \subseteq Names /\ In # Out /\ In # Err /\ Out # Err
  /\ Files \subseteq Names /\ Terminals \subseteq Names
  /\ NoFile \notin Names /\ NoFile # <<>>
  /\ StartFile \in [Names -> Seq(Nat) \cup {NoFile}]
  /\ StartFile[In] # NoFile /\ StartFile[Out] = <<>> /\ StartFile[Err] = <<>>
  /\ Programs \subseteq [slots: SUBSET (0 .. OpenMax - 1), modes: SUBSET {"r", "w", "a"},
                          puts: Nat, troubles: Nat]
  /\ Offsets \subseteq Int
  /\ Newline \in Nat
  /\ {MaxBeyond, MaxBase, MaxGets, MaxRead} \subseteq Nat

EOF == -1

Slots  == 0 .. OpenMax - 1
stdin  == 0
stdout == 1
stderr == 2

VARIABLES
  iob,          \* g_iob[]
  file,         \* what is in each file
  call,         \* the call whose loop is running, or the one that returned
  last,         \* slot and value of the last character got or put
  program,      \* the caller
  puts,         \* how many characters the caller has put
  trouble,      \* the streams for which the kernel has refused something
  troubles      \* how often

vars == <<iob, file, call, last, program, puts, trouble, troubles>>

(* The baseposition an unused slot keeps from its last stream, or gets from  *)
(* a g_open() that fails, is read by no one: it is 0 here.                  *)
Free == [flag |-> {}, base |-> FALSE, buf |-> <<>>, ptr |-> 0, cnt |-> 0,
         baseposition |-> 0, name |-> NoFile, off |-> 0]

Opened(n, flags, at) ==
  [Free EXCEPT !.flag = flags, !.name = n, !.baseposition = at, !.off = at]

Idle == [op |-> "idle", slot |-> 0, left |-> 0, size |-> 0, want |-> 0,
         str |-> <<>>, start |-> 0]

Init ==
  /\ iob = [s \in Slots |-> CASE s = stdin  -> Opened(In, {"READ"}, 0)
                              [] s = stdout -> Opened(Out, {"WRITE"}, 0)
                              [] s = stderr -> Opened(Err, {"WRITE", "UNBUF"}, 0)
                              [] OTHER      -> Free]
  /\ file = StartFile
  /\ call = Idle
  /\ last = <<stdin, 0>>
  /\ program \in Programs
  /\ puts = 0
  /\ trouble = {}
  /\ troubles = 0

Reads(s)  == "READ" \in iob[s].flag
Writes(s) == "WRITE" \in iob[s].flag

-------------------------------------------------------------------------------
(* One call on one stream: what may become of it.                          *)
(*   g    the stream afterwards                                             *)
(*   out  what write() put at the kernel's offset                           *)
(*   ret  what the call returns                                             *)
(*   bad  the kernel refused something                                      *)

Result(g, out, ret, bad) == [g |-> g, out |-> out, ret |-> ret, bad |-> bad]

bufsize(g) == IF "UNBUF" \in g.flag THEN 1 ELSE BufSiz

Emptied(g) == [g EXCEPT !.buf = <<>>, !.ptr = 0]

(* *(gp->ptr) = khar, and one step on. *)
Store(g, khar) ==
  [g EXCEPT !.buf = Append(SubSeq(@, 1, g.ptr), khar), !.ptr = @ + 1, !.cnt = @ - 1]

Take(g) == [g EXCEPT !.ptr = @ + 1, !.cnt = @ - 1]

(* read(): how many bytes it gets, all that fits and that there is, from a   *)
(* terminal also less.                                                       *)
ReadSizes(g) == LET there == Len(file[g.name]) - g.off
                    most  == IF there < bufsize(g) THEN there ELSE bufsize(g)
                IN  {k \in 1 .. most : g.name \in Terminals \/ k = most}

Got(g, k) ==
  [g EXCEPT !.buf = SubSeq(file[g.name], g.off + 1, g.off + k), !.cnt = k,
            !.ptr = 0, !.off = @ + k]

g_fillbuf(g) ==
  IF g.flag \cap {"READ", "EOF", "ERR"} # {"READ"}
  THEN {Result(g, <<>>, EOF, FALSE)}
  ELSE LET b == [Emptied(g) EXCEPT !.base = TRUE] IN
       (IF g.base THEN {} ELSE {Result(g, <<>>, EOF, TRUE)})
       \cup {Result([b EXCEPT !.flag = @ \cup {"ERR"}, !.cnt = 0], <<>>, EOF, TRUE)}
       \cup IF ReadSizes(g) = {}
            THEN {Result([b EXCEPT !.flag = @ \cup {"EOF"}, !.cnt = -1],
                         <<>>, EOF, FALSE)}
            ELSE {LET r == Got(b, k) IN Result(Take(r), <<>>, r.buf[1], FALSE) :
                  k \in ReadSizes(g)}

(* A wrong variant: it is left to g_fillbuf(), which leaves it alone. *)
BasepositionForgotten(g) == g
(* baseposition is moved past what was read before the buffer is filled. *)
PastBuffer(g) == [g EXCEPT !.baseposition = @ + g.ptr]

g_getc(g) ==
  IF g.cnt > 0 THEN {Result(Take(g), <<>>, g.buf[g.ptr + 1], FALSE)}
               ELSE g_fillbuf(PastBuffer(g))

(* The buffer is on the disk and is empty again. *)
WrittenOut(g, n) ==
  [Emptied(g) EXCEPT !.cnt = bufsize(g), !.baseposition = @ + n, !.off = @ + n]

(* write() failed, or k of the bytes were written: the buffer is given up. *)
GivenUp(g, k) ==
  [Emptied(g) EXCEPT !.cnt = 0, !.off = @ + k, !.flag = @ \cup {"ERR"}]

g_flushbuf(more, g) ==
  IF g.flag \cap {"WRITE", "EOF", "ERR"} # {"WRITE"}
  THEN {Result(g, <<>>, EOF, FALSE)}
  ELSE LET b == IF g.base THEN g ELSE [g EXCEPT !.base = TRUE, !.cnt = bufsize(g)]
           n == bufsize(g) - b.cnt
           w == WrittenOut(b, n)
       IN  (IF g.base THEN {} ELSE {Result(g, <<>>, EOF, TRUE)})
           \cup {Result(IF more >= 0 THEN Store(w, more) ELSE w,
                        SubSeq(b.buf, 1, n), 0, FALSE)}
           \cup {Result(GivenUp(b, k), SubSeq(b.buf, 1, k), EOF, TRUE) : k \in 0 .. n - 1}

g_putc(khar, g) ==
  IF g.cnt > 0
  THEN {Result(Store(g, khar), <<>>, khar, FALSE)}
  ELSE {[r EXCEPT !.ret = IF @ < 0 THEN EOF ELSE khar] : r \in g_flushbuf(khar, g)}

Rewound(g) ==
  [Emptied(g) EXCEPT !.flag = @ \ {"EOF"}, !.baseposition = 0, !.cnt = 0, !.off = 0]

InBuffer(g, desired) ==
  desired >= g.baseposition /\ desired < g.baseposition + g.ptr + g.cnt

SeekError(g) == Result([g EXCEPT !.flag = @ \cup {"ERR"}], <<>>, EOF, TRUE)

(* In the buffer the pointer moves; elsewhere the kernel's offset does and  *)
(* the buffer is empty.  lseek() refuses a position before the start, and   *)
(* any position in a terminal.                                              *)
Moved(g, desired) ==
  LET diff == desired - (g.baseposition + g.ptr) IN
  IF InBuffer(g, desired)
  THEN {Result([g EXCEPT !.ptr = @ + diff, !.cnt = @ - diff], <<>>, 0, FALSE)}
  ELSE {SeekError(g)}
       \cup IF desired < 0 \/ g.name \in Terminals THEN {}
            ELSE {Result([Emptied(g) EXCEPT !.cnt = 0, !.baseposition = desired,
                                            !.off = desired], <<>>, 0, FALSE)}

Desired(g, offset, whence) ==
  IF whence = "CUR" THEN g.baseposition + g.ptr + offset ELSE offset

g_seek(g, offset, whence) ==
  IF g.flag \cap {"READ", "ERR"} # {"READ"} THEN {Result(g, <<>>, EOF, FALSE)}
  ELSE IF "EOF" \in g.flag
  THEN {SeekError(g)}
       \cup IF g.name \in Terminals THEN {}
            ELSE Moved(Rewound(g), Desired(Rewound(g), offset, whence))
  ELSE Moved(g, Desired(g, offset, whence))

(* A wrong variant: a full buffer (cnt = 0) is taken for an empty one. *)
NotFlushedWithRoom(g) == "WRITE" \in g.flag /\ g.base /\ g.cnt > 0 /\ g.ptr # 0
NotFlushed(g) == "WRITE" \in g.flag /\ g.base /\ g.ptr # 0

(* ' ' is a dummy that stays in the buffer, which is then freed. *)
g_close(g) ==
  {[r EXCEPT !.g = Free] :
   r \in IF NotFlushed(g) THEN g_flushbuf(32, g) ELSE {Result(g, <<>>, 0, FALSE)}}

-------------------------------------------------------------------------------
(* The calls as steps of the program. *)

WriteAt(fs, g, bytes) ==
  IF bytes = <<>> THEN fs
  ELSE [fs EXCEPT ![g.name] = SubSeq(@, 1, g.off) \o bytes
                              \o SubSeq(@, g.off + Len(bytes) + 1, Len(@))]

(* What is read from stdin first flushes stdout. *)
NoSync  == Result(iob[stdout], <<>>, 0, FALSE)
Sync(s) == IF s = stdin THEN g_flushbuf(-1, iob[stdout]) ELSE {NoSync}

(* r becomes of slot s, f of stdout. *)
Do(s, r, f) ==
  LET refused == (IF r.bad THEN {s} ELSE {}) \cup (IF f.bad THEN {stdout} ELSE {}) IN
  /\ iob' = [iob EXCEPT ![stdout] = f.g, ![s] = r.g]
  /\ file' = WriteAt(WriteAt(file, iob[stdout], f.out), iob[s], r.out)
  /\ trouble' = trouble \cup refused
  /\ troubles' = troubles + (IF r.bad THEN 1 ELSE 0) + (IF f.bad THEN 1 ELSE 0)
  /\ troubles' <= program.troubles /\ iob'[s].baseposition <= MaxBase

Nothing(s) == Result(iob[s], <<>>, 0, FALSE)
Ready      == call.op = "idle"

(* How far the caller has got: the kernel is ahead by what is unread. *)
Tell(s) == iob[s].off - (IF iob[s].cnt < 0 THEN 0 ELSE iob[s].cnt)

FreeSlot(s) == /\ ~Reads(s) /\ ~Writes(s)
               /\ \A t \in Slots : t < s => Reads(t) \/ Writes(t)

(* A g_open() that fails, for want of a slot, the file or a descriptor, is  *)
(* no step.                                                                 *)
Open(s, n, m) ==
  /\ Ready /\ FreeSlot(s)
  /\ \A t \in Slots : iob[t].name # n
  /\ m = "r" => file[n] # NoFile
  /\ file' = [file EXCEPT ![n] = IF m = "w" \/ @ = NoFile THEN <<>> ELSE @]
  /\ iob' = [iob EXCEPT ![s] = Opened(n, IF m = "r" THEN {"READ"} ELSE {"WRITE"},
                                      IF m = "a" THEN Len(file'[n]) ELSE 0)]
  /\ trouble' = trouble \ {s}
  /\ UNCHANGED <<call, last, program, puts, troubles>>

Getc(s) ==
  /\ Ready /\ Reads(s)
  /\ \E r \in g_getc(iob[s]), f \in Sync(s) : Do(s, r, f) /\ last' = <<s, r.ret>>
  /\ UNCHANGED <<call, program, puts>>

Putc(s) ==
  /\ Ready /\ Writes(s) /\ puts < program.puts
  /\ puts' = puts + 1
  /\ \E r \in g_putc(puts', iob[s]) : Do(s, r, NoSync) /\ last' = <<s, r.ret>>
  /\ UNCHANGED <<call, program>>

Flush(s) ==
  /\ Ready /\ Writes(s)
  /\ \E r \in g_flushbuf(-1, iob[s]) : Do(s, r, NoSync)
  /\ UNCHANGED <<call, last, program, puts>>

Seek(s, offset, whence) ==
  /\ Ready /\ Reads(s)
  /\ Desired(iob[s], offset, whence) <= Len(file[iob[s].name]) + MaxBeyond
  /\ \E r \in g_seek(iob[s], offset, whence) : Do(s, r, NoSync)
  /\ UNCHANGED <<call, last, program, puts>>

(* g_close() returns what close() does, whatever became of the flush. *)
Close(s) ==
  /\ Ready /\ (Reads(s) \/ Writes(s))
  /\ \E r \in g_close(iob[s]) : Do(s, r, NoSync)
  /\ UNCHANGED <<call, last, program, puts>>

Begin(op, s, size, left) ==
  call' = [op |-> op, slot |-> s, left |-> left, size |-> size, want |-> left,
           str |-> <<>>, start |-> Tell(s)]

Gets(s, maximum) ==
  /\ Ready /\ Reads(s)
  /\ \E f \in Sync(s) : Do(s, Nothing(s), f)
  /\ Begin("gets", s, maximum, maximum)
  /\ UNCHANGED <<last, program, puts>>

(* A wrong variant: while (maximum-- > 0 ...). *)
OneTooMany(maximum) == maximum > 0
(* while (--maximum > 0 && (khar = g_getc(gp)) != EOF), up to a newline. *)
OneMore(maximum) == maximum - 1 > 0

GetsTurn ==
  LET s == call.slot IN
  /\ call.op = "gets"
  /\ IF ~OneMore(call.left)
     THEN /\ call' = [call EXCEPT !.op = "line", !.left = @ - 1]
          /\ UNCHANGED <<iob, file, last, trouble, troubles>>
     ELSE \E r \in g_getc(iob[s]), f \in Sync(s) :
          /\ Do(s, r, f) /\ last' = <<s, r.ret>>
          /\ call' = IF r.ret \in {EOF, Newline}
                     THEN [call EXCEPT !.op = "line", !.left = @ - 1]
                     ELSE [call EXCEPT !.left = @ - 1, !.str = Append(@, r.ret)]
  /\ UNCHANGED <<program, puts>>

Read(s, itemsize, numitems) ==
  /\ Ready /\ Reads(s)
  /\ \E f \in Sync(s) : Do(s, Nothing(s), f)
  /\ Begin("read", s, itemsize, itemsize * numitems)
  /\ UNCHANGED <<last, program, puts>>

Items(str, itemsize) == Len(str) \div itemsize

(* left is the bytes still wanted of want, and at the end the number of     *)
(* items that is returned.                                                  *)
ReadTurn ==
  LET s == call.slot IN
  /\ call.op = "read"
  /\ IF call.left = 0
     THEN /\ call' = [call EXCEPT !.op = "items", !.left = Items(call.str, call.size)]
          /\ UNCHANGED <<iob, file, last, trouble, troubles>>
     ELSE \E r \in g_getc(iob[s]) :
          /\ Do(s, r, NoSync) /\ last' = <<s, r.ret>>
          /\ call' = IF r.ret = EOF
                     THEN [call EXCEPT !.op = "items", !.left = 0]
                     ELSE [call EXCEPT !.left = @ - 1, !.str = Append(@, r.ret)]
  /\ UNCHANGED <<program, puts>>

Returns ==
  /\ call.op \in {"line", "items"}
  /\ call' = Idle
  /\ UNCHANGED <<iob, file, last, program, puts, trouble, troubles>>

Puts(s, len) ==
  /\ Ready /\ Writes(s) /\ puts + len <= program.puts
  /\ call' = [Idle EXCEPT !.op = "puts", !.slot = s, !.left = len]
  /\ UNCHANGED <<iob, file, last, program, puts, trouble, troubles>>

(* g_puts() does not look at what g_putc() returns. *)
PutsTurn ==
  LET s == call.slot IN
  /\ call.op = "puts"
  /\ puts' = puts + 1
  /\ \E r \in g_putc(puts', iob[s]) : Do(s, r, NoSync) /\ last' = <<s, r.ret>>
  /\ call' = IF call.left = 1 THEN Idle ELSE [call EXCEPT !.left = @ - 1]
  /\ UNCHANGED program

(* exit() runs g_profflush() if the program has called g_profile() with      *)
(* G_PROFILE_START, which registers it; whether it has is chosen here.       *)
Exit ==
  /\ Ready
  /\ \E op \in {"profflush", "exited"} : call' = [Idle EXCEPT !.op = op]
  /\ UNCHANGED <<iob, file, last, program, puts, trouble, troubles>>

(* slot is the i of the loop of g_profflush(). *)
HasRoom(g)    == g.cnt > 0
ToBeFlushed(g) == g.flag \cap {"WRITE", "ERR"} = {"WRITE"} /\ HasRoom(g)

ProfflushTurn ==
  LET s == call.slot IN
  /\ call.op = "profflush"
  /\ \E r \in IF ToBeFlushed(iob[s]) THEN g_flushbuf(-1, iob[s]) ELSE {Nothing(s)} :
       Do(s, r, NoSync)
  /\ call' = IF s = OpenMax - 1 THEN [call EXCEPT !.op = "flushed"]
                                ELSE [call EXCEPT !.slot = s + 1]
  /\ UNCHANGED <<last, program, puts>>

Next ==
  \/ \E s \in program.slots :
       \/ Getc(s) \/ Putc(s) \/ Flush(s) \/ Close(s)
       \/ \E n \in Files, m \in program.modes : Open(s, n, m)
       \/ \E o \in Offsets, w \in {"SET", "CUR"} : Seek(s, o, w)
       \/ \E max \in 1 .. MaxGets : Gets(s, max)
       \/ \E z, n \in 1 .. MaxRead : z * n <= MaxRead /\ Read(s, z, n)
       \/ \E len \in 1 .. program.puts : Puts(s, len)
  \/ GetsTurn \/ ReadTurn \/ Returns \/ PutsTurn
  \/ Exit \/ ProfflushTurn

Spec == Init /\ [][Next]_vars

-------------------------------------------------------------------------------
Records ==
  [flag: SUBSET {"READ", "WRITE", "UNBUF", "EOF", "ERR"}, base: BOOLEAN, buf: Seq(Nat),
   ptr: Nat, cnt: Int, baseposition: Int, name: Names \cup {NoFile}, off: Nat]

Ops == {"idle", "gets", "line", "read", "items", "puts", "profflush", "flushed", "exited"}

(* The types of the variables, with the bounds a count and a pointer have:  *)
(* neither leaves the buffer.                                               *)
TypeOK ==
  /\ iob \in [Slots -> Records]
  /\ \A s \in Slots : LET g == iob[s] IN
       /\ g.cnt \in -1 .. BufSiz /\ g.ptr \in 0 .. BufSiz
       /\ g.ptr + g.cnt <= bufsize(g)
       /\ g.cnt # 0 \/ g.ptr # 0 => g.base
  /\ file \in [Names -> Seq(Nat) \cup {NoFile}]
  /\ call \in [op: Ops, slot: Slots, left: Int, size: Nat, want: Int, str: Seq(Nat), start: Int]
  /\ last \in Slots \X Int
  /\ program \in Programs
  /\ puts \in 0 .. program.puts
  /\ trouble \subseteq Slots
  /\ troubles \in 0 .. program.troubles

(* The comments on G_FILE (ptr, cnt, baseposition): after any sequence of   *)
(* calls the buffer of a stream that is read is a copy of the file at       *)
(* baseposition, and the kernel's offset is just behind it; what a stream   *)
(* that is written holds back belongs right behind what it has written.     *)
PositionKept ==
  \A s \in Slots : LET g == iob[s] IN
    /\ Reads(s) /\ "ERR" \notin g.flag =>
                   /\ Len(g.buf) = g.ptr + (IF g.cnt < 0 THEN 0 ELSE g.cnt)
                   /\ g.off = g.baseposition + Len(g.buf)
                   /\ g.buf = SubSeq(file[g.name], g.baseposition + 1, g.off)
    /\ Writes(s) /\ "ERR" \notin g.flag =>
                   /\ Len(g.buf) = g.ptr
                   /\ g.base => g.ptr + g.cnt = bufsize(g)
                   /\ g.baseposition = Len(file[g.name])
                   /\ g.off = g.baseposition

(* g_gets() returns the characters from where the stream stood, up to a     *)
(* newline it takes too, the end of the file, or one less than maximum.     *)
GetsTakesALine ==
  call.op = "line" =>
    LET s == call.slot   f == file[iob[s].name]   n == Len(call.str)
        end == call.start + n
    IN  /\ call.str = SubSeq(f, call.start + 1, end)
        /\ \A k \in 1 .. n : call.str[k] # Newline
        /\ n < call.size
        /\ \/ Tell(s) = end + 1 /\ f[end + 1] = Newline
           \/ Tell(s) = end /\ (n = call.size - 1 \/ end >= Len(f) \/ s \in trouble)

(* g_read() hands out the bytes from where the stream stood and moves past  *)
(* them.  It returns the number of items asked for if it got them all, and  *)
(* 0 if the end of the file or an error came before: here it differs from   *)
(* fread(), which it is said to do the same as (g_stdio.c:503) and which    *)
(* returns the number of items that are complete.                           *)
ReadTakesItems ==
  call.op = "items" =>
    LET s == call.slot   n == Len(call.str)
    IN  /\ call.str = SubSeq(file[iob[s].name], call.start + 1, call.start + n)
        /\ Tell(s) = call.start + n
        /\ \/ n = call.want /\ n = call.left * call.size
           \/ n < call.want /\ call.left = 0
              /\ ("EOF" \in iob[s].flag \/ s \in trouble)

(* What a caller gets from g_gets() and g_read() is what the file holds at  *)
(* the place the stream tells, and that place, after any calls, short       *)
(* reads, failures and seeks, is where the kernel and the buffer agree it   *)
(* is (g_stdio.c:437-561, 841).                                             *)
InputTaken == TypeOK /\ GetsTakesALine /\ ReadTakesItems

Pending(s) == IF Writes(s) /\ "ERR" \notin iob[s].flag THEN iob[s].buf ELSE <<>>
View(n)    == IF \E s \in Slots : Writes(s) /\ iob[s].name = n
              THEN file[n] \o Pending(CHOOSE s \in Slots : iob[s].name = n)
              ELSE file[n]

(* A stream as its caller knows it. *)
Mode(s)  == IF Reads(s) THEN "r" ELSE IF Writes(s) THEN "w" ELSE "closed"
Place(s) == IF Reads(s) THEN Tell(s) ELSE 0
Ended(s) == "EOF" \in iob[s].flag

Std == INSTANCE Streams WITH
  Bytes <- UNION {1 .. p.puts : p \in Programs}, Stdin <- stdin, Stdout <- stdout,
  mode <- [s \in Slots |-> Mode(s)],
  of <- [s \in Slots |-> iob[s].name],
  pos <- [s \in Slots |-> Place(s)],
  eof <- [s \in Slots |-> Ended(s)],
  failed <- [s \in Slots |-> s \in trouble],
  disk <- file,
  view <- [n \in Names |-> View(n)],
  over <- call.op = "flushed"

(* Two places where the code does something else than it says.  At the end  *)
(* of a file g_seek() rewinds before it looks at the offset, so that        *)
(* G_SEEK_CUR counts from the start, unlike fseek() (g_stdio.c:760,         *)
(* 809-833).  And the flush at exit passes over a buffer that is exactly    *)
(* full, where g_stdio.c:76 has cnt = 0 for a full buffer and 947-948 has   *)
(* every buffer flushed that is not empty (955).                            *)
SeekFromStart(s)  == Ended(s) /\ Std!SeekFrom(s, 0)
FullBuffer(g)     == g.base /\ g.cnt = 0
ExitWithFull      == Std!FinishBut({s \in Slots : FullBuffer(iob[s])})

(* Whatever the sizes of the buffers, the order of the calls and the short  *)
(* reads, the streams do what module Streams says: bytes come in the order  *)
(* of the file and from the right place after a seek, what is put is on the *)
(* disk in order after a flush, a close or at the exit, stdout is shown     *)
(* before stdin is read, and nothing is lost unless the kernel refused      *)
(* something.  The two places above are the only exceptions.                *)
StreamsImplemented ==
  /\ Std!Init
  /\ [][\/ Std!Next
        \/ ExitWithFull
        \/ \E s \in Slots : SeekFromStart(s)]_(Std!vars)
================================================================================
