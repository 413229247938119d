------------------------------ MODULE GStdioProofs ------------------------------
(***************************************************************************)
(* g_stdio.c for buffers of any size, any number of streams and files of   *)
(* any contents: a buffer is a copy of its piece of the file, what is held *)
(* back belongs behind what has been written, and g_gets() and g_read()    *)
(* hand out what the file holds from where the stream stood.  The last     *)
(* part shows that the library implements module Streams.                  *)
(***************************************************************************)
EXTENDS GStdio, SequenceTheorems, TLAPS

Unread(g) == IF g.cnt < 0 THEN 0 ELSE g.cnt
Pos(g) == g.off - Unread(g)

BaseOK(g) == g.cnt # 0 \/ g.ptr # 0 => g.base

(* A stream that is read, on a file that holds f: its buffer is what ends   *)
(* at the kernel's offset.  After an error baseposition means nothing.      *)
InputFlags(g) == "READ" \in g.flag /\ "WRITE" \notin g.flag /\ "UNBUF" \notin g.flag
Filled(g) ==
  /\ Len(g.buf) = g.ptr + Unread(g)
  /\ Len(g.buf) <= BufSiz
  /\ Len(g.buf) <= g.off
Copied(g, f) == \A k \in 1 .. Len(g.buf) : g.buf[k] = f[g.off - Len(g.buf) + k]
InputPlace(g) == "ERR" \notin g.flag => g.baseposition + Len(g.buf) = g.off
AtEnd(g, f) ==
  /\ g.cnt >= -1
  /\ g.cnt < 0 <=> "EOF" \in g.flag
  /\ g.cnt < 0 => g.ptr = 0 /\ g.off >= Len(f)
ReaderOK(g, f) ==
  /\ InputFlags(g)
  /\ Filled(g)
  /\ Copied(g, f)
  /\ InputPlace(g)
  /\ BaseOK(g)
  /\ AtEnd(g, f)

(* One that is written, on a file that holds f. *)
OutputFlags(g) == "WRITE" \in g.flag /\ "READ" \notin g.flag /\ "EOF" \notin g.flag
Room(g) ==
  /\ Len(g.buf) = g.ptr
  /\ g.cnt >= 0
  /\ g.ptr + g.cnt <= bufsize(g)
Lost(g) == "ERR" \in g.flag => g.ptr = 0 /\ g.cnt = 0
OutputPlace(g, f) ==
  "ERR" \notin g.flag =>
    /\ g.base => g.ptr + g.cnt = bufsize(g)
    /\ g.baseposition = Len(f) /\ g.off = Len(f)
WriterOK(g, f) ==
  /\ OutputFlags(g)
  /\ Room(g)
  /\ BaseOK(g)
  /\ Lost(g)
  /\ OutputPlace(g, f)

(* Of every slot: i is g_iob[], fs the files, tr the streams refused something. *)
StreamOK(g, fs) ==
  \/ g = Free
  \/ /\ g.name \in Names /\ fs[g.name] \in Seq(Nat)
     /\ ReaderOK(g, fs[g.name]) \/ WriterOK(g, fs[g.name])

Contents == [Names -> Seq(Nat) \cup {NoFile}]
StreamsAre(i, fs, tr) ==
  /\ i \in [Slots -> Records]
  /\ fs \in Contents
  /\ \A s \in Slots : StreamOK(i[s], fs)
  /\ \A s, t \in Slots : s # t => i[s].name = NoFile \/ i[s].name # i[t].name
  /\ \A s \in Slots : "ERR" \in i[s].flag => s \in tr
  /\ tr \subseteq Slots
StreamsOK == StreamsAre(iob, file, trouble)

(* What a loop has taken is what the file holds from where it began to      *)
(* where the stream stands.                                                 *)
Contained == file[iob[call.slot].name]
Taken ==
  /\ Reads(call.slot) /\ call.start \in Nat
  /\ \A k \in 1 .. Len(call.str) : call.str[k] = Contained[call.start + k]
NoNewline == \A k \in 1 .. Len(call.str) : call.str[k] # Newline
Stands(n) == Tell(call.slot) = call.start + n

GetsOK ==
  /\ Taken /\ NoNewline /\ Stands(Len(call.str))
  /\ call.left >= 1 /\ Len(call.str) + call.left = call.size
LineOK ==
  /\ Taken /\ NoNewline /\ Len(call.str) < call.size
  /\ \/ /\ Stands(Len(call.str) + 1)
        /\ Contained[call.start + Len(call.str) + 1] = Newline
     \/ /\ Stands(Len(call.str))
        /\ \/ Len(call.str) = call.size - 1
           \/ call.start + Len(call.str) >= Len(Contained)
           \/ call.slot \in trouble
ReadOK ==
  /\ Taken /\ Stands(Len(call.str))
  /\ call.left >= 0 /\ call.size >= 1
  /\ Len(call.str) + call.left = call.want
  /\ \E m \in Nat \ {0} : call.want = m * call.size
ItemsOK ==
  /\ Taken /\ Stands(Len(call.str))
  /\ \/ Len(call.str) = call.want /\ Len(call.str) = call.left * call.size
     \/ /\ Len(call.str) < call.want /\ call.left = 0
        /\ "EOF" \in iob[call.slot].flag \/ call.slot \in trouble
PutsOK ==
  Writes(call.slot) /\ call.left >= 1 /\ puts + call.left <= program.puts

Calls ==
  [op: Ops, slot: Slots, left: Int, size: Nat, want: Int, str: Seq(Nat), start: Int]
CallOK ==
  /\ call \in Calls
  /\ call.op = "gets" => GetsOK
  /\ call.op = "line" => LineOK
  /\ call.op = "read" => ReadOK
  /\ call.op = "items" => ItemsOK
  /\ call.op = "puts" => PutsOK

RestOK ==
  /\ last \in Slots \X Int
  /\ program \in Programs
  /\ puts \in 0 .. program.puts
  /\ troubles \in 0 .. program.troubles

IInv == StreamsOK /\ CallOK /\ RestOK

-----------------------------------------------------------------------------
(* The sizes and the three standard slots. *)
LEMMA Bounds ==
  /\ BufSiz \in Nat /\ BufSiz >= 1
  /\ stdin \in Slots /\ stdout \in Slots /\ stderr \in Slots
  /\ stdin # stdout /\ stdout # stderr /\ stdin # stderr
BY ConstantsAssumption DEF Slots, stdin, stdout, stderr

(* The fields of an unused slot. *)
LEMMA FreeIs ==
  /\ Free \in Records /\ Free.flag = {} /\ Free.name = NoFile /\ Free.base = FALSE
  /\ Free.buf = <<>> /\ Free.ptr = 0 /\ Free.cnt = 0 /\ Free.off = 0 /\ Free.baseposition = 0
BY DEF Free, Records

(* A piece of a sequence, byte by byte. *)
LEMMA PieceIs ==
  ASSUME NEW f \in Seq(Nat), NEW a \in Nat, NEW n \in Nat, a + n <= Len(f)
  PROVE  /\ SubSeq(f, a + 1, a + n) \in Seq(Nat) /\ Len(SubSeq(f, a + 1, a + n)) = n
         /\ \A k \in 1 .. n : SubSeq(f, a + 1, a + n)[k] = f[a + k]
<1> DEFINE p == SubSeq(f, a + 1, a + n)
<1>1. Len(f) \in Nat /\ DOMAIN f = 1 .. Len(f) /\ \A k \in 1 .. Len(f) : f[k] \in Nat
  BY LenProperties
<1>2. p = [k \in 1 .. n |-> f[a + k]]
  OBVIOUS
<1>3. \A k \in 1 .. n : f[a + k] \in Nat
  BY <1>1
<1>4. p \in [1 .. n -> Nat]
  BY <1>2, <1>3
<1>5. p \in Seq(Nat) /\ Len(p) = n
  BY <1>4
<1>6. QED
  BY <1>2, <1>5

-----------------------------------------------------------------------------
(* What becomes of a stream that is read, when a character is asked for.    *)
Refused(g, r) == r.bad \/ "EOF" \in r.g.flag \/ "ERR" \in r.g.flag
Served(g, r, f) ==
  /\ r.g \in Records /\ r.g.name = g.name /\ r.out = <<>>
  /\ ReaderOK(r.g, f)
  /\ \/ r.ret = EOF /\ Pos(r.g) = Pos(g) /\ Refused(g, r)
     \/ r.ret \in Nat /\ r.ret = f[Pos(g) + 1] /\ Pos(r.g) = Pos(g) + 1
  /\ "ERR" \in r.g.flag => r.bad \/ "ERR" \in g.flag

(* The fields of a stream have their types. *)
LEMMA FieldsOf ==
  ASSUME NEW g \in Records
  PROVE  /\ g.flag \subseteq {"READ", "WRITE", "UNBUF", "EOF", "ERR"}
         /\ g.buf \in Seq(Nat) /\ Len(g.buf) \in Nat
         /\ \A k \in 1 .. Len(g.buf) : g.buf[k] \in Nat
         /\ g.ptr \in Nat /\ g.cnt \in Int /\ g.baseposition \in Int /\ g.off \in Nat
         /\ g.name \in Names \cup {NoFile} /\ g.base \in BOOLEAN
<1>1. g.buf \in Seq(Nat)
  BY DEF Records
<1>2. Len(g.buf) \in Nat /\ \A k \in 1 .. Len(g.buf) : g.buf[k] \in Nat
  BY <1>1, LenProperties
<1>3. QED
  BY <1>1, <1>2 DEF Records

(* Take() moves the pointer and the count and nothing else. *)
LEMMA TakeIs ==
  ASSUME NEW g \in Records
  PROVE  /\ Take(g) \in Records /\ Take(g).flag = g.flag /\ Take(g).base = g.base
         /\ Take(g).buf = g.buf /\ Take(g).ptr = g.ptr + 1 /\ Take(g).cnt = g.cnt - 1
         /\ Take(g).baseposition = g.baseposition
         /\ Take(g).name = g.name /\ Take(g).off = g.off
<1>1. g.ptr + 1 \in Nat /\ g.cnt - 1 \in Int
  BY FieldsOf
<1>2. QED
  BY <1>1 DEF Records, Take

(* A character from the buffer is the next one of the file. *)
LEMMA TakeServes ==
  ASSUME NEW g \in Records, NEW f \in Seq(Nat), ReaderOK(g, f), g.cnt > 0
  PROVE  Served(g, Result(Take(g), <<>>, g.buf[g.ptr + 1], FALSE), f)
<1> DEFINE t == Take(g)
<1>1. /\ t \in Records /\ t.flag = g.flag /\ t.base = g.base /\ t.buf = g.buf
      /\ t.ptr = g.ptr + 1 /\ t.cnt = g.cnt - 1 /\ t.baseposition = g.baseposition
      /\ t.name = g.name /\ t.off = g.off
  BY TakeIs
<1>2. /\ Len(g.buf) \in Nat /\ g.ptr \in Nat /\ g.cnt \in Int /\ g.off \in Nat
      /\ \A k \in 1 .. Len(g.buf) : g.buf[k] \in Nat
  BY FieldsOf
<1> HIDE DEF t
<1>3. Unread(g) = g.cnt /\ Unread(t) = g.cnt - 1
  BY <1>1, <1>2 DEF Unread
<1>4. Len(g.buf) = g.ptr + g.cnt /\ Len(g.buf) <= BufSiz /\ Len(g.buf) <= g.off
  BY <1>3 DEF ReaderOK, Filled
<1>5. ReaderOK(t, f)
  <2>1. InputFlags(t)
    BY <1>1 DEF ReaderOK, InputFlags
  <2>2. Filled(t)
    BY <1>1, <1>2, <1>3, <1>4 DEF Filled
  <2>3. Copied(t, f)
    BY <1>1 DEF ReaderOK, Copied
  <2>4. InputPlace(t)
    BY <1>1 DEF ReaderOK, InputPlace
  <2>5. BaseOK(t)
    <3>1. BaseOK(g) /\ g.cnt # 0
      BY DEF ReaderOK
    <3>2. QED
      BY <1>1, <3>1, Zenon DEF BaseOK
  <2>6. AtEnd(t, f)
    BY <1>1, <1>2 DEF ReaderOK, AtEnd
  <2>7. QED
    BY <2>1, <2>2, <2>3, <2>4, <2>5, <2>6 DEF ReaderOK
<1>6. g.ptr + 1 \in 1 .. Len(g.buf) /\ g.off - Len(g.buf) + (g.ptr + 1) = Pos(g) + 1
  BY <1>2, <1>3, <1>4 DEF Pos
<1>7. g.buf[g.ptr + 1] \in Nat
  BY <1>2, <1>6
<1>8. g.buf[g.ptr + 1] = f[Pos(g) + 1]
  <2>1. Copied(g, f)
    BY DEF ReaderOK
  <2>2. QED
    BY <1>6, <2>1 DEF Copied
<1>9. Pos(t) = Pos(g) + 1
  BY <1>1, <1>2, <1>3 DEF Pos
<1>10. QED
  BY <1>1, <1>5, <1>7, <1>8, <1>9 DEF Served, Result, t

(* g_fillbuf() first counts what has been taken into baseposition. *)
LEMMA PastIs ==
  ASSUME NEW g \in Records
  PROVE  LET p == PastBuffer(g) IN
         /\ p \in Records /\ p.flag = g.flag /\ p.base = g.base /\ p.buf = g.buf
         /\ p.ptr = g.ptr /\ p.cnt = g.cnt /\ p.baseposition = g.baseposition + g.ptr
         /\ p.name = g.name /\ p.off = g.off
<1>1. g.baseposition + g.ptr \in Int
  BY FieldsOf
<1>2. QED
  BY <1>1 DEF Records, PastBuffer

(* Nothing is in the buffer. *)
LEMMA EmptyReader ==
  ASSUME NEW g \in Records, NEW f \in Seq(Nat), InputFlags(g), g.buf = <<>>, g.ptr = 0, BaseOK(g),
         g.cnt = 0 \/ g.cnt = -1, g.cnt < 0 <=> "EOF" \in g.flag,
         g.cnt < 0 => g.off >= Len(f),
         "ERR" \notin g.flag => g.baseposition = g.off
  PROVE  ReaderOK(g, f)
<1>1. /\ Len(g.buf) = 0 /\ g.off \in Nat /\ BufSiz \in Nat
      /\ g.baseposition \in Int /\ g.cnt \in Int /\ Len(f) \in Nat
  BY FieldsOf, Bounds, LenProperties
<1>2. Filled(g)
  BY <1>1 DEF Filled, Unread
<1>3. Copied(g, f)
  BY <1>1 DEF Copied
<1>4. InputPlace(g)
  BY <1>1 DEF InputPlace
<1>5. AtEnd(g, f)
  BY <1>1 DEF AtEnd
<1>6. QED
  BY <1>2, <1>3, <1>4, <1>5 DEF ReaderOK

(* What read() has got is the piece of the file behind the kernel's offset. *)
LEMMA GotServes ==
  ASSUME NEW b \in Records, b.name \in Names, file[b.name] \in Seq(Nat), InputFlags(b),
         "EOF" \notin b.flag, b.base, b.baseposition = b.off,
         NEW k \in 1 .. BufSiz, b.off + k <= Len(file[b.name])
  PROVE  LET r == Got(b, k) IN
         /\ Served(r, Result(Take(r), <<>>, r.buf[1], FALSE), file[b.name])
         /\ Pos(r) = b.off /\ r.flag = b.flag /\ r.name = b.name
<1> DEFINE r == Got(b, k)
           f == file[b.name]
           piece == SubSeq(f, b.off + 1, b.off + k)
<1>1. b.off \in Nat /\ k \in Nat /\ k >= 1 /\ k <= BufSiz /\ b.off + k \in Nat
  BY FieldsOf, Bounds
<1>2. piece \in Seq(Nat) /\ Len(piece) = k /\ \A j \in 1 .. k : piece[j] = f[b.off + j]
  BY <1>1, PieceIs
<1>e. r = [b EXCEPT !.buf = piece, !.cnt = k, !.ptr = 0, !.off = b.off + k]
  BY DEF Got
<1> HIDE DEF r, piece, f
<1>3. /\ r \in Records /\ r.flag = b.flag /\ r.base = b.base /\ r.buf = piece /\ r.ptr = 0
      /\ r.cnt = k /\ r.baseposition = b.baseposition /\ r.name = b.name /\ r.off = b.off + k
  <2>1. PICK o \in Nat : o = b.off + k
    BY <1>1
  <2>2. r = [b EXCEPT !.buf = piece, !.cnt = k, !.ptr = 0, !.off = o]
    BY <1>e, <2>1
  <2>3. k \in Int
    BY <1>1
  <2>4. r \in Records
    BY <1>2, <2>2, <2>3 DEF Records
  <2>5. QED
    BY <2>1, <2>2, <2>4 DEF Records
<1>4. Unread(r) = k
  BY <1>1, <1>3 DEF Unread
<1>5. ReaderOK(r, f)
  <2>1. InputFlags(r)
    BY <1>3 DEF InputFlags
  <2>2. Filled(r)
    BY <1>1, <1>2, <1>3, <1>4 DEF Filled
  <2>3. Copied(r, f)
    <3>1. \A j \in 1 .. k : r.off - Len(r.buf) + j = b.off + j
      BY <1>1, <1>2, <1>3
    <3>2. QED
      BY <1>2, <1>3, <3>1 DEF Copied
  <2>4. InputPlace(r)
    BY <1>1, <1>2, <1>3 DEF InputPlace
  <2>5. BaseOK(r)
    BY <1>3, Zenon DEF BaseOK
  <2>6. AtEnd(r, f)
    BY <1>1, <1>3 DEF AtEnd
  <2>7. QED
    BY <2>1, <2>2, <2>3, <2>4, <2>5, <2>6 DEF ReaderOK
<1>6. f \in Seq(Nat) /\ r.cnt > 0 /\ r.ptr + 1 = 1
  BY <1>1, <1>3 DEF f
<1>7. Served(r, Result(Take(r), <<>>, r.buf[1], FALSE), f)
  BY <1>3, <1>5, <1>6, TakeServes
<1>8. Pos(r) = b.off
  BY <1>1, <1>3, <1>4 DEF Pos
<1>9. QED
  BY <1>3, <1>7, <1>8 DEF r, f

(* read() has something to give unless the stream is at the end. *)
LEMMA SizesAre ==
  ASSUME NEW g \in Records, g.name \in Names, file[g.name] \in Seq(Nat), InputFlags(g)
  PROVE  /\ \A k \in ReadSizes(g) : k \in 1 .. BufSiz /\ g.off + k <= Len(file[g.name])
         /\ ReadSizes(g) = {} => g.off >= Len(file[g.name])
<1> DEFINE there == Len(file[g.name]) - g.off
           most  == IF there < BufSiz THEN there ELSE BufSiz
<1>1. Len(file[g.name]) \in Nat /\ g.off \in Nat /\ BufSiz \in Nat /\ BufSiz >= 1
  BY FieldsOf, Bounds, LenProperties
<1>2. bufsize(g) = BufSiz
  BY DEF bufsize, InputFlags
<1>3. ReadSizes(g) = {k \in 1 .. most : g.name \in Terminals \/ k = most}
  BY <1>2 DEF ReadSizes
<1>4. most \in Int /\ most <= there /\ most <= BufSiz /\ (there >= 1 => most >= 1)
  BY <1>1
<1>5. ASSUME NEW k \in ReadSizes(g) PROVE k \in 1 .. BufSiz /\ g.off + k <= Len(file[g.name])
  <2>1. k \in 1 .. most
    BY <1>3
  <2> HIDE DEF most
  <2>2. QED
    BY <1>1, <1>4, <2>1
<1>6. ASSUME ReadSizes(g) = {} PROVE g.off >= Len(file[g.name])
  <2>1. most \notin 1 .. most
    BY <1>3, <1>6
  <2> HIDE DEF most
  <2>2. QED
    BY <1>1, <1>4, <2>1
<1>7. QED
  BY <1>5, <1>6

(* A stream with other flags and another count. *)
Marked(b, fl, c) == [b EXCEPT !.flag = fl, !.cnt = c]
(* The fields that setting flag and cnt leaves alone. *)
LEMMA MarkedIs ==
  ASSUME NEW b \in Records, NEW fl \in SUBSET {"READ", "WRITE", "UNBUF", "EOF", "ERR"},
         NEW c \in Int
  PROVE  LET e == Marked(b, fl, c) IN
         /\ e \in Records /\ e.flag = fl /\ e.base = b.base /\ e.buf = b.buf
         /\ e.ptr = b.ptr /\ e.cnt = c /\ e.baseposition = b.baseposition
         /\ e.name = b.name /\ e.off = b.off
BY DEF Records, Marked

(* g_fillbuf(): the first character of a new buffer, or EOF and why. *)
LEMMA FillServes ==
  ASSUME NEW g \in Records, g.name \in Names, file[g.name] \in Seq(Nat),
         ReaderOK(g, file[g.name]), g.cnt <= 0, NEW r \in g_fillbuf(PastBuffer(g))
  PROVE  Served(g, r, file[g.name])
<1> DEFINE p == PastBuffer(g)
           f == file[g.name]
           b == [Emptied(p) EXCEPT !.base = TRUE]
<1>1. /\ p \in Records /\ p.flag = g.flag /\ p.base = g.base /\ p.buf = g.buf
      /\ p.ptr = g.ptr /\ p.cnt = g.cnt /\ p.baseposition = g.baseposition + g.ptr
      /\ p.name = g.name /\ p.off = g.off
  BY PastIs
<1>2. /\ g.ptr \in Nat /\ g.cnt \in Int /\ g.off \in Nat /\ g.baseposition \in Int
      /\ Len(g.buf) \in Nat
  BY FieldsOf
<1> HIDE DEF p, f
<1>3. Unread(g) = 0 /\ Unread(p) = 0 /\ Len(g.buf) = g.ptr /\ Pos(g) = g.off /\ Pos(p) = g.off
  <2>1. Unread(g) = 0 /\ Unread(p) = 0
    BY <1>1, <1>2 DEF Unread
  <2>2. Len(g.buf) = g.ptr + Unread(g)
    BY DEF ReaderOK, Filled
  <2>3. QED
    BY <1>1, <1>2, <2>1, <2>2 DEF Pos
<1>4. g.cnt = 0 \/ g.cnt = -1
  BY <1>2 DEF ReaderOK, AtEnd
<1>5. "ERR" \notin g.flag => p.baseposition = p.off
  BY <1>1, <1>2, <1>3 DEF ReaderOK, InputPlace
<1>6. \/ g.flag \cap {"READ", "EOF", "ERR"} # {"READ"} /\ r = Result(p, <<>>, EOF, FALSE)
      \/ ~g.base /\ r = Result(p, <<>>, EOF, TRUE)
      \/ /\ g.flag \cap {"READ", "EOF", "ERR"} = {"READ"}
         /\ \/ r = Result([b EXCEPT !.flag = @ \cup {"ERR"}, !.cnt = 0], <<>>, EOF, TRUE)
            \/ /\ ReadSizes(p) = {}
               /\ r = Result([b EXCEPT !.flag = @ \cup {"EOF"}, !.cnt = -1], <<>>, EOF, FALSE)
            \/ \E k \in ReadSizes(p) :
                 r = Result(Take(Got(b, k)), <<>>, Got(b, k).buf[1], FALSE)
  BY <1>1 DEF g_fillbuf, p
<1>7. ASSUME g.ptr = 0 \/ "ERR" \in g.flag PROVE ReaderOK(p, f)
  <2>1. InputFlags(p)
    BY <1>1 DEF ReaderOK, InputFlags
  <2>2. Filled(p)
    BY <1>1, <1>3 DEF ReaderOK, Filled
  <2>3. Copied(p, f)
    BY <1>1 DEF ReaderOK, Copied, f
  <2>4. InputPlace(p)
    BY <1>1, <1>2, <1>7 DEF ReaderOK, InputPlace
  <2>5. BaseOK(p)
    BY <1>1, Zenon DEF ReaderOK, BaseOK
  <2>6. AtEnd(p, f)
    BY <1>1 DEF ReaderOK, AtEnd, f
  <2>7. QED
    BY <2>1, <2>2, <2>3, <2>4, <2>5, <2>6 DEF ReaderOK
<1>8. CASE g.flag \cap {"READ", "EOF", "ERR"} # {"READ"} /\ r = Result(p, <<>>, EOF, FALSE)
  <2>1. "READ" \in g.flag
    BY DEF ReaderOK, InputFlags
  <2>2. "EOF" \in g.flag \/ "ERR" \in g.flag
    BY <1>8, <2>1
  <2>3. ReaderOK(p, f)
    BY <1>7, <2>2 DEF ReaderOK, AtEnd
  <2>4. r.g = p /\ r.out = <<>> /\ r.ret = EOF
    BY <1>8 DEF Result
  <2>5. QED
    BY <1>1, <1>3, <2>2, <2>3, <2>4, Zenon DEF Served, Refused, f
<1>9. CASE ~g.base /\ r = Result(p, <<>>, EOF, TRUE)
  <2>1. g.ptr = 0
    BY <1>9, Zenon DEF ReaderOK, BaseOK
  <2>2. r.g = p /\ r.out = <<>> /\ r.ret = EOF /\ r.bad
    BY <1>9, Zenon DEF Result
  <2>3. QED
    BY <1>1, <1>3, <1>7, <2>1, <2>2, Zenon DEF Served, Refused, f
<1>10. ASSUME g.flag \cap {"READ", "EOF", "ERR"} = {"READ"}
       PROVE  /\ b \in Records /\ b.flag = g.flag /\ b.base /\ b.buf = <<>> /\ b.ptr = 0
              /\ b.cnt = g.cnt /\ b.baseposition = b.off /\ b.off = g.off /\ b.name = g.name
              /\ InputFlags(b) /\ "EOF" \notin b.flag /\ "ERR" \notin b.flag
  <2>1. b = [p EXCEPT !.buf = <<>>, !.ptr = 0, !.base = TRUE]
    BY DEF Emptied
  <2>2. <<>> \in Seq(Nat) /\ 0 \in Nat
    BY EmptySeq
  <2>3. b \in Records
    BY <1>1, <2>1, <2>2 DEF Records
  <2>4. /\ b.flag = p.flag /\ b.base = TRUE /\ b.buf = <<>> /\ b.ptr = 0
        /\ b.cnt = p.cnt /\ b.baseposition = p.baseposition /\ b.off = p.off /\ b.name = p.name
    BY <1>1, <2>1 DEF Records
  <2>5. "EOF" \notin g.flag /\ "ERR" \notin g.flag
    BY <1>10
  <2>6. InputFlags(b)
    BY <1>1, <2>4 DEF InputFlags, ReaderOK
  <2>7. QED
    BY <1>1, <1>5, <2>3, <2>4, <2>5, <2>6
<1> HIDE DEF b
<1>11. ASSUME g.flag \cap {"READ", "EOF", "ERR"} = {"READ"},
              r = Result([b EXCEPT !.flag = @ \cup {"ERR"}, !.cnt = 0], <<>>, EOF, TRUE)
       PROVE  Served(g, r, f)
  <2>1. PICK e : e = [b EXCEPT !.flag = @ \cup {"ERR"}, !.cnt = 0]
    OBVIOUS
  <2>2. /\ e \in Records /\ e.flag = b.flag \cup {"ERR"} /\ e.base = b.base /\ e.buf = b.buf
        /\ e.ptr = b.ptr /\ e.cnt = 0 /\ e.baseposition = b.baseposition
        /\ e.name = b.name /\ e.off = b.off
    <3>1. b \in Records
      BY <1>10, <1>11
    <3>2. PICK fl \in SUBSET {"READ", "WRITE", "UNBUF", "EOF", "ERR"} :
            fl = b.flag \cup {"ERR"}
      BY <3>1, FieldsOf
    <3>3. PICK c \in Int : c = 0
      OBVIOUS
    <3>4. e = Marked(b, fl, c)
      BY <2>1, <3>2, <3>3 DEF Marked
    <3>5. /\ e \in Records /\ e.flag = fl /\ e.base = b.base /\ e.buf = b.buf
          /\ e.ptr = b.ptr /\ e.cnt = c /\ e.baseposition = b.baseposition
          /\ e.name = b.name /\ e.off = b.off
      BY <3>1, <3>4, MarkedIs
    <3>6. QED
      BY <3>2, <3>3, <3>5
  <2>3. InputFlags(e) /\ "EOF" \notin e.flag /\ "ERR" \in e.flag
    BY <1>10, <1>11, <2>2 DEF InputFlags
  <2>4. e.base /\ e.buf = <<>> /\ e.ptr = 0
    BY <1>10, <1>11, <2>2
  <2>11. BaseOK(e)
    BY <2>4, Zenon DEF BaseOK
  <2>5. f \in Seq(Nat)
    BY DEF f
  <2>6. ReaderOK(e, f)
    <3>1. e \in Records /\ e.cnt = 0
      BY <2>2
    <3>2. QED
      BY <2>3, <2>4, <2>11, <2>5, <3>1, EmptyReader
  <2>7. Pos(e) = Pos(g)
    BY <1>3, <1>10, <1>11, <1>2, <2>2 DEF Pos, Unread
  <2>8. r.g = e /\ r.out = <<>> /\ r.ret = EOF /\ r.bad
    BY <1>11, <2>1, Zenon DEF Result
  <2>9. e.name = g.name
    BY <1>10, <1>11, <2>2
  <2>10. QED
    BY <2>2, <2>6, <2>7, <2>8, <2>9, Zenon DEF Served, Refused
<1>12. ASSUME g.flag \cap {"READ", "EOF", "ERR"} = {"READ"}, ReadSizes(p) = {},
              r = Result([b EXCEPT !.flag = @ \cup {"EOF"}, !.cnt = -1], <<>>, EOF, FALSE)
       PROVE  Served(g, r, f)
  <2>1. PICK e : e = [b EXCEPT !.flag = @ \cup {"EOF"}, !.cnt = -1]
    OBVIOUS
  <2>2. /\ e \in Records /\ e.flag = b.flag \cup {"EOF"} /\ e.base = b.base /\ e.buf = b.buf
        /\ e.ptr = b.ptr /\ e.cnt = -1 /\ e.baseposition = b.baseposition
        /\ e.name = b.name /\ e.off = b.off
    <3>1. b \in Records
      BY <1>10, <1>12
    <3>2. PICK fl \in SUBSET {"READ", "WRITE", "UNBUF", "EOF", "ERR"} :
            fl = b.flag \cup {"EOF"}
      BY <3>1, FieldsOf
    <3>3. PICK c \in Int : c = -1
      OBVIOUS
    <3>4. e = Marked(b, fl, c)
      BY <2>1, <3>2, <3>3 DEF Marked
    <3>5. /\ e \in Records /\ e.flag = fl /\ e.base = b.base /\ e.buf = b.buf
          /\ e.ptr = b.ptr /\ e.cnt = c /\ e.baseposition = b.baseposition
          /\ e.name = b.name /\ e.off = b.off
      BY <3>1, <3>4, MarkedIs
    <3>6. QED
      BY <3>2, <3>3, <3>5
  <2>3. InputFlags(e) /\ "EOF" \in e.flag /\ "ERR" \notin e.flag
    BY <1>10, <1>12, <2>2 DEF InputFlags
  <2>4. e.base /\ e.buf = <<>> /\ e.ptr = 0 /\ e.baseposition = e.off /\ e.off = g.off
        /\ e.name = g.name
    BY <1>10, <1>12, <2>2
  <2>11. BaseOK(e)
    BY <2>4, Zenon DEF BaseOK
  <2>5. f \in Seq(Nat) /\ e.off >= Len(f)
    <3>1. p.name \in Names /\ file[p.name] \in Seq(Nat) /\ InputFlags(p)
      BY <1>1 DEF ReaderOK, InputFlags
    <3>2. QED
      BY <1>1, <1>12, <2>4, <3>1, SizesAre DEF f
  <2>6. ReaderOK(e, f)
    BY <2>2, <2>3, <2>4, <2>11, <2>5, EmptyReader
  <2>7. Pos(e) = Pos(g)
    BY <1>3, <1>2, <2>2, <2>4 DEF Pos, Unread
  <2>8. r.g = e /\ r.out = <<>> /\ r.ret = EOF
    BY <1>12, <2>1 DEF Result
  <2>9. QED
    BY <2>2, <2>3, <2>4, <2>6, <2>7, <2>8, Zenon DEF Served, Refused
<1>13. ASSUME g.flag \cap {"READ", "EOF", "ERR"} = {"READ"}, NEW k \in ReadSizes(p),
              r = Result(Take(Got(b, k)), <<>>, Got(b, k).buf[1], FALSE)
       PROVE  Served(g, r, f)
  <2>1. p.name \in Names /\ file[p.name] \in Seq(Nat) /\ InputFlags(p)
    BY <1>1 DEF ReaderOK, InputFlags
  <2>2. k \in 1 .. BufSiz /\ g.off + k <= Len(f)
    BY <1>1, <1>13, <2>1, SizesAre DEF f
  <2>3. b.name \in Names /\ file[b.name] \in Seq(Nat) /\ file[b.name] = f /\ b.off = g.off
    BY <1>10, <1>13 DEF f
  <2> DEFINE q == Got(b, k)
  <2>4. /\ Served(q, Result(Take(q), <<>>, q.buf[1], FALSE), file[b.name])
        /\ Pos(q) = b.off /\ q.flag = b.flag /\ q.name = b.name
    BY <1>10, <1>13, <2>2, <2>3, GotServes
  <2> HIDE DEF q
  <2>5. Served(q, r, f) /\ Pos(q) = Pos(g) /\ q.flag = g.flag /\ q.name = g.name
    BY <1>3, <1>10, <1>13, <2>3, <2>4 DEF q
  <2>6. QED
    BY <2>5, Zenon DEF Served, Refused
<1>14. QED
  BY <1>6, <1>8, <1>9, <1>11, <1>12, <1>13 DEF f

(* g_getc() *)
LEMMA GetcServes ==
  ASSUME NEW g \in Records, g.name \in Names, file[g.name] \in Seq(Nat),
         ReaderOK(g, file[g.name]), NEW r \in g_getc(g)
  PROVE  Served(g, r, file[g.name])
<1>1. g.cnt \in Int
  BY FieldsOf
<1>2. CASE g.cnt > 0
  <2>1. r = Result(Take(g), <<>>, g.buf[g.ptr + 1], FALSE)
    BY <1>2 DEF g_getc
  <2>2. QED
    BY <1>2, <2>1, TakeServes
<1>3. CASE ~(g.cnt > 0)
  <2>1. g.cnt <= 0
    BY <1>1, <1>3
  <2>2. r \in g_fillbuf(PastBuffer(g))
    BY <1>3 DEF g_getc
  <2>3. QED
    BY <2>1, <2>2, FillServes
<1>4. QED
  BY <1>2, <1>3

-----------------------------------------------------------------------------
(* What becomes of a stream that is written: what write() is given belongs  *)
(* behind what the file holds.                                              *)
Delivered(g, r, f) ==
  /\ r.g \in Records /\ r.g.name = g.name
  /\ r.out \in Seq(Nat) /\ r.ret \in Int
  /\ r.out = <<>> \/ g.off = Len(f)
  /\ WriterOK(r.g, f \o r.out)
  /\ "ERR" \in r.g.flag => r.bad \/ "ERR" \in g.flag

(* What Store() makes of the fields. *)
LEMMA StoreIs ==
  ASSUME NEW g \in Records, Len(g.buf) = g.ptr, NEW khar \in Nat
  PROVE  LET t == Store(g, khar) IN
         /\ t \in Records /\ t.flag = g.flag /\ t.base = g.base
         /\ t.buf = Append(g.buf, khar) /\ Len(t.buf) = g.ptr + 1
         /\ t.ptr = g.ptr + 1 /\ t.cnt = g.cnt - 1 /\ t.baseposition = g.baseposition
         /\ t.name = g.name /\ t.off = g.off
<1>1. SubSeq(g.buf, 1, g.ptr) = g.buf
  BY FieldsOf, SubSeqFull
<1>2. PICK q \in Seq(Nat) : q = Append(g.buf, khar)
  <2>1. g.buf \in Seq(Nat)
    BY FieldsOf
  <2>2. Append(g.buf, khar) \in Seq(Nat)
    BY <2>1
  <2>3. QED
    BY <2>2
<1>3. Len(q) = g.ptr + 1
  BY <1>2, FieldsOf
<1>4. PICK p \in Nat, c \in Int : p = g.ptr + 1 /\ c = g.cnt - 1
  BY FieldsOf
<1>5. Store(g, khar) = [g EXCEPT !.buf = q, !.ptr = p, !.cnt = c]
  BY <1>1, <1>2, <1>4 DEF Store
<1>6. Store(g, khar) \in Records
  BY <1>5 DEF Records
<1>7. QED
  BY <1>2, <1>3, <1>4, <1>5, <1>6 DEF Records

(* An unbuffered stream has a buffer of one byte. *)
LEMMA SizeIs ==
  ASSUME NEW g
  PROVE  bufsize(g) \in Nat /\ bufsize(g) >= 1 /\ bufsize(g) <= BufSiz
BY Bounds DEF bufsize

(* The stream as g_flushbuf() has it when it has a buffer. *)

Buffered(g) == IF g.base THEN g ELSE [g EXCEPT !.base = TRUE, !.cnt = bufsize(g)]

(* The buffer malloc() has given is empty. *)
LEMMA BufferedIs ==
  ASSUME NEW g \in Records, NEW f \in Seq(Nat), WriterOK(g, f), "ERR" \notin g.flag
  PROVE  LET b == Buffered(g) IN
         /\ b \in Records /\ b.flag = g.flag /\ b.base /\ b.buf = g.buf /\ b.ptr = g.ptr
         /\ b.baseposition = g.baseposition /\ b.name = g.name /\ b.off = g.off
         /\ b.ptr + b.cnt = bufsize(g) /\ b.cnt >= 0
<1>1. g.base \in BOOLEAN /\ bufsize(g) \in Int /\ g.ptr \in Nat
  BY FieldsOf, SizeIs
<1>2. CASE g.base
  <2>1. Buffered(g) = g
    BY <1>2, Zenon DEF Buffered
  <2>2. g.ptr + g.cnt = bufsize(g) /\ g.cnt >= 0
    BY <1>2 DEF WriterOK, OutputPlace, Room
  <2>3. QED
    BY <1>2, <2>1, <2>2, Zenon
<1>3. CASE ~g.base
  <2>1. g.ptr = 0
    BY <1>3, Zenon DEF WriterOK, BaseOK
  <2>2. PICK c \in Int : c = bufsize(g)
    BY <1>1
  <2>3. Buffered(g) = [g EXCEPT !.base = TRUE, !.cnt = c]
    BY <1>3, <2>2, Zenon DEF Buffered
  <2>4. Buffered(g) \in Records
    BY <2>3 DEF Records
  <2>5. /\ Buffered(g).flag = g.flag /\ Buffered(g).base = TRUE /\ Buffered(g).buf = g.buf
        /\ Buffered(g).ptr = g.ptr /\ Buffered(g).cnt = c
        /\ Buffered(g).baseposition = g.baseposition
        /\ Buffered(g).name = g.name /\ Buffered(g).off = g.off
    BY <2>3 DEF Records
  <2>6. Buffered(g).base
    BY <2>5, Zenon
  <2>7. Buffered(g).ptr + Buffered(g).cnt = bufsize(g) /\ Buffered(g).cnt >= 0
    BY <2>1, <2>2, <2>5, SizeIs
  <2>8. QED
    BY <2>4, <2>5, <2>6, <2>7
<1>4. QED
  BY <1>2, <1>3

(* The fields after a write of all that was held back. *)
LEMMA WrittenOutIs ==
  ASSUME NEW b \in Records, NEW n \in Nat
  PROVE  LET w == WrittenOut(b, n) IN
         /\ w \in Records /\ w.flag = b.flag /\ w.base = b.base /\ w.buf = <<>> /\ w.ptr = 0
         /\ w.cnt = bufsize(b) /\ w.baseposition = b.baseposition + n
         /\ w.name = b.name /\ w.off = b.off + n
<1>1. PICK c \in Int, a \in Int, o \in Nat :
        c = bufsize(b) /\ a = b.baseposition + n /\ o = b.off + n
  BY FieldsOf, SizeIs
<1>2. bufsize(Emptied(b)) = bufsize(b)
  BY DEF bufsize, Emptied, Records
<1>3. WrittenOut(b, n) = [b EXCEPT !.buf = <<>>, !.ptr = 0, !.cnt = c, !.baseposition = a,
                                   !.off = o]
  BY <1>1 DEF WrittenOut, Emptied
<1>4. <<>> \in Seq(Nat) /\ 0 \in Nat
  BY EmptySeq
<1>5. WrittenOut(b, n) \in Records
  BY <1>3, <1>4 DEF Records
<1>6. QED
  BY <1>1, <1>3, <1>5 DEF Records

(* The fields after a write that failed. *)
LEMMA GivenUpIs ==
  ASSUME NEW b \in Records, NEW n \in Nat
  PROVE  LET w == GivenUp(b, n) IN
         /\ w \in Records /\ w.flag = b.flag \cup {"ERR"} /\ w.base = b.base
         /\ w.buf = <<>> /\ w.ptr = 0 /\ w.cnt = 0 /\ w.baseposition = b.baseposition
         /\ w.name = b.name /\ w.off = b.off + n
<1>1. PICK c \in Int, o \in Nat : c = 0 /\ o = b.off + n
  BY FieldsOf
<1>2. PICK fl \in SUBSET {"READ", "WRITE", "UNBUF", "EOF", "ERR"} : fl = b.flag \cup {"ERR"}
  BY FieldsOf
<1>3. GivenUp(b, n) = [b EXCEPT !.buf = <<>>, !.ptr = 0, !.cnt = c, !.off = o, !.flag = fl]
  BY <1>1, <1>2 DEF GivenUp, Emptied
<1>4. <<>> \in Seq(Nat) /\ 0 \in Nat
  BY EmptySeq
<1>5. GivenUp(b, n) \in Records
  BY <1>3, <1>4 DEF Records
<1>6. QED
  BY <1>1, <1>2, <1>3, <1>5 DEF Records

(* What is appended to a file leaves its start alone. *)
LEMMA ConcatIs ==
  ASSUME NEW f \in Seq(Nat), NEW q \in Seq(Nat)
  PROVE  /\ f \o q \in Seq(Nat) /\ Len(f \o q) = Len(f) + Len(q)
         /\ Len(f) \in Nat /\ Len(q) \in Nat
         /\ \A k \in 1 .. Len(f) : (f \o q)[k] = f[k]
<1>1. Len(f) \in Nat /\ Len(q) \in Nat
  BY LenProperties
<1>2. \A k \in 1 .. Len(f) : k \in 1 .. Len(f) + Len(q) /\ k <= Len(f)
  BY <1>1
<1>3. /\ f \o q \in Seq(Nat) /\ Len(f \o q) = Len(f) + Len(q)
      /\ \A i \in 1 .. Len(f) + Len(q) :
           (f \o q)[i] = IF i <= Len(f) THEN f[i] ELSE q[i - Len(f)]
  BY ConcatProperties
<1>4. QED
  BY <1>1, <1>2, <1>3

(* A buffer is empty and the file has all of it. *)
LEMMA WholeDelivers ==
  ASSUME NEW g \in Records, NEW f \in Seq(Nat), WriterOK(g, f), "ERR" \notin g.flag,
         NEW b \in Records, b = Buffered(g)
  PROVE  LET w == WrittenOut(b, b.ptr) IN
         /\ WriterOK(w, f \o b.buf) /\ w \in Records /\ w.name = g.name
         /\ w.flag = g.flag /\ w.buf = <<>> /\ w.ptr = 0 /\ w.cnt >= 1 /\ w.base
<1> DEFINE w == WrittenOut(b, b.ptr)
<1>1. /\ b.flag = g.flag /\ b.base /\ b.buf = g.buf /\ b.ptr = g.ptr
      /\ b.baseposition = g.baseposition /\ b.name = g.name /\ b.off = g.off
      /\ b.ptr + b.cnt = bufsize(g) /\ b.cnt >= 0
  BY BufferedIs
<1>2. b.ptr \in Nat /\ b.off \in Nat /\ b.buf \in Seq(Nat) /\ b.baseposition \in Int
  BY FieldsOf
<1>3. /\ w \in Records /\ w.flag = b.flag /\ w.base = b.base /\ w.buf = <<>> /\ w.ptr = 0
      /\ w.cnt = bufsize(b) /\ w.baseposition = b.baseposition + b.ptr
      /\ w.name = b.name /\ w.off = b.off + b.ptr
  BY <1>2, WrittenOutIs
<1> HIDE DEF w
<1>4. Len(b.buf) = b.ptr
  BY <1>1 DEF WriterOK, Room
<1>5. Len(f \o b.buf) = Len(f) + b.ptr /\ Len(f) \in Nat
  BY <1>2, <1>4, ConcatIs
<1>6. bufsize(w) = bufsize(b) /\ bufsize(b) \in Nat /\ bufsize(b) >= 1
  BY <1>3, SizeIs DEF bufsize
<1>7. Len(<<>>) = 0
  BY EmptySeq
<1>8. OutputFlags(w)
  BY <1>1, <1>3 DEF OutputFlags, WriterOK
<1>9. Room(w)
  BY <1>3, <1>6, <1>7 DEF Room
<1>10. w.base
  BY <1>1, <1>3
<1>11. BaseOK(w)
  BY <1>10, Zenon DEF BaseOK
<1>12. "ERR" \notin w.flag
  BY <1>1, <1>3
<1>13. g.baseposition = Len(f) /\ g.off = Len(f)
  BY DEF WriterOK, OutputPlace
<1>14. OutputPlace(w, f \o b.buf)
  BY <1>1, <1>3, <1>5, <1>6, <1>13 DEF OutputPlace
<1>15. WriterOK(w, f \o b.buf)
  BY <1>8, <1>9, <1>11, <1>12, <1>14 DEF WriterOK, Lost
<1>16. w.cnt >= 1 /\ w.name = g.name /\ w.flag = g.flag
  BY <1>1, <1>3, <1>6
<1>17. QED
  BY <1>3, <1>10, <1>15, <1>16 DEF w

(* A character is put where there is room. *)
LEMMA StoreDelivers ==
  ASSUME NEW g \in Records, NEW f \in Seq(Nat), WriterOK(g, f), g.cnt >= 1, NEW khar \in Nat
  PROVE  LET t == Store(g, khar) IN
         /\ WriterOK(t, f) /\ t \in Records /\ t.name = g.name /\ t.flag = g.flag
<1> DEFINE t == Store(g, khar)
<1>1. Len(g.buf) = g.ptr /\ g.cnt >= 0 /\ g.ptr + g.cnt <= bufsize(g)
  BY DEF WriterOK, Room
<1>2. /\ t \in Records /\ t.flag = g.flag /\ t.base = g.base /\ Len(t.buf) = g.ptr + 1
      /\ t.ptr = g.ptr + 1 /\ t.cnt = g.cnt - 1 /\ t.baseposition = g.baseposition
      /\ t.name = g.name /\ t.off = g.off
  BY <1>1, StoreIs
<1>3. g.ptr \in Nat /\ g.cnt \in Int /\ bufsize(g) \in Nat
  BY FieldsOf, SizeIs
<1> HIDE DEF t
<1>4. bufsize(t) = bufsize(g)
  BY <1>2 DEF bufsize
<1>5. g.base
  <2>1. g.cnt # 0
    BY <1>3
  <2>2. QED
    BY <2>1, Zenon DEF WriterOK, BaseOK
<1>6. OutputFlags(t)
  BY <1>2 DEF WriterOK, OutputFlags
<1>7. Room(t)
  BY <1>1, <1>2, <1>3, <1>4 DEF Room
<1>8. BaseOK(t)
  BY <1>2, <1>5, Zenon DEF BaseOK
<1>9. "ERR" \notin g.flag
  BY <1>3 DEF WriterOK, Lost
<1>10. OutputPlace(t, f)
  <2>1. g.ptr + g.cnt = bufsize(g) /\ g.baseposition = Len(f) /\ g.off = Len(f)
    BY <1>5, <1>9 DEF WriterOK, OutputPlace
  <2>2. t.ptr + t.cnt = bufsize(t)
    BY <1>2, <1>3, <1>4, <2>1
  <2>3. QED
    BY <1>2, <2>1, <2>2 DEF OutputPlace
<1>11. QED
  BY <1>2, <1>6, <1>7, <1>8, <1>9, <1>10 DEF WriterOK, Lost, t

(* What was not written is lost, and the stream is in error. *)
LEMMA GivenUpDelivers ==
  ASSUME NEW g \in Records, NEW f \in Seq(Nat), WriterOK(g, f), "ERR" \notin g.flag,
         NEW b \in Records, b = Buffered(g), NEW k \in Nat, k <= Len(b.buf)
  PROVE  LET w == GivenUp(b, k) IN
         /\ w \in Records /\ w.name = g.name /\ SubSeq(b.buf, 1, k) \in Seq(Nat)
         /\ WriterOK(w, f \o SubSeq(b.buf, 1, k))
<1> DEFINE w == GivenUp(b, k)
<1>1. b.flag = g.flag /\ b.base /\ b.name = g.name
  BY BufferedIs
<1>2. /\ w \in Records /\ w.flag = b.flag \cup {"ERR"} /\ w.buf = <<>> /\ w.ptr = 0
      /\ w.cnt = 0 /\ w.name = b.name
  BY GivenUpIs
<1> HIDE DEF w
<1>3. SubSeq(b.buf, 1, k) \in Seq(Nat)
  <2>1. b.buf \in Seq(Nat) /\ 0 + k <= Len(b.buf) /\ 0 + 1 = 1 /\ 0 + k = k
    BY FieldsOf
  <2>2. SubSeq(b.buf, 0 + 1, 0 + k) \in Seq(Nat)
    BY <2>1, PieceIs
  <2>3. QED
    BY <2>1, <2>2
<1>4. OutputFlags(w)
  BY <1>1, <1>2 DEF OutputFlags, WriterOK
<1>5. Room(w)
  <2>1. Len(<<>>) = 0
    BY EmptySeq
  <2>2. QED
    BY <1>2, <2>1, SizeIs DEF Room
<1>6. BaseOK(w)
  BY <1>2, Zenon DEF BaseOK
<1>7. "ERR" \in w.flag
  BY <1>2
<1>8. QED
  BY <1>1, <1>2, <1>3, <1>4, <1>5, <1>6, <1>7 DEF WriterOK, Lost, OutputPlace, w

(* g_flushbuf(): what is written goes behind the end of the file. *)
LEMMA FlushDelivers ==
  ASSUME NEW g \in Records, NEW f \in Seq(Nat), WriterOK(g, f), NEW more \in Int,
         NEW r \in g_flushbuf(more, g)
  PROVE  Delivered(g, r, f)
<1> DEFINE b == Buffered(g)
           w == WrittenOut(b, b.ptr)
<1>1. <<>> \in Seq(Nat) /\ EOF \in Int /\ 0 \in Int
  BY EmptySeq DEF EOF
<1>2. f \o <<>> = f
  BY ConcatEmptySeq
<1>3. ASSUME NEW bad, r = Result(g, <<>>, EOF, bad) PROVE Delivered(g, r, f)
  <2>1. r.g = g /\ r.out = <<>> /\ r.ret = EOF
    BY <1>3 DEF Result
  <2>2. WriterOK(r.g, f \o r.out)
    BY <1>2, <2>1
  <2>3. QED
    BY <1>1, <2>1, <2>2, Zenon DEF Delivered
<1>4. CASE g.flag \cap {"WRITE", "EOF", "ERR"} # {"WRITE"}
  <2>1. r = Result(g, <<>>, EOF, FALSE)
    BY <1>4 DEF g_flushbuf
  <2>2. QED
    BY <1>3, <2>1
<1>5. CASE g.flag \cap {"WRITE", "EOF", "ERR"} = {"WRITE"}
  <2>1. "ERR" \notin g.flag
    BY <1>5
  <2>2. /\ b \in Records /\ b.flag = g.flag /\ b.buf = g.buf /\ b.ptr = g.ptr /\ b.name = g.name
        /\ b.ptr + b.cnt = bufsize(g)
    BY <2>1, BufferedIs
  <2>3. /\ WriterOK(w, f \o b.buf) /\ w \in Records /\ w.name = g.name
        /\ w.flag = g.flag /\ w.cnt >= 1
    BY <2>1, <2>2, WholeDelivers
  <2>4. /\ b.ptr \in Nat /\ b.cnt \in Int /\ b.buf \in Seq(Nat) /\ Len(b.buf) = b.ptr
        /\ bufsize(g) \in Nat
    BY <2>2, FieldsOf, SizeIs DEF WriterOK, Room
  <2>5. bufsize(g) - b.cnt = b.ptr
    BY <2>2, <2>4
  <2>6. SubSeq(b.buf, 1, b.ptr) = b.buf
    BY <2>4, SubSeqFull
  <2>7. g.off = Len(f)
    BY <2>1 DEF WriterOK, OutputPlace
  <2> HIDE DEF b, w
  <2>8. \/ r = Result(g, <<>>, EOF, TRUE)
        \/ r = Result(IF more >= 0 THEN Store(w, more) ELSE w, b.buf, 0, FALSE)
        \/ \E k \in 0 .. b.ptr - 1 : r = Result(GivenUp(b, k), SubSeq(b.buf, 1, k), EOF, TRUE)
    <3>1. \/ r = Result(g, <<>>, EOF, TRUE)
          \/ r = Result(IF more >= 0 THEN Store(WrittenOut(b, bufsize(g) - b.cnt), more)
                                     ELSE WrittenOut(b, bufsize(g) - b.cnt),
                        SubSeq(b.buf, 1, bufsize(g) - b.cnt), 0, FALSE)
          \/ \E k \in 0 .. (bufsize(g) - b.cnt) - 1 :
               r = Result(GivenUp(b, k), SubSeq(b.buf, 1, k), EOF, TRUE)
      BY <1>5 DEF g_flushbuf, b, Buffered
    <3>2. QED
      BY <2>5, <2>6, <3>1, Zenon DEF w
  <2>9. ASSUME r = Result(IF more >= 0 THEN Store(w, more) ELSE w, b.buf, 0, FALSE)
        PROVE  Delivered(g, r, f)
    <3>1. r.out = b.buf /\ r.ret = 0 /\ r.g = IF more >= 0 THEN Store(w, more) ELSE w
      BY <2>9 DEF Result
    <3>2. f \o b.buf \in Seq(Nat)
      BY <2>4, ConcatIs
    <3>3. WriterOK(r.g, f \o b.buf) /\ r.g \in Records /\ r.g.name = g.name /\ r.g.flag = g.flag
      <4>1. CASE more >= 0
        <5>1. r.g = Store(w, more) /\ more \in Nat
          BY <3>1, <4>1
        <5>2. \A F \in Seq(Nat) : WriterOK(w, F) =>
                /\ WriterOK(Store(w, more), F) /\ Store(w, more) \in Records
                /\ Store(w, more).name = w.name /\ Store(w, more).flag = w.flag
          BY <2>3, <5>1, StoreDelivers
        <5>3. QED
          BY <2>3, <3>2, <5>1, <5>2
      <4>2. CASE ~(more >= 0)
        BY <2>3, <3>1, <4>2
      <4>3. QED
        BY <4>1, <4>2
    <3>4. QED
      BY <1>1, <2>1, <2>4, <2>7, <3>1, <3>3, Zenon DEF Delivered
  <2>10. ASSUME NEW k \in 0 .. b.ptr - 1,
                r = Result(GivenUp(b, k), SubSeq(b.buf, 1, k), EOF, TRUE)
         PROVE  Delivered(g, r, f)
    <3>1. k \in Nat /\ k <= Len(b.buf)
      BY <2>4
    <3>2. /\ r.g = GivenUp(b, k) /\ r.out = SubSeq(b.buf, 1, k) /\ r.ret = EOF
          /\ r.bad
      BY <2>10, Zenon DEF Result
    <3>3. /\ GivenUp(b, k) \in Records /\ GivenUp(b, k).name = g.name
          /\ SubSeq(b.buf, 1, k) \in Seq(Nat)
          /\ WriterOK(GivenUp(b, k), f \o SubSeq(b.buf, 1, k))
      BY <2>1, <2>2, <3>1, GivenUpDelivers DEF b
    <3>4. QED
      BY <1>1, <2>7, <3>2, <3>3, Zenon DEF Delivered
  <2>11. QED
    BY <1>3, <2>8, <2>9, <2>10, Zenon
<1>6. QED
  BY <1>4, <1>5

(* g_putc() *)
LEMMA PutcDelivers ==
  ASSUME NEW g \in Records, NEW f \in Seq(Nat), WriterOK(g, f), NEW khar \in Nat,
         NEW r \in g_putc(khar, g)
  PROVE  Delivered(g, r, f)
<1>1. g.cnt \in Int
  BY FieldsOf
<1>2. CASE g.cnt > 0
  <2>1. r = Result(Store(g, khar), <<>>, khar, FALSE)
    BY <1>2 DEF g_putc
  <2>2. r.g = Store(g, khar) /\ r.out = <<>> /\ r.ret = khar
    BY <2>1 DEF Result
  <2>3. g.cnt >= 1
    BY <1>1, <1>2
  <2>4. WriterOK(r.g, f) /\ r.g \in Records /\ r.g.name = g.name /\ r.g.flag = g.flag
    BY <2>2, <2>3, StoreDelivers
  <2>5. f \o r.out = f
    BY <2>2, ConcatEmptySeq
  <2>6. r.out \in Seq(Nat) /\ r.ret \in Int
    BY <2>2, EmptySeq
  <2>7. WriterOK(r.g, f \o r.out)
    BY <2>4, <2>5
  <2>8. QED
    BY <2>2, <2>4, <2>6, <2>7, Zenon DEF Delivered
<1>3. CASE ~(g.cnt > 0)
  <2>1. PICK q \in g_flushbuf(khar, g) :
          r = [q EXCEPT !.ret = IF q.ret < 0 THEN EOF ELSE khar]
    BY <1>3 DEF g_putc
  <2>2. Delivered(g, q, f)
    <3>1. khar \in Int
      OBVIOUS
    <3>2. QED
      BY <3>1, FlushDelivers
  <2>3. \E h, o, v, d : q = Result(h, o, v, d)
    BY Zenon DEF g_flushbuf
  <2>4. r.g = q.g /\ r.out = q.out /\ r.bad = q.bad /\ r.ret \in Int
    BY <2>1, <2>3 DEF Result, EOF
  <2>5. QED
    BY <2>2, <2>4, Zenon DEF Delivered
<1>4. QED
  BY <1>2, <1>3

-----------------------------------------------------------------------------
(* What becomes of a stream that is read, when it is sent elsewhere.        *)
Sent(g, r, f) ==
  /\ r.g \in Records /\ r.g.name = g.name /\ r.out = <<>>
  /\ ReaderOK(r.g, f)
  /\ "ERR" \in r.g.flag => r.bad \/ "ERR" \in g.flag

(* A seek that fails leaves the stream where it is. *)
LEMMA SeekErrorSent ==
  ASSUME NEW g \in Records, NEW f \in Seq(Nat), ReaderOK(g, f)
  PROVE  Sent(g, SeekError(g), f)
<1>1. PICK fl \in SUBSET {"READ", "WRITE", "UNBUF", "EOF", "ERR"} : fl = g.flag \cup {"ERR"}
  BY FieldsOf
<1>2. PICK e : e = [g EXCEPT !.flag = fl]
  OBVIOUS
<1>3. /\ e \in Records /\ e.flag = fl /\ e.base = g.base /\ e.buf = g.buf /\ e.ptr = g.ptr
      /\ e.cnt = g.cnt /\ e.name = g.name /\ e.off = g.off
  BY <1>2 DEF Records
<1>4. SeekError(g) = Result(e, <<>>, EOF, TRUE)
  BY <1>1, <1>2 DEF SeekError
<1>5. PICK r : r = SeekError(g) /\ r = Result(e, <<>>, EOF, TRUE)
  BY <1>4
<1>6. r.g = e /\ r.out = <<>> /\ r.bad
  <2>1. r = Result(e, <<>>, EOF, TRUE)
    BY <1>5
  <2>2. QED
    BY <2>1, Zenon DEF Result
<1>7. InputFlags(e) /\ InputPlace(e)
  BY <1>1, <1>3 DEF ReaderOK, InputFlags, InputPlace
<1>8. Filled(e)
  BY <1>3 DEF ReaderOK, Filled, Unread
<1>9. Copied(e, f)
  BY <1>3 DEF ReaderOK, Copied
<1>10. BaseOK(e)
  BY <1>3, Zenon DEF ReaderOK, BaseOK
<1>11. AtEnd(e, f)
  BY <1>1, <1>3 DEF ReaderOK, AtEnd
<1>12. ReaderOK(e, f)
  BY <1>7, <1>8, <1>9, <1>10, <1>11 DEF ReaderOK
<1>13. QED
  BY <1>3, <1>5, <1>6, <1>12, Zenon DEF Sent

(* The pointer moves in the buffer. *)
LEMMA SteppedSent ==
  ASSUME NEW g \in Records, NEW f \in Seq(Nat), ReaderOK(g, f), "EOF" \notin g.flag,
         NEW diff \in Int, g.ptr + diff >= 0, diff < g.cnt
  PROVE  LET e == [g EXCEPT !.ptr = @ + diff, !.cnt = @ - diff] IN
         /\ e \in Records /\ e.name = g.name /\ e.flag = g.flag /\ ReaderOK(e, f)
<1> DEFINE e == [g EXCEPT !.ptr = @ + diff, !.cnt = @ - diff]
<1>1. g.ptr \in Nat /\ g.cnt \in Int /\ Len(g.buf) \in Nat
  BY FieldsOf
<1>2. PICK p \in Nat, c \in Int : p = g.ptr + diff /\ c = g.cnt - diff
  BY <1>1
<1>3. e = [g EXCEPT !.ptr = p, !.cnt = c]
  BY <1>2
<1> HIDE DEF e
<1>4. /\ e \in Records /\ e.flag = g.flag /\ e.base = g.base /\ e.buf = g.buf /\ e.ptr = p
      /\ e.cnt = c /\ e.baseposition = g.baseposition /\ e.name = g.name /\ e.off = g.off
  BY <1>3 DEF Records
<1>5. g.cnt >= 0 /\ c > 0
  BY <1>1, <1>2 DEF ReaderOK, AtEnd
<1>6. Unread(g) = g.cnt /\ Unread(e) = c
  BY <1>1, <1>4, <1>5 DEF Unread
<1>7. InputFlags(e) /\ InputPlace(e)
  BY <1>4 DEF ReaderOK, InputFlags, InputPlace
<1>8. Filled(e)
  BY <1>1, <1>2, <1>4, <1>6 DEF ReaderOK, Filled
<1>9. Copied(e, f)
  BY <1>4 DEF ReaderOK, Copied
<1>10. BaseOK(e)
  <2>1. g.cnt # 0 \/ g.ptr # 0
    BY <1>1, <1>2, <1>5
  <2>2. g.base
    BY <2>1, Zenon DEF ReaderOK, BaseOK
  <2>3. QED
    BY <1>4, <2>2, Zenon DEF BaseOK
<1>11. AtEnd(e, f)
  BY <1>4, <1>5 DEF AtEnd
<1>12. QED
  BY <1>4, <1>7, <1>8, <1>9, <1>10, <1>11 DEF ReaderOK, e

(* A seek in the buffer or past it leaves a copy of the file in the buffer. *)
LEMMA MovedSent ==
  ASSUME NEW g \in Records, NEW f \in Seq(Nat), ReaderOK(g, f),
         "EOF" \notin g.flag, "ERR" \notin g.flag,
         NEW desired \in Int, NEW r \in Moved(g, desired)
  PROVE  Sent(g, r, f)
<1> DEFINE diff == desired - (g.baseposition + g.ptr)
<1>1. g.ptr \in Nat /\ g.cnt \in Int /\ g.baseposition \in Int
  BY FieldsOf
<1>2. diff \in Int
  BY <1>1
<1>3. CASE InBuffer(g, desired)
  <2> DEFINE e == [g EXCEPT !.ptr = @ + diff, !.cnt = @ - diff]
  <2>1. r = Result(e, <<>>, 0, FALSE)
    BY <1>3 DEF Moved
  <2>2. g.ptr + diff >= 0 /\ diff < g.cnt
    BY <1>1, <1>3 DEF InBuffer
  <2> HIDE DEF diff
  <2>3. e \in Records /\ e.name = g.name /\ e.flag = g.flag /\ ReaderOK(e, f)
    BY <1>2, <2>2, SteppedSent
  <2> HIDE DEF e
  <2>4. r.g = e /\ r.out = <<>>
    BY <2>1 DEF Result
  <2>5. QED
    BY <2>3, <2>4, Zenon DEF Sent
<1>4. CASE ~InBuffer(g, desired)
  <2> DEFINE e == [Emptied(g) EXCEPT !.cnt = 0, !.baseposition = desired, !.off = desired]
  <2>1. \/ r = SeekError(g)
        \/ desired >= 0 /\ r = Result(e, <<>>, 0, FALSE)
    <3>1. r \in {SeekError(g)} \cup
                IF desired < 0 \/ g.name \in Terminals THEN {}
                ELSE {Result(e, <<>>, 0, FALSE)}
      BY <1>4, Zenon DEF Moved
    <3> HIDE DEF e
    <3>2. CASE desired < 0 \/ g.name \in Terminals
      BY <3>1, <3>2, Zenon
    <3>3. CASE ~(desired < 0 \/ g.name \in Terminals)
      <4>1. r = SeekError(g) \/ r = Result(e, <<>>, 0, FALSE)
        BY <3>1, <3>3, Zenon
      <4>2. desired >= 0
        BY <3>3
      <4>3. QED
        BY <4>1, <4>2, Zenon
    <3>4. QED
      BY <3>2, <3>3
  <2>2. CASE r = SeekError(g)
    BY <2>2, SeekErrorSent
  <2>3. ASSUME desired >= 0, r = Result(e, <<>>, 0, FALSE) PROVE Sent(g, r, f)
    <3>1. PICK o \in Nat : o = desired
      BY <2>3
    <3>2. PICK c \in Int, d \in Int : c = 0 /\ d = o
      OBVIOUS
    <3>3. e = [g EXCEPT !.buf = <<>>, !.ptr = 0, !.cnt = c, !.baseposition = d, !.off = o]
      BY <3>1, <3>2 DEF Emptied
    <3>4. <<>> \in Seq(Nat) /\ 0 \in Nat
      BY EmptySeq
    <3> HIDE DEF e
    <3>5. e \in Records
      BY <3>3, <3>4 DEF Records
    <3>6. /\ e.flag = g.flag /\ e.buf = <<>> /\ e.ptr = 0 /\ e.cnt = 0
          /\ e.baseposition = e.off /\ e.name = g.name
      BY <3>2, <3>3 DEF Records
    <3>7. InputFlags(e) /\ "EOF" \notin e.flag
      BY <3>6 DEF ReaderOK, InputFlags
    <3>8. BaseOK(e)
      BY <3>6, Zenon DEF BaseOK
    <3>9. ReaderOK(e, f)
      BY <3>5, <3>6, <3>7, <3>8, EmptyReader
    <3>10. r.g = e /\ r.out = <<>>
      BY <2>3 DEF Result
    <3>11. QED
      BY <3>5, <3>6, <3>9, <3>10, Zenon DEF Sent
  <2>4. QED
    BY <2>1, <2>2, <2>3
<1>5. QED
  BY <1>3, <1>4

(* g_seek(), from the end of the file too. *)
LEMMA SeekSent ==
  ASSUME NEW g \in Records, NEW f \in Seq(Nat), ReaderOK(g, f),
         NEW offset \in Int, NEW whence, NEW r \in g_seek(g, offset, whence)
  PROVE  Sent(g, r, f)
<1>1. ASSUME NEW h \in Records PROVE Desired(h, offset, whence) \in Int
  BY FieldsOf DEF Desired
<1>2. CASE g.flag \cap {"READ", "ERR"} # {"READ"}
  <2>1. r = Result(g, <<>>, EOF, FALSE)
    BY <1>2 DEF g_seek
  <2>2. r.g = g /\ r.out = <<>>
    BY <2>1 DEF Result
  <2>3. QED
    BY <2>2, Zenon DEF Sent
<1>3. CASE g.flag \cap {"READ", "ERR"} = {"READ"} /\ "EOF" \in g.flag
  <2> DEFINE e == Rewound(g)
  <2>1. r = SeekError(g) \/ r \in Moved(e, Desired(e, offset, whence))
    BY <1>3 DEF g_seek
  <2>2. PICK fl \in SUBSET {"READ", "WRITE", "UNBUF", "EOF", "ERR"} : fl = g.flag \ {"EOF"}
    BY FieldsOf
  <2>3. e = [g EXCEPT !.buf = <<>>, !.ptr = 0, !.flag = fl, !.baseposition = 0, !.cnt = 0,
                      !.off = 0]
    BY <2>2 DEF Rewound, Emptied
  <2>4. <<>> \in Seq(Nat) /\ 0 \in Nat /\ 0 \in Int
    BY EmptySeq
  <2> HIDE DEF e
  <2>5. e \in Records
    BY <2>3, <2>4 DEF Records
  <2>6. /\ e.flag = fl /\ e.buf = <<>> /\ e.ptr = 0 /\ e.cnt = 0 /\ e.baseposition = 0
        /\ e.off = 0 /\ e.name = g.name
    BY <2>3 DEF Records
  <2>7. InputFlags(e) /\ "EOF" \notin e.flag /\ "ERR" \notin e.flag
    BY <1>3, <2>2, <2>6 DEF ReaderOK, InputFlags
  <2>8. BaseOK(e)
    BY <2>6, Zenon DEF BaseOK
  <2>9. ReaderOK(e, f)
    BY <2>5, <2>6, <2>7, <2>8, EmptyReader
  <2>10. CASE r = SeekError(g)
    BY <2>10, SeekErrorSent
  <2>11. CASE r \in Moved(e, Desired(e, offset, whence))
    <3>1. Sent(e, r, f)
      BY <1>1, <2>5, <2>7, <2>9, <2>11, MovedSent
    <3>2. QED
      BY <2>6, <2>7, <3>1, Zenon DEF Sent
  <2>12. QED
    BY <2>1, <2>10, <2>11
<1>4. CASE g.flag \cap {"READ", "ERR"} = {"READ"} /\ "EOF" \notin g.flag
  <2>1. r \in Moved(g, Desired(g, offset, whence))
    BY <1>4, Zenon DEF g_seek
  <2>a. "ERR" \notin g.flag
    BY <1>4
  <2>2. QED
    BY <1>1, <1>4, <2>1, <2>a, MovedSent
<1>5. QED
  BY <1>2, <1>3, <1>4

-----------------------------------------------------------------------------
(* One call on one stream, on the files fs. *)
Becomes(g, r, fs) ==
  /\ r.g \in Records /\ r.out \in Seq(Nat)
  /\ \/ r.g = Free
     \/ /\ r.g.name = g.name /\ g.name \in Names /\ fs[g.name] \in Seq(Nat)
        /\ \/ r.out = <<>> /\ ReaderOK(r.g, fs[g.name])
           \/ WriterOK(r.g, fs[g.name] \o r.out)
  /\ \/ r.out = <<>>
     \/ g.name \in Names /\ fs[g.name] \in Seq(Nat) /\ g.off = Len(fs[g.name])
  /\ "ERR" \in r.g.flag => r.bad \/ "ERR" \in g.flag

(* A write at the end of a file appends to it and touches no other. *)
LEMMA WriteAtIs ==
  ASSUME NEW fs \in Contents, NEW g \in Records, NEW bytes \in Seq(Nat),
         \/ bytes = <<>>
         \/ g.name \in Names /\ fs[g.name] \in Seq(Nat) /\ g.off = Len(fs[g.name])
  PROVE  LET w == WriteAt(fs, g, bytes) IN
         /\ w \in Contents
         /\ \A n \in Names : n # g.name => w[n] = fs[n]
         /\ bytes = <<>> => w = fs
         /\ g.name \in Names /\ fs[g.name] \in Seq(Nat) => w[g.name] = fs[g.name] \o bytes
<1>1. CASE bytes = <<>>
  <2>1. WriteAt(fs, g, bytes) = fs
    BY <1>1 DEF WriteAt
  <2>2. fs[g.name] \in Seq(Nat) => fs[g.name] \o bytes = fs[g.name]
    BY <1>1, ConcatEmptySeq
  <2>3. QED
    BY <2>1, <2>2
<1>2. CASE bytes # <<>>
  <2>1. g.name \in Names /\ fs[g.name] \in Seq(Nat) /\ g.off = Len(fs[g.name])
    BY <1>2
  <2>2. PICK f \in Seq(Nat) : f = fs[g.name]
    BY <2>1
  <2>3. Len(f) \in Nat /\ Len(bytes) \in Nat
    BY LenProperties
  <2>4. SubSeq(f, 1, g.off) = f
    BY <2>1, <2>2, SubSeqFull
  <2>5. SubSeq(f, g.off + Len(bytes) + 1, Len(f)) = <<>>
    <3>1. g.off + Len(bytes) + 1 \in Int /\ Len(f) \in Int /\ Len(f) < g.off + Len(bytes) + 1
      BY <2>1, <2>2, <2>3
    <3>2. QED
      BY <3>1, SubSeqEmpty
  <2>6. f \o bytes \in Seq(Nat) /\ (f \o bytes) \o <<>> = f \o bytes
    BY ConcatIs, ConcatEmptySeq
  <2>7. WriteAt(fs, g, bytes) = [fs EXCEPT ![g.name] = f \o bytes]
    <3>1. WriteAt(fs, g, bytes)
            = [fs EXCEPT ![g.name] = SubSeq(f, 1, g.off) \o bytes
                                     \o SubSeq(f, g.off + Len(bytes) + 1, Len(f))]
      BY <1>2, <2>2 DEF WriteAt
    <3>2. QED
      BY <2>4, <2>5, <2>6, <3>1
  <2>8. PICK q \in Seq(Nat) : q = f \o bytes
    BY <2>6
  <2>9. WriteAt(fs, g, bytes) = [fs EXCEPT ![g.name] = q]
    BY <2>7, <2>8
  <2>10. QED
    BY <1>2, <2>1, <2>2, <2>8, <2>9 DEF Contents
<1>3. QED
  BY <1>1, <1>2

(* Every stream is still right when one has become what it may. *)
LEMMA OneStream ==
  ASSUME NEW i, NEW fs, NEW tr, StreamsAre(i, fs, tr), NEW s \in Slots, NEW r,
         Becomes(i[s], r, fs), NEW tr2 \in SUBSET Slots, tr \subseteq tr2, r.bad => s \in tr2
  PROVE  StreamsAre([i EXCEPT ![s] = r.g], WriteAt(fs, i[s], r.out), tr2)
<1> DEFINE j == [i EXCEPT ![s] = r.g]
           w == WriteAt(fs, i[s], r.out)
<1>1. i \in [Slots -> Records] /\ fs \in Contents
  BY DEF StreamsAre
<1>2. r.out \in Seq(Nat) /\ r.g \in Records
  BY DEF Becomes
<1>3. /\ w \in Contents
      /\ \A n \in Names : n # i[s].name => w[n] = fs[n]
      /\ i[s].name \in Names /\ fs[i[s].name] \in Seq(Nat)
           => w[i[s].name] = fs[i[s].name] \o r.out
  <2>1. \/ r.out = <<>>
        \/ i[s].name \in Names /\ fs[i[s].name] \in Seq(Nat) /\ i[s].off = Len(fs[i[s].name])
    BY DEF Becomes
  <2>2. PICK g \in Records, bytes \in Seq(Nat) : g = i[s] /\ bytes = r.out
    BY <1>1, <1>2
  <2>3. \/ bytes = <<>>
        \/ g.name \in Names /\ fs[g.name] \in Seq(Nat) /\ g.off = Len(fs[g.name])
    BY <1>2, <2>1, <2>2
  <2>4. w = WriteAt(fs, g, bytes)
    BY <2>2
  <2> HIDE DEF w
  <2>5. /\ w \in Contents
        /\ \A n \in Names : n # g.name => w[n] = fs[n]
        /\ g.name \in Names /\ fs[g.name] \in Seq(Nat) => w[g.name] = fs[g.name] \o bytes
    BY <1>1, <2>3, <2>4, WriteAtIs
  <2>6. QED
    BY <2>2, <2>5
<1>4. /\ j \in [Slots -> Records] /\ j[s] = r.g
      /\ \A t \in Slots : t # s => j[t] = i[t]
  BY <1>1, <1>2
<1> HIDE DEF j, w
<1>5. ASSUME NEW t \in Slots PROVE StreamOK(j[t], w)
  <2>1. CASE t # s
    <3>1. StreamOK(i[t], fs) /\ j[t] = i[t]
      BY <1>4, <2>1 DEF StreamsAre
    <3>2. i[t].name = NoFile \/ i[t].name # i[s].name
      BY <2>1 DEF StreamsAre
    <3>3. i[t].name \in Names => w[i[t].name] = fs[i[t].name]
      BY <1>3, <3>2, ConstantsAssumption
    <3>4. QED
      BY <3>1, <3>3, Zenon DEF StreamOK
  <2>2. CASE t = s
    <3>1. CASE r.g = Free
      BY <1>4, <2>2, <3>1, Zenon DEF StreamOK
    <3>2. CASE r.g # Free
      <4>1. /\ r.g.name = i[s].name /\ i[s].name \in Names /\ fs[i[s].name] \in Seq(Nat)
            /\ \/ r.out = <<>> /\ ReaderOK(r.g, fs[i[s].name])
               \/ WriterOK(r.g, fs[i[s].name] \o r.out)
        BY <3>2 DEF Becomes
      <4>2. PICK n \in Names : n = i[s].name
        BY <4>1
      <4>3. w[n] = fs[n] \o r.out /\ w[n] \in Seq(Nat)
        BY <1>2, <1>3, <4>1, <4>2, ConcatIs
      <4>4. r.out = <<>> => w[n] = fs[n]
        BY <4>1, <4>2, <4>3, ConcatEmptySeq
      <4>5. j[t] = r.g /\ r.g.name = n
        BY <1>4, <2>2, <4>1, <4>2
      <4>6. ReaderOK(r.g, w[n]) \/ WriterOK(r.g, w[n])
        BY <4>1, <4>2, <4>3, <4>4
      <4>7. QED
        BY <4>3, <4>5, <4>6 DEF StreamOK
    <3>3. QED
      BY <3>1, <3>2
  <2>3. QED
    BY <2>1, <2>2
<1>6. r.g.name = NoFile \/ r.g.name = i[s].name
  BY FreeIs DEF Becomes
<1>7. ASSUME NEW t \in Slots, NEW u \in Slots, t # u
      PROVE  j[t].name = NoFile \/ j[t].name # j[u].name
  <2>1. /\ i[t].name = NoFile \/ i[t].name # i[u].name
        /\ i[u].name = NoFile \/ i[u].name # i[t].name
    BY <1>7 DEF StreamsAre
  <2>2. /\ j[t].name = NoFile \/ j[t].name = i[t].name
        /\ j[u].name = NoFile \/ j[u].name = i[u].name
    BY <1>4, <1>6
  <2>3. QED
    BY <2>1, <2>2
<1>8. ASSUME NEW t \in Slots, "ERR" \in j[t].flag PROVE t \in tr2
  <2>1. "ERR" \in i[t].flag => t \in tr2
    BY DEF StreamsAre
  <2>2. CASE t # s
    BY <1>4, <1>8, <2>1, <2>2
  <2>3. CASE t = s
    <3>1. "ERR" \in r.g.flag
      BY <1>4, <1>8, <2>3
    <3>2. r.bad \/ "ERR" \in i[s].flag
      BY <3>1, Zenon DEF Becomes
    <3>3. QED
      BY <2>1, <2>3, <3>2, Zenon
  <2>4. QED
    BY <2>2, <2>3
<1>9. StreamsAre(j, w, tr2)
  BY <1>3, <1>4, <1>5, <1>7, <1>8 DEF StreamsAre
<1>10. QED
  BY <1>9 DEF j, w

(* A stream open for reading is one of ReaderOK. *)
LEMMA InputIs ==
  ASSUME NEW g, NEW fs, StreamOK(g, fs), "READ" \in g.flag
  PROVE  g.name \in Names /\ fs[g.name] \in Seq(Nat) /\ ReaderOK(g, fs[g.name])
<1>1. g # Free
  BY FreeIs
<1>2. ~WriterOK(g, fs[g.name])
  BY DEF WriterOK, OutputFlags
<1>3. QED
  BY <1>1, <1>2, Zenon DEF StreamOK

(* A stream open for writing is one of WriterOK. *)
LEMMA OutputIs ==
  ASSUME NEW g, NEW fs, StreamOK(g, fs), "WRITE" \in g.flag
  PROVE  g.name \in Names /\ fs[g.name] \in Seq(Nat) /\ WriterOK(g, fs[g.name])
<1>1. g # Free
  BY FreeIs
<1>2. ~ReaderOK(g, fs[g.name])
  BY DEF ReaderOK, InputFlags
<1>3. QED
  BY <1>1, <1>2, Zenon DEF StreamOK

(* A call that leaves the stream alone. *)
LEMMA SameBecomes ==
  ASSUME NEW g \in Records, NEW fs, StreamOK(g, fs), NEW r, r.g = g, r.out = <<>>
  PROVE  Becomes(g, r, fs)
<1>1. r.out \in Seq(Nat) /\ r.g \in Records
  BY EmptySeq
<1>2. "ERR" \in r.g.flag => "ERR" \in g.flag
  OBVIOUS
<1>3. CASE g = Free
  BY <1>1, <1>2, <1>3, Zenon DEF Becomes
<1>4. CASE g # Free
  <2>1. g.name \in Names /\ fs[g.name] \in Seq(Nat) /\ (ReaderOK(g, fs[g.name]) \/ WriterOK(g, fs[g.name]))
    BY <1>4, Zenon DEF StreamOK
  <2>2. fs[g.name] \o r.out = fs[g.name]
    BY <2>1, ConcatEmptySeq
  <2>3. ReaderOK(r.g, fs[g.name]) \/ WriterOK(r.g, fs[g.name] \o r.out)
    BY <2>1, <2>2
  <2>4. QED
    BY <1>1, <1>2, <2>1, <2>3, Zenon DEF Becomes
<1>5. QED
  BY <1>3, <1>4

(* g_getc() as what becomes of a stream. *)
LEMMA GetcBecomes ==
  ASSUME NEW g \in Records, StreamOK(g, file), "READ" \in g.flag, NEW r \in g_getc(g)
  PROVE  Becomes(g, r, file) /\ Served(g, r, file[g.name])
<1>1. g.name \in Names /\ file[g.name] \in Seq(Nat) /\ ReaderOK(g, file[g.name])
  BY InputIs
<1>2. Served(g, r, file[g.name])
  BY <1>1, GetcServes
<1>3. <<>> \in Seq(Nat)
  BY EmptySeq
<1>4. QED
  BY <1>1, <1>2, <1>3, Zenon DEF Served, Becomes

(* g_seek() as what becomes of a stream. *)
LEMMA SeekBecomes ==
  ASSUME NEW g \in Records, StreamOK(g, file), "READ" \in g.flag,
         NEW offset \in Int, NEW whence, NEW r \in g_seek(g, offset, whence)
  PROVE  Becomes(g, r, file)
<1>1. g.name \in Names /\ file[g.name] \in Seq(Nat) /\ ReaderOK(g, file[g.name])
  BY InputIs
<1>2. Sent(g, r, file[g.name])
  BY <1>1, SeekSent
<1>3. <<>> \in Seq(Nat)
  BY EmptySeq
<1>4. QED
  BY <1>1, <1>2, <1>3, Zenon DEF Sent, Becomes

(* A delivery as what becomes of a stream. *)
LEMMA DeliveredBecomes ==
  ASSUME NEW g, NEW r, g.name \in Names, file[g.name] \in Seq(Nat),
         Delivered(g, r, file[g.name])
  PROVE  Becomes(g, r, file)
BY Zenon DEF Delivered, Becomes

(* g_putc() as what becomes of a stream. *)
LEMMA PutcBecomes ==
  ASSUME NEW g \in Records, StreamOK(g, file), "WRITE" \in g.flag,
         NEW khar \in Nat, NEW r \in g_putc(khar, g)
  PROVE  Becomes(g, r, file) /\ r.ret \in Int /\ "WRITE" \in r.g.flag
<1>1. g.name \in Names /\ file[g.name] \in Seq(Nat) /\ WriterOK(g, file[g.name])
  BY OutputIs
<1>2. Delivered(g, r, file[g.name])
  BY <1>1, PutcDelivers
<1>3. r.ret \in Int /\ "WRITE" \in r.g.flag
  BY <1>2 DEF Delivered, WriterOK, OutputFlags
<1>4. QED
  BY <1>1, <1>2, <1>3, DeliveredBecomes

(* g_flushbuf() as what becomes of a stream. *)
LEMMA FlushBecomes ==
  ASSUME NEW g \in Records, StreamOK(g, file), NEW more \in Int, NEW r \in g_flushbuf(more, g)
  PROVE  Becomes(g, r, file)
<1>1. CASE "WRITE" \in g.flag
  <2>1. g.name \in Names /\ file[g.name] \in Seq(Nat) /\ WriterOK(g, file[g.name])
    BY <1>1, OutputIs
  <2>2. Delivered(g, r, file[g.name])
    BY <2>1, FlushDelivers
  <2>3. QED
    BY <2>1, <2>2, DeliveredBecomes
<1>2. CASE "WRITE" \notin g.flag
  <2>1. r = Result(g, <<>>, EOF, FALSE)
    BY <1>2 DEF g_flushbuf
  <2>2. r.g = g /\ r.out = <<>>
    BY <2>1 DEF Result
  <2>3. QED
    BY <2>2, SameBecomes
<1>3. QED
  BY <1>1, <1>2

(* g_close() as what becomes of a stream. *)
LEMMA CloseBecomes ==
  ASSUME NEW g \in Records, StreamOK(g, file), NEW r \in g_close(g)
  PROVE  Becomes(g, r, file)
<1>1. PICK q : /\ \/ q \in g_flushbuf(32, g) \/ q = Result(g, <<>>, 0, FALSE)
               /\ r = [q EXCEPT !.g = Free]
  BY DEF g_close
<1>2. Becomes(g, q, file)
  <2>1. CASE q \in g_flushbuf(32, g)
    <3>1. 32 \in Int
      OBVIOUS
    <3>2. QED
      BY <2>1, <3>1, FlushBecomes
  <2>2. CASE q = Result(g, <<>>, 0, FALSE)
    <3>1. q.g = g /\ q.out = <<>>
      BY <2>2 DEF Result
    <3>2. QED
      BY <3>1, SameBecomes
  <2>3. QED
    BY <1>1, <2>1, <2>2
<1>3. \E h, o, v, d : q = Result(h, o, v, d)
  <2>1. CASE q \in g_flushbuf(32, g)
    BY <2>1, Zenon DEF g_flushbuf
  <2>2. QED
    BY <1>1, <2>1, Zenon
<1>4. r.g = Free /\ r.out = q.out
  BY <1>1, <1>3 DEF Result
<1>5. Free \in Records /\ "ERR" \notin Free.flag
  BY FreeIs
<1>6. QED
  BY <1>2, <1>4, <1>5, Zenon DEF Becomes

-----------------------------------------------------------------------------
(* What becomes of stdout when another stream is read. *)
LEMMA StdoutBecomes ==
  ASSUME StreamsOK, NEW s \in Slots, NEW f \in Sync(s)
  PROVE  Becomes(iob[stdout], f, file) /\ (f = NoSync \/ s = stdin)
<1>1. iob[stdout] \in Records /\ StreamOK(iob[stdout], file)
  BY Bounds DEF StreamsOK, StreamsAre
<1>2. CASE s = stdin
  <2>1. f \in g_flushbuf(-1, iob[stdout]) /\ -1 \in Int
    BY <1>2 DEF Sync
  <2>2. QED
    BY <1>1, <1>2, <2>1, FlushBecomes
<1>3. CASE s # stdin
  <2>1. f = NoSync
    BY <1>3 DEF Sync
  <2>2. f = Result(iob[stdout], <<>>, 0, FALSE)
    BY <2>1 DEF NoSync
  <2>3. f.g = iob[stdout] /\ f.out = <<>>
    BY <2>2 DEF Result
  <2>4. QED
    BY <1>1, <2>1, <2>3, SameBecomes
<1>4. QED
  BY <1>2, <1>3

(* Nothing becomes of stdout otherwise. *)
LEMMA NoSyncBecomes ==
  ASSUME StreamsOK
  PROVE  Becomes(iob[stdout], NoSync, file) /\ NoSync.g = iob[stdout] /\ NoSync.out = <<>>
<1>1. iob[stdout] \in Records /\ StreamOK(iob[stdout], file)
  BY Bounds DEF StreamsOK, StreamsAre
<1>2. NoSync.g = iob[stdout] /\ NoSync.out = <<>>
  BY DEF NoSync, Result
<1>3. QED
  BY <1>1, <1>2, SameBecomes

(* One call on a stream keeps all of them. *)
LEMMA DoKeeps ==
  ASSUME StreamsOK, NEW s \in Slots, NEW r, NEW f, Becomes(iob[s], r, file),
         Becomes(iob[stdout], f, file), f = NoSync \/ (s = stdin /\ r.out = <<>>),
         Do(s, r, f)
  PROVE  /\ StreamsOK' /\ iob'[s] = r.g
         /\ trouble \subseteq trouble' /\ (r.bad => s \in trouble')
         /\ r.out = <<>> /\ iob[s].name \in Names => file'[iob[s].name] = file[iob[s].name]
<1> DEFINE i1 == [iob EXCEPT ![stdout] = f.g]
           m == WriteAt(file, iob[stdout], f.out)
<1>1. /\ iob' = [i1 EXCEPT ![s] = r.g] /\ file' = WriteAt(m, iob[s], r.out)
      /\ trouble' = trouble \cup ((IF r.bad THEN {s} ELSE {})
                                  \cup (IF f.bad THEN {stdout} ELSE {}))
  BY DEF Do
<1>2. /\ iob \in [Slots -> Records] /\ trouble \subseteq Slots /\ file \in Contents
      /\ stdout \in Slots /\ stdout # stdin
  BY Bounds DEF StreamsOK, StreamsAre
<1>3. trouble' \in SUBSET Slots /\ trouble \subseteq trouble'
  <2>1. /\ (IF r.bad THEN {s} ELSE {}) \subseteq Slots
        /\ (IF f.bad THEN {stdout} ELSE {}) \subseteq Slots
    BY <1>2, Zenon
  <2>2. QED
    BY <1>1, <1>2, <2>1, Zenon
<1>4. r.bad => s \in trouble'
  BY <1>1, Zenon
<1>5. f.bad => stdout \in trouble'
  BY <1>1, Zenon
<1>6. StreamsAre(i1, m, trouble')
  BY <1>2, <1>3, <1>5, OneStream DEF StreamsOK
<1>7. /\ i1[s] = iob[s]
      /\ iob[s].name \in Names => m[iob[s].name] = file[iob[s].name]
  <2>1. CASE f = NoSync
    <3>1. f.g = iob[stdout] /\ f.out = <<>>
      BY <2>1, NoSyncBecomes
    <3>2. i1 = iob
      BY <1>2, <3>1
    <3>3. m = file
      BY <3>1 DEF WriteAt
    <3>4. QED
      BY <3>2, <3>3
  <2>2. CASE s = stdin
    <3>1. iob[s].name = NoFile \/ iob[s].name # iob[stdout].name
      BY <1>2, <2>2 DEF StreamsOK, StreamsAre
    <3>2. \A n \in Names : n # iob[stdout].name => m[n] = file[n]
      <4>1. PICK g \in Records, bytes \in Seq(Nat) : g = iob[stdout] /\ bytes = f.out
        BY <1>2 DEF Becomes
      <4>2. \/ bytes = <<>>
            \/ g.name \in Names /\ file[g.name] \in Seq(Nat) /\ g.off = Len(file[g.name])
        BY <4>1 DEF Becomes
      <4>3. \A n \in Names : n # g.name => WriteAt(file, g, bytes)[n] = file[n]
        BY <1>2, <4>2, WriteAtIs
      <4>4. QED
        BY <4>1, <4>3
    <3>3. iob[s].name \in Names => iob[s].name # NoFile
      BY ConstantsAssumption
    <3>4. i1[s] = iob[s]
      BY <1>2, <2>2
    <3> HIDE DEF i1, m
    <3>5. QED
      BY <3>1, <3>2, <3>3, <3>4
  <2>3. QED
    BY <2>1, <2>2
<1> HIDE DEF i1, m
<1>8. Becomes(i1[s], r, m)
  <2>1. CASE f = NoSync
    <3>1. f.out = <<>>
      BY <2>1, NoSyncBecomes
    <3>2. m = file
      BY <3>1 DEF WriteAt, m
    <3>3. QED
      BY <1>7, <3>2
  <2>2. CASE r.out = <<>>
    <3>1. PICK g : g = iob[s] /\ g = i1[s]
      BY <1>7
    <3>2. Becomes(g, r, file) /\ (g.name \in Names => m[g.name] = file[g.name])
      BY <1>7, <3>1
    <3>3. Becomes(g, r, m)
      BY <2>2, <3>2, Zenon DEF Becomes
    <3>4. QED
      BY <3>1, <3>3
  <2>3. QED
    BY <2>1, <2>2
<1>9. StreamsAre([i1 EXCEPT ![s] = r.g], WriteAt(m, i1[s], r.out), trouble')
  BY <1>3, <1>4, <1>6, <1>8, OneStream
<1>10. StreamsOK'
  <2>1. StreamsAre(iob', file', trouble')
    BY <1>1, <1>7, <1>9
  <2>2. QED
    BY <2>1 DEF StreamsOK
<1>11. iob'[s] = r.g
  BY <1>1, <1>6 DEF StreamsAre
<1>12. r.out = <<>> => file' = m
  BY <1>1 DEF WriteAt
<1>13. QED
  BY <1>3, <1>4, <1>7, <1>10, <1>11, <1>12, Zenon

-----------------------------------------------------------------------------
(* Where a stream that is read stands. *)
LEMMA TellIs ==
  ASSUME StreamsOK, NEW s \in Slots, Reads(s)
  PROVE  /\ Tell(s) = Pos(iob[s]) /\ Tell(s) \in Nat
         /\ iob[s] \in Records /\ StreamOK(iob[s], file)
         /\ iob[s].name \in Names /\ file[iob[s].name] \in Seq(Nat)
<1>1. iob[s] \in Records /\ StreamOK(iob[s], file)
  BY DEF StreamsOK, StreamsAre
<1>2. /\ iob[s].name \in Names /\ file[iob[s].name] \in Seq(Nat)
      /\ ReaderOK(iob[s], file[iob[s].name])
  BY <1>1, InputIs DEF Reads
<1>3. PICK g \in Records : g = iob[s]
  BY <1>1
<1>4. Filled(g)
  BY <1>2, <1>3 DEF ReaderOK
<1>5. Pos(g) \in Nat
  BY <1>4, FieldsOf DEF Filled, Pos, Unread
<1>6. Tell(s) = Pos(iob[s])
  BY DEF Tell, Pos, Unread
<1>7. QED
  BY <1>1, <1>2, <1>3, <1>5, <1>6

(* A turn of a loop that reads: a character is taken, or there was none. *)
LEMMA TurnTakes ==
  ASSUME StreamsOK, NEW s \in Slots, Reads(s), NEW r \in g_getc(iob[s]),
         NEW f, f \in Sync(s) \/ f = NoSync, Do(s, r, f)
  PROVE  /\ StreamsOK' /\ Reads(s)' /\ iob'[s].name = iob[s].name
         /\ file'[iob[s].name] = file[iob[s].name]
         /\ \/ /\ r.ret = EOF /\ Tell(s)' = Tell(s)
               /\ \/ s \in trouble'
                  \/ "EOF" \in iob'[s].flag /\ Tell(s) >= Len(file[iob[s].name])
            \/ /\ r.ret \in Nat /\ r.ret = file[iob[s].name][Tell(s) + 1]
               /\ Tell(s)' = Tell(s) + 1
<1>1. /\ Tell(s) = Pos(iob[s]) /\ iob[s] \in Records /\ StreamOK(iob[s], file)
      /\ iob[s].name \in Names /\ file[iob[s].name] \in Seq(Nat)
  BY TellIs
<1>2. Becomes(iob[s], r, file) /\ Served(iob[s], r, file[iob[s].name])
  BY <1>1, GetcBecomes DEF Reads
<1>3. Becomes(iob[stdout], f, file) /\ (f = NoSync \/ s = stdin)
  BY StdoutBecomes, NoSyncBecomes
<1>4. r.out = <<>>
  BY <1>2 DEF Served
<1>5. /\ StreamsOK' /\ iob'[s] = r.g
      /\ r.bad => s \in trouble'
      /\ file'[iob[s].name] = file[iob[s].name]
  BY <1>1, <1>2, <1>3, <1>4, DoKeeps
<1>6. /\ r.g.name = iob[s].name /\ ReaderOK(r.g, file[iob[s].name]) /\ r.g \in Records
      /\ \/ r.ret = EOF /\ Pos(r.g) = Pos(iob[s]) /\ Refused(iob[s], r)
         \/ /\ r.ret \in Nat /\ r.ret = file[iob[s].name][Pos(iob[s]) + 1]
            /\ Pos(r.g) = Pos(iob[s]) + 1
  BY <1>2 DEF Served
<1>7. Reads(s)'
  BY <1>5, <1>6 DEF Reads, ReaderOK, InputFlags
<1>8. Tell(s)' = Pos(r.g)
  BY <1>5 DEF Tell, Pos, Unread
<1>9. "ERR" \in r.g.flag => s \in trouble'
  BY <1>5 DEF StreamsOK, StreamsAre
<1>10. "EOF" \in r.g.flag => Pos(r.g) >= Len(file[iob[s].name])
  <2>1. PICK g \in Records : g = r.g
    BY <1>6
  <2>2. AtEnd(g, file[iob[s].name])
    BY <1>6, <2>1 DEF ReaderOK
  <2>3. "EOF" \in g.flag => Pos(g) >= Len(file[iob[s].name])
    BY <2>2, FieldsOf DEF AtEnd, Pos, Unread
  <2>4. QED
    BY <2>1, <2>3
<1>11. CASE r.ret = EOF /\ Pos(r.g) = Pos(iob[s]) /\ Refused(iob[s], r)
  <2>1. s \in trouble' \/ "EOF" \in r.g.flag
    BY <1>5, <1>9, <1>11, Zenon DEF Refused
  <2>2. "EOF" \in r.g.flag => Tell(s) >= Len(file[iob[s].name])
    BY <1>1, <1>10, <1>11
  <2>3. Tell(s)' = Tell(s)
    BY <1>1, <1>8, <1>11
  <2>4. QED
    BY <1>5, <1>6, <1>7, <1>11, <2>1, <2>2, <2>3, Zenon
<1>12. CASE /\ r.ret \in Nat /\ r.ret = file[iob[s].name][Pos(iob[s]) + 1]
            /\ Pos(r.g) = Pos(iob[s]) + 1
  <2>1. r.ret = file[iob[s].name][Tell(s) + 1] /\ Tell(s)' = Tell(s) + 1
    BY <1>1, <1>8, <1>12
  <2>2. QED
    BY <1>5, <1>6, <1>7, <1>12, <2>1, Zenon
<1>13. QED
  BY <1>6, <1>11, <1>12

(* g_gets() and g_read() first see to stdout. *)
LEMMA BeginKeeps ==
  ASSUME StreamsOK, NEW s \in Slots, Reads(s), NEW f \in Sync(s), Do(s, Nothing(s), f)
  PROVE  /\ StreamsOK' /\ iob'[s] = iob[s]
         /\ Reads(s)' /\ Tell(s)' = Tell(s) /\ Tell(s) \in Nat
<1>1. iob[s] \in Records /\ StreamOK(iob[s], file) /\ Tell(s) \in Nat
  BY TellIs
<1>2. Nothing(s).g = iob[s] /\ Nothing(s).out = <<>>
  BY DEF Nothing, Result
<1>3. Becomes(iob[s], Nothing(s), file)
  BY <1>1, <1>2, SameBecomes
<1>4. Becomes(iob[stdout], f, file) /\ (f = NoSync \/ s = stdin)
  BY StdoutBecomes
<1>5. StreamsOK' /\ iob'[s] = iob[s]
  BY <1>2, <1>3, <1>4, DoKeeps
<1>6. QED
  BY <1>1, <1>5 DEF Reads, Tell

(* What is done on one stream alone. *)
LEMMA AloneKeeps ==
  ASSUME StreamsOK, NEW s \in Slots, NEW r, Becomes(iob[s], r, file), Do(s, r, NoSync)
  PROVE  StreamsOK' /\ iob'[s] = r.g
BY NoSyncBecomes, DoKeeps

-----------------------------------------------------------------------------
(* The calls that run in one step. *)
LEMMA QuietCall ==
  ASSUME call' \in Calls, call'.op \in {"idle", "profflush", "flushed", "exited"}
  PROVE  CallOK'
BY DEF CallOK

(* A call that has no loop leaves the record of the loops alone. *)
LEMMA StillReady ==
  ASSUME CallOK, Ready, call' = call
  PROVE  CallOK'
BY QuietCall DEF CallOK, Ready

(* The record of no loop. *)
LEMMA IdleIs ==
  /\ Idle \in Calls /\ Idle.op = "idle"
  /\ \A op \in Ops : [Idle EXCEPT !.op = op] \in Calls /\ [Idle EXCEPT !.op = op].op = op
<1>1. 0 \in Slots /\ <<>> \in Seq(Nat) /\ "idle" \in Ops
  BY Bounds, EmptySeq DEF Ops, stdin
<1>2. Idle \in Calls
  BY <1>1 DEF Idle, Calls
<1>3. QED
  BY <1>1, <1>2 DEF Idle, Calls

(* The record of g_puts(). *)
LEMMA PuttingIs ==
  ASSUME NEW s \in Slots, NEW left \in Int, NEW c,
         c = [Idle EXCEPT !.op = "puts", !.slot = s, !.left = left]
  PROVE  c \in Calls /\ c.op = "puts" /\ c.slot = s /\ c.left = left
<1>1. "puts" \in Ops
  BY DEF Ops
<1>2. QED
  BY <1>1, IdleIs DEF Calls

(* How often the kernel has refused something. *)
LEMMA CountsKept ==
  ASSUME RestOK, NEW s, NEW r, NEW f, Do(s, r, f), program' = program
  PROVE  troubles' \in 0 .. program'.troubles
<1>1. \E a, b \in {0, 1} : troubles' = troubles + a + b
  <2>1. (IF r.bad THEN 1 ELSE 0) \in {0, 1} /\ (IF f.bad THEN 1 ELSE 0) \in {0, 1}
    BY Zenon
  <2>2. troubles' = troubles + (IF r.bad THEN 1 ELSE 0) + (IF f.bad THEN 1 ELSE 0)
    BY DEF Do
  <2>3. QED
    BY <2>1, <2>2, Zenon
<1>2. troubles' <= program.troubles /\ troubles \in Nat
  BY DEF Do, RestOK
<1>3. troubles' \in Nat
  BY <1>1, <1>2
<1>4. program.troubles \in Nat
  BY ConstantsAssumption DEF RestOK
<1>5. QED
  BY <1>2, <1>3, <1>4

(* The type of the last character call. *)
LEMMA LastIs ==
  ASSUME NEW s \in Slots, NEW v \in Int, last' = <<s, v>>
  PROVE  last' \in Slots \X Int
OBVIOUS

(* g_getc() keeps the invariant. *)
LEMMA StepGetc ==
  ASSUME IInv, NEW s \in Slots, Getc(s)
  PROVE  IInv'
<1>1. PICK r \in g_getc(iob[s]), f \in Sync(s) : Do(s, r, f) /\ last' = <<s, r.ret>>
  BY DEF Getc
<1>2. StreamsOK /\ CallOK /\ RestOK /\ Reads(s) /\ Ready /\ UNCHANGED <<call, program, puts>>
  BY DEF IInv, Getc
<1>3. StreamsOK' /\ (r.ret = EOF \/ r.ret \in Nat)
  BY <1>1, <1>2, TurnTakes
<1>4. CallOK'
  BY <1>2, StillReady
<1>5. last' \in Slots \X Int
  BY <1>1, <1>3 DEF EOF
<1>6. RestOK'
  BY <1>1, <1>2, <1>5, CountsKept DEF RestOK
<1>7. QED
  BY <1>3, <1>4, <1>6 DEF IInv

(* g_putc() keeps the invariant. *)
LEMMA StepPutc ==
  ASSUME IInv, NEW s \in Slots, Putc(s)
  PROVE  IInv'
<1>1. /\ StreamsOK /\ CallOK /\ RestOK /\ Writes(s) /\ Ready /\ UNCHANGED <<call, program>>
      /\ puts' = puts + 1 /\ puts < program.puts
  BY DEF IInv, Putc
<1>2. puts \in Nat /\ program.puts \in Nat
  BY <1>1, ConstantsAssumption DEF RestOK
<1>3. puts' \in Nat
  BY <1>1, <1>2
<1>4. PICK r \in g_putc(puts', iob[s]) : Do(s, r, NoSync) /\ last' = <<s, r.ret>>
  BY DEF Putc
<1>5. iob[s] \in Records /\ StreamOK(iob[s], file) /\ "WRITE" \in iob[s].flag
  BY <1>1 DEF StreamsOK, StreamsAre, Writes
<1>6. Becomes(iob[s], r, file) /\ r.ret \in Int
  BY <1>3, <1>5, PutcBecomes
<1>7. StreamsOK'
  BY <1>1, <1>4, <1>6, AloneKeeps
<1>8. CallOK'
  BY <1>1, StillReady
<1>9. RestOK'
  <2>1. puts' \in 0 .. program'.puts
    BY <1>1, <1>2
  <2>2. troubles' \in 0 .. program'.troubles
    BY <1>1, <1>4, CountsKept
  <2>3. last' \in Slots \X Int
    BY <1>4, <1>6
  <2>4. QED
    BY <1>1, <2>1, <2>2, <2>3 DEF RestOK
<1>10. QED
  BY <1>7, <1>8, <1>9 DEF IInv

(* A flush, a seek or a close: the last character stays. *)
LEMMA StepOther ==
  ASSUME IInv, NEW s \in Slots, NEW r, Becomes(iob[s], r, file), Do(s, r, NoSync), Ready,
         UNCHANGED <<call, last, program, puts>>
  PROVE  IInv'
<1>1. StreamsOK /\ CallOK /\ RestOK
  BY DEF IInv
<1>2. StreamsOK'
  BY <1>1, AloneKeeps
<1>3. CallOK'
  BY <1>1, StillReady
<1>4. RestOK'
  BY <1>1, CountsKept DEF RestOK
<1>5. QED
  BY <1>2, <1>3, <1>4 DEF IInv

(* g_flush() keeps the invariant. *)
LEMMA StepFlush ==
  ASSUME IInv, NEW s \in Slots, Flush(s)
  PROVE  IInv'
<1>1. PICK r \in g_flushbuf(-1, iob[s]) : Do(s, r, NoSync)
  BY DEF Flush
<1>2. iob[s] \in Records /\ StreamOK(iob[s], file) /\ -1 \in Int
  BY DEF IInv, StreamsOK, StreamsAre
<1>3. Becomes(iob[s], r, file)
  BY <1>2, FlushBecomes
<1>4. QED
  BY <1>1, <1>3, StepOther DEF Flush

(* g_seek() keeps the invariant. *)
LEMMA StepSeek ==
  ASSUME IInv, NEW s \in Slots, NEW o \in Offsets, NEW w, Seek(s, o, w)
  PROVE  IInv'
<1>1. PICK r \in g_seek(iob[s], o, w) : Do(s, r, NoSync)
  BY DEF Seek
<1>2. iob[s] \in Records /\ StreamOK(iob[s], file) /\ "READ" \in iob[s].flag
  BY DEF IInv, StreamsOK, StreamsAre, Seek, Reads
<1>3. o \in Int
  BY ConstantsAssumption
<1>4. Becomes(iob[s], r, file)
  BY <1>2, <1>3, SeekBecomes
<1>5. QED
  BY <1>1, <1>4, StepOther DEF Seek

(* g_close() keeps the invariant. *)
LEMMA StepClose ==
  ASSUME IInv, NEW s \in Slots, Close(s)
  PROVE  IInv'
<1>1. PICK r \in g_close(iob[s]) : Do(s, r, NoSync)
  BY DEF Close
<1>2. iob[s] \in Records /\ StreamOK(iob[s], file)
  BY DEF IInv, StreamsOK, StreamsAre
<1>3. Becomes(iob[s], r, file)
  BY <1>2, CloseBecomes
<1>4. QED
  BY <1>1, <1>3, StepOther DEF Close

-----------------------------------------------------------------------------
(* g_open(): nothing is in the buffer, and there is none yet. *)
LEMMA OpenedIs ==
  ASSUME NEW n \in Names, NEW fl \in SUBSET {"READ", "WRITE", "UNBUF", "EOF", "ERR"},
         NEW at \in Nat, NEW g, g = Opened(n, fl, at)
  PROVE  /\ g \in Records /\ g.flag = fl /\ ~g.base /\ g.buf = <<>> /\ g.ptr = 0
         /\ g.cnt = 0 /\ g.baseposition = at /\ g.name = n /\ g.off = at
<1>1. PICK a \in Int : a = at
  OBVIOUS
<1>2. Opened(n, fl, at) = [Free EXCEPT !.flag = fl, !.name = n, !.baseposition = a, !.off = at]
  BY <1>1 DEF Opened
<1>3. Free \in Records
  BY FreeIs
<1>4. Opened(n, fl, at) \in Records
  BY <1>2, <1>3 DEF Records
<1>5. g \in Records
  BY <1>4
<1>6. /\ g.flag = fl /\ g.base = Free.base /\ g.buf = Free.buf /\ g.ptr = Free.ptr
      /\ g.cnt = Free.cnt /\ g.baseposition = a /\ g.name = n /\ g.off = at
  BY <1>2, <1>3, <1>5 DEF Records
<1>7. ~g.base
  BY <1>6, FreeIs, Zenon
<1>8. QED
  BY <1>1, <1>5, <1>6, <1>7, FreeIs

(* A stream just opened for reading. *)
LEMMA OpenedReader ==
  ASSUME NEW n \in Names, NEW f \in Seq(Nat)
  PROVE  ReaderOK(Opened(n, {"READ"}, 0), f)
<1>1. PICK g : g = Opened(n, {"READ"}, 0)
  OBVIOUS
<1>2. /\ g \in Records /\ g.flag = {"READ"} /\ g.buf = <<>> /\ g.ptr = 0 /\ g.cnt = 0
      /\ g.baseposition = 0 /\ g.off = 0
  <2>1. PICK fl \in SUBSET {"READ", "WRITE", "UNBUF", "EOF", "ERR"} : fl = {"READ"}
    OBVIOUS
  <2>2. PICK at \in Nat : at = 0
    OBVIOUS
  <2>3. g = Opened(n, fl, at)
    BY <1>1, <2>1, <2>2
  <2>4. /\ g \in Records /\ g.flag = fl /\ g.buf = <<>> /\ g.ptr = 0
        /\ g.cnt = 0 /\ g.baseposition = at /\ g.off = at
    BY <2>3, OpenedIs
  <2>5. QED
    BY <2>1, <2>2, <2>4
<1>3. InputFlags(g) /\ "EOF" \notin g.flag
  BY <1>2 DEF InputFlags
<1>4. BaseOK(g)
  BY <1>2, Zenon DEF BaseOK
<1>5. ReaderOK(g, f)
  BY <1>2, <1>3, <1>4, EmptyReader
<1>6. QED
  BY <1>1, <1>5

(* A stream just opened for writing, at the end of its file. *)
LEMMA OpenedWriter ==
  ASSUME NEW n \in Names, NEW f \in Seq(Nat), NEW fl \in SUBSET {"WRITE", "UNBUF"},
         "WRITE" \in fl
  PROVE  WriterOK(Opened(n, fl, Len(f)), f)
<1>1. PICK g : g = Opened(n, fl, Len(f))
  OBVIOUS
<1>2. Len(f) \in Nat /\ fl \in SUBSET {"READ", "WRITE", "UNBUF", "EOF", "ERR"}
  BY LenProperties
<1>3. /\ g \in Records /\ g.flag = fl /\ ~g.base /\ g.buf = <<>> /\ g.ptr = 0
      /\ g.cnt = 0 /\ g.baseposition = Len(f) /\ g.off = Len(f)
  BY <1>1, <1>2, OpenedIs
<1>4. OutputFlags(g) /\ "ERR" \notin g.flag
  BY <1>3 DEF OutputFlags
<1>5. Room(g)
  <2>1. Len(<<>>) = 0
    BY EmptySeq
  <2>2. QED
    BY <1>3, <2>1, SizeIs DEF Room
<1>6. BaseOK(g)
  BY <1>3, Zenon DEF BaseOK
<1>7. ~g.base
  BY <1>3, Zenon
<1>8. OutputPlace(g, f)
  BY <1>3, <1>7, Zenon DEF OutputPlace
<1>9. WriterOK(g, f)
  BY <1>4, <1>5, <1>6, <1>8 DEF WriterOK, Lost
<1>10. QED
  BY <1>1, <1>9

(* g_open() keeps the invariant: the slot and the file are free. *)
LEMMA StepOpen ==
  ASSUME IInv, NEW s \in Slots, NEW n \in Files, NEW m \in {"r", "w", "a"},
         Open(s, n, m)
  PROVE  IInv'
<1> DEFINE fl == IF m = "r" THEN {"READ"} ELSE {"WRITE"}
           at == IF m = "a" THEN Len(file'[n]) ELSE 0
           c == IF m = "w" \/ file[n] = NoFile THEN <<>> ELSE file[n]
<1>1. /\ StreamsOK /\ CallOK /\ RestOK /\ Ready /\ FreeSlot(s)
      /\ \A t \in Slots : iob[t].name # n
      /\ m = "r" => file[n] # NoFile
      /\ file' = [file EXCEPT ![n] = c]
      /\ iob' = [iob EXCEPT ![s] = Opened(n, fl, at)]
      /\ trouble' = trouble \ {s}
      /\ UNCHANGED <<call, last, program, puts, troubles>>
  BY DEF IInv, Open
<1>2. n \in Names
  BY ConstantsAssumption
<1>3. /\ iob \in [Slots -> Records] /\ file \in Contents /\ trouble \subseteq Slots
      /\ \A t \in Slots : StreamOK(iob[t], file)
  BY <1>1 DEF StreamsOK, StreamsAre
<1>4. c \in Seq(Nat)
  BY <1>2, <1>3, EmptySeq DEF Contents
<1>5. file' \in Contents /\ file'[n] = c /\ \A k \in Names : k # n => file'[k] = file[k]
  BY <1>1, <1>2, <1>3, <1>4 DEF Contents
<1>6. fl \in SUBSET {"READ", "WRITE", "UNBUF", "EOF", "ERR"} /\ at \in Nat
  BY <1>4, <1>5, LenProperties
<1>7. /\ Opened(n, fl, at) \in Records /\ Opened(n, fl, at).flag = fl
      /\ Opened(n, fl, at).name = n
  <2>1. PICK g : g = Opened(n, fl, at)
    OBVIOUS
  <2> HIDE DEF fl, at
  <2>2. g \in Records /\ g.flag = fl /\ g.name = n
    BY <1>2, <1>6, <2>1, OpenedIs
  <2>3. QED
    BY <2>1, <2>2
<1>8. ReaderOK(Opened(n, fl, at), c) \/ WriterOK(Opened(n, fl, at), c)
  <2>1. CASE m = "r"
    <3>1. fl = {"READ"} /\ at = 0
      BY <2>1
    <3>2. QED
      BY <1>2, <1>4, <3>1, OpenedReader
  <2>2. CASE m # "r"
    <3>1. fl = {"WRITE"}
      BY <2>2
    <3>2. at = Len(c)
      <4>1. CASE m = "a"
        BY <1>5, <4>1
      <4>2. CASE m # "a"
        <5>1. at = 0
          BY <4>2
        <5>2. c = <<>>
          BY <2>2, <4>2
        <5>3. QED
          BY <5>1, <5>2, EmptySeq
      <4>3. QED
        BY <4>1, <4>2
    <3>3. QED
      BY <1>2, <1>4, <3>1, <3>2, OpenedWriter
  <2>3. QED
    BY <2>1, <2>2
<1> HIDE DEF fl, at, c
<1>9. /\ iob' \in [Slots -> Records] /\ iob'[s] = Opened(n, fl, at)
      /\ \A t \in Slots : t # s => iob'[t] = iob[t]
  BY <1>1, <1>3, <1>7
<1>10. ASSUME NEW t \in Slots PROVE StreamOK(iob'[t], file')
  <2>1. CASE t = s
    BY <1>2, <1>4, <1>5, <1>7, <1>8, <1>9, <2>1 DEF StreamOK
  <2>2. CASE t # s
    <3>1. iob'[t] = iob[t] /\ iob[t].name # n /\ StreamOK(iob[t], file)
      BY <1>1, <1>3, <1>9, <2>2
    <3>2. iob[t].name \in Names => file'[iob[t].name] = file[iob[t].name]
      BY <1>5, <3>1
    <3>3. QED
      BY <3>1, <3>2, Zenon DEF StreamOK
  <2>3. QED
    BY <2>1, <2>2
<1>11. ASSUME NEW t \in Slots, NEW u \in Slots, t # u
       PROVE  iob'[t].name = NoFile \/ iob'[t].name # iob'[u].name
  <2>1. iob[t].name = NoFile \/ iob[t].name # iob[u].name
    BY <1>1, <1>11 DEF StreamsOK, StreamsAre
  <2>2. QED
    BY <1>1, <1>7, <1>9, <1>11, <2>1
<1>12. ASSUME NEW t \in Slots, "ERR" \in iob'[t].flag PROVE t \in trouble'
  <2>1. CASE t = s
    BY <1>7, <1>9, <1>12, <2>1 DEF fl
  <2>2. CASE t # s
    BY <1>1, <1>9, <1>12, <2>2 DEF StreamsOK, StreamsAre
  <2>3. QED
    BY <2>1, <2>2
<1>13. StreamsOK'
  <2>1. StreamsAre(iob', file', trouble')
    BY <1>1, <1>3, <1>5, <1>9, <1>10, <1>11, <1>12 DEF StreamsAre
  <2>2. QED
    BY <2>1 DEF StreamsOK
<1>14. CallOK' /\ RestOK'
  BY <1>1, StillReady DEF RestOK
<1>15. QED
  BY <1>13, <1>14 DEF IInv

-----------------------------------------------------------------------------
(* The calls with a loop. *)
LEMMA BegunIs ==
  ASSUME NEW op \in Ops, NEW s \in Slots, NEW left \in Int, NEW size \in Nat,
         NEW start \in Int, NEW c,
         c = [op |-> op, slot |-> s, left |-> left, size |-> size, want |-> left,
              str |-> <<>>, start |-> start]
  PROVE  /\ c \in Calls /\ c.op = op /\ c.slot = s /\ c.left = left /\ c.size = size
         /\ c.want = left
         /\ c.str = <<>> /\ c.start = start
<1>1. <<>> \in Seq(Nat)
  BY EmptySeq
<1>2. QED
  BY <1>1 DEF Calls

(* A turn: another op, another count, what has been taken so far. *)
Turned(c, op, left, str) == [c EXCEPT !.op = op, !.left = left, !.str = str]
(* The record of a loop after a turn. *)
LEMMA TurnedIs ==
  ASSUME NEW c \in Calls, NEW op \in Ops, NEW left \in Int, NEW str \in Seq(Nat), NEW d,
         d = Turned(c, op, left, str)
  PROVE  /\ d \in Calls /\ d.op = op /\ d.slot = c.slot /\ d.left = left /\ d.size = c.size
         /\ d.want = c.want
         /\ d.str = str /\ d.start = c.start
BY DEF Turned, Calls

(* The names of the calls. *)
LEMMA OpsAre ==
  /\ "gets" \in Ops /\ "line" \in Ops /\ "read" \in Ops /\ "items" \in Ops
  /\ "puts" \in Ops /\ "idle" \in Ops /\ "profflush" \in Ops
BY DEF Ops

(* The fields of the record of a loop have their types. *)
LEMMA CallIs ==
  ASSUME NEW c \in Calls
  PROVE  /\ c.op \in Ops /\ c.slot \in Slots /\ c.left \in Int /\ c.size \in Nat
         /\ c.want \in Int
         /\ c.str \in Seq(Nat) /\ c.start \in Int /\ Len(c.str) \in Nat
         /\ \A k \in 1 .. Len(c.str) : c.str[k] \in Nat
<1>1. c.str \in Seq(Nat)
  BY DEF Calls
<1>2. QED
  BY <1>1, LenProperties DEF Calls

(* g_gets() begins where the stream stands. *)
LEMMA StepGets ==
  ASSUME IInv, NEW s \in Slots, NEW max \in 1 .. MaxGets, Gets(s, max)
  PROVE  IInv'
<1>1. PICK f \in Sync(s) : Do(s, Nothing(s), f)
  BY DEF Gets
<1>2. /\ StreamsOK /\ CallOK /\ RestOK /\ Reads(s) /\ UNCHANGED <<last, program, puts>>
      /\ call' = [op |-> "gets", slot |-> s, left |-> max, size |-> max, want |-> max,
                  str |-> <<>>, start |-> Tell(s)]
  BY DEF IInv, Gets, Begin
<1>3. StreamsOK' /\ iob'[s] = iob[s] /\ Reads(s)' /\ Tell(s)' = Tell(s) /\ Tell(s) \in Nat
  BY <1>1, <1>2, BeginKeeps
<1>4. max \in Nat /\ max >= 1 /\ max \in Int /\ Tell(s) \in Int
  BY <1>3, ConstantsAssumption
<1>5. /\ call' \in Calls /\ call'.op = "gets" /\ call'.slot = s /\ call'.left = max
      /\ call'.size = max /\ call'.str = <<>> /\ call'.start = Tell(s)
  BY <1>2, <1>4, OpsAre, BegunIs
<1>6. Len(<<>>) = 0
  BY EmptySeq
<1>7. Taken'
  BY <1>3, <1>5, <1>6 DEF Taken, Reads
<1>8. NoNewline'
  BY <1>5, <1>6 DEF NoNewline
<1>9. (Stands(Len(call.str)))'
  BY <1>3, <1>5, <1>6 DEF Stands, Tell
<1>10. GetsOK'
  BY <1>4, <1>5, <1>6, <1>7, <1>8, <1>9 DEF GetsOK
<1>11. CallOK'
  BY <1>5, <1>10 DEF CallOK
<1>12. RestOK'
  BY <1>1, <1>2, CountsKept DEF RestOK
<1>13. QED
  BY <1>3, <1>11, <1>12 DEF IInv

(* g_read() begins where the stream stands. *)
LEMMA StepRead ==
  ASSUME IInv, NEW s \in Slots, NEW z \in 1 .. MaxRead, NEW n \in 1 .. MaxRead, Read(s, z, n)
  PROVE  IInv'
<1>1. PICK f \in Sync(s) : Do(s, Nothing(s), f)
  BY DEF Read
<1>2. /\ StreamsOK /\ CallOK /\ RestOK /\ Reads(s) /\ UNCHANGED <<last, program, puts>>
      /\ call' = [op |-> "read", slot |-> s, left |-> z * n, size |-> z,
                  want |-> z * n, str |-> <<>>, start |-> Tell(s)]
  BY DEF IInv, Read, Begin
<1>3. StreamsOK' /\ iob'[s] = iob[s] /\ Reads(s)' /\ Tell(s)' = Tell(s) /\ Tell(s) \in Nat
  BY <1>1, <1>2, BeginKeeps
<1>4. z \in Nat /\ z >= 1 /\ n \in Nat /\ n >= 1 /\ Tell(s) \in Int
  BY <1>3, ConstantsAssumption
<1>5. PICK left \in Nat : left = z * n /\ left = n * z
  BY <1>4
<1>6. /\ call' \in Calls /\ call'.op = "read" /\ call'.slot = s /\ call'.left = left
      /\ call'.size = z /\ call'.want = left /\ call'.str = <<>> /\ call'.start = Tell(s)
  <2>1. left \in Int
    OBVIOUS
  <2>2. call' = [op |-> "read", slot |-> s, left |-> left, size |-> z, want |-> left,
                 str |-> <<>>, start |-> Tell(s)]
    BY <1>2, <1>5
  <2>3. QED
    BY <1>4, <2>1, <2>2, OpsAre, BegunIs
<1>7. Len(<<>>) = 0
  BY EmptySeq
<1>8. Taken'
  BY <1>3, <1>6, <1>7 DEF Taken, Reads
<1>9. (Stands(Len(call.str)))'
  BY <1>3, <1>6, <1>7 DEF Stands, Tell
<1>10. /\ n \in Nat \ {0} /\ call'.want = n * call'.size
       /\ Len(call'.str) + call'.left = call'.want
  BY <1>4, <1>5, <1>6, <1>7
<1>11. ReadOK'
  <2>1. \E m \in Nat \ {0} : call'.want = m * call'.size
    BY <1>10, Zenon
  <2>2. call'.left >= 0 /\ call'.size >= 1
    BY <1>4, <1>6
  <2>3. QED
    BY <1>8, <1>9, <1>10, <2>1, <2>2, Zenon DEF ReadOK
<1>12. CallOK'
  BY <1>6, <1>11 DEF CallOK
<1>13. RestOK'
  BY <1>1, <1>2, CountsKept DEF RestOK
<1>14. QED
  BY <1>3, <1>12, <1>13 DEF IInv

(* A call returns. *)
LEMMA StepReturns ==
  ASSUME IInv, Returns
  PROVE  IInv'
<1>1. /\ StreamsOK /\ RestOK /\ call' = Idle
      /\ UNCHANGED <<iob, file, last, program, puts, trouble, troubles>>
  BY DEF IInv, Returns
<1>2. StreamsOK' /\ RestOK'
  BY <1>1 DEF StreamsOK, RestOK
<1>3. CallOK'
  BY <1>1, IdleIs, QuietCall
<1>4. QED
  BY <1>2, <1>3 DEF IInv

(* The program ends. *)
LEMMA StepExit ==
  ASSUME IInv, Exit
  PROVE  IInv'
<1>1. /\ StreamsOK /\ RestOK
      /\ UNCHANGED <<iob, file, last, program, puts, trouble, troubles>>
  BY DEF IInv, Exit
<1>2. PICK op \in {"profflush", "exited"} : call' = [Idle EXCEPT !.op = op]
  BY DEF Exit
<1>3. StreamsOK' /\ RestOK'
  BY <1>1 DEF StreamsOK, RestOK
<1>4. op \in Ops
  BY DEF Ops
<1>5. call' \in Calls /\ call'.op = op
  BY <1>2, <1>4, IdleIs
<1>6. CallOK'
  BY <1>5, QuietCall
<1>7. QED
  BY <1>3, <1>6 DEF IInv

(* A turn of g_profflush() keeps the invariant. *)
LEMMA StepProfflush ==
  ASSUME IInv, ProfflushTurn
  PROVE  IInv'
<1> DEFINE s == call.slot
<1>1. /\ StreamsOK /\ CallOK /\ RestOK /\ call.op = "profflush"
      /\ UNCHANGED <<last, program, puts>>
      /\ call' = IF s = OpenMax - 1 THEN [call EXCEPT !.op = "flushed"]
                                    ELSE [call EXCEPT !.slot = s + 1]
  BY DEF IInv, ProfflushTurn
<1>2. call \in Calls /\ s \in Slots
  BY <1>1, CallIs DEF CallOK
<1>3. PICK r : /\ r \in g_flushbuf(-1, iob[s]) \/ r = Nothing(s)
               /\ Do(s, r, NoSync)
  BY DEF ProfflushTurn
<1>4. iob[s] \in Records /\ StreamOK(iob[s], file) /\ -1 \in Int
  BY <1>1, <1>2 DEF StreamsOK, StreamsAre
<1>5. Becomes(iob[s], r, file)
  <2>1. CASE r \in g_flushbuf(-1, iob[s])
    BY <1>4, <2>1, FlushBecomes
  <2>2. CASE r = Nothing(s)
    <3>1. r.g = iob[s] /\ r.out = <<>>
      BY <2>2 DEF Nothing, Result
    <3>2. QED
      BY <1>4, <3>1, SameBecomes
  <2>3. QED
    BY <1>3, <2>1, <2>2
<1>6. StreamsOK'
  BY <1>1, <1>2, <1>3, <1>5, AloneKeeps
<1>7. call' \in Calls /\ call'.op \in {"profflush", "flushed"}
  <2>1. s \in 0 .. OpenMax - 1 /\ OpenMax \in Nat
    BY <1>2, ConstantsAssumption DEF Slots
  <2>2. CASE s = OpenMax - 1
    <3>1. "flushed" \in Ops
      BY DEF Ops
    <3>2. QED
      BY <1>1, <1>2, <2>2, <3>1 DEF Calls
  <2>3. CASE s # OpenMax - 1
    <3>1. s + 1 \in Slots
      BY <2>1, <2>3 DEF Slots
    <3>2. call' = [call EXCEPT !.slot = s + 1]
      BY <1>1, <2>3
    <3>3. PICK t \in Slots : call' = [call EXCEPT !.slot = t]
      BY <3>1, <3>2
    <3> HIDE DEF s
    <3>4. QED
      BY <1>1, <1>2, <3>3 DEF Calls
  <2>4. QED
    BY <2>2, <2>3
<1>8. CallOK'
  BY <1>7, QuietCall
<1>9. RestOK'
  BY <1>1, <1>3, CountsKept DEF RestOK
<1>10. QED
  BY <1>6, <1>8, <1>9 DEF IInv

(* g_puts() begins. *)
LEMMA StepPuts ==
  ASSUME IInv, NEW s \in Slots, NEW len \in 1 .. program.puts, Puts(s, len)
  PROVE  IInv'
<1>1. /\ StreamsOK /\ RestOK /\ Writes(s) /\ puts + len <= program.puts
      /\ call' = [Idle EXCEPT !.op = "puts", !.slot = s, !.left = len]
      /\ UNCHANGED <<iob, file, last, program, puts, trouble, troubles>>
  BY DEF IInv, Puts
<1>2. StreamsOK' /\ RestOK'
  BY <1>1 DEF StreamsOK, RestOK
<1>3. len \in Int /\ len >= 1
  BY <1>1, ConstantsAssumption DEF RestOK
<1>4. call' \in Calls /\ call'.op = "puts" /\ call'.slot = s /\ call'.left = len
  <2>1. \A c : c = [Idle EXCEPT !.op = "puts", !.slot = s, !.left = len] =>
              c \in Calls /\ c.op = "puts" /\ c.slot = s /\ c.left = len
    BY <1>3, PuttingIs
  <2>2. QED
    BY <1>1, <2>1, Zenon
<1>5. PutsOK'
  BY <1>1, <1>3, <1>4 DEF PutsOK, Writes
<1>6. CallOK'
  BY <1>4, <1>5 DEF CallOK
<1>7. QED
  BY <1>2, <1>6 DEF IInv

(* A turn of g_puts() keeps the invariant. *)
LEMMA StepPutsTurn ==
  ASSUME IInv, PutsTurn
  PROVE  IInv'
<1> DEFINE s == call.slot
<1>1. /\ StreamsOK /\ CallOK /\ RestOK /\ call.op = "puts" /\ program' = program
      /\ puts' = puts + 1
      /\ call' = IF call.left = 1 THEN Idle ELSE [call EXCEPT !.left = @ - 1]
  BY DEF IInv, PutsTurn
<1>2. call \in Calls /\ s \in Slots /\ call.left \in Int /\ PutsOK
  BY <1>1, CallIs DEF CallOK
<1>3. Writes(s) /\ call.left >= 1 /\ puts + call.left <= program.puts
  BY <1>2 DEF PutsOK
<1>4. puts \in Nat /\ program.puts \in Nat
  BY <1>1, ConstantsAssumption DEF RestOK
<1>5. puts' \in Nat /\ puts' <= program.puts
  BY <1>1, <1>2, <1>3, <1>4
<1>6. PICK r \in g_putc(puts', iob[s]) : Do(s, r, NoSync) /\ last' = <<s, r.ret>>
  BY DEF PutsTurn
<1> HIDE DEF s
<1>7. iob[s] \in Records /\ StreamOK(iob[s], file) /\ "WRITE" \in iob[s].flag
  BY <1>1, <1>2, <1>3 DEF StreamsOK, StreamsAre, Writes
<1>8. Becomes(iob[s], r, file) /\ r.ret \in Int /\ "WRITE" \in r.g.flag
  BY <1>5, <1>7, PutcBecomes
<1>9. StreamsOK' /\ iob'[s] = r.g
  BY <1>1, <1>2, <1>6, <1>8, AloneKeeps
<1>10. CallOK'
  <2>1. CASE call.left = 1
    BY <1>1, <2>1, IdleIs, QuietCall
  <2>2. CASE call.left # 1
    <3>1. PICK l \in Int : l = call.left - 1
      BY <1>2
    <3>2. call' = [call EXCEPT !.left = l]
      BY <1>1, <2>2, <3>1
    <3>3. call' \in Calls /\ call'.op = "puts" /\ call'.slot = s /\ call'.left = l
      BY <1>1, <1>2, <3>2 DEF Calls, s
    <3>4. l >= 1 /\ puts' + l <= program'.puts
      BY <1>1, <1>2, <1>3, <1>4, <2>2, <3>1
    <3>5. "WRITE" \in iob'[s].flag
      BY <1>8, <1>9
    <3>6. PutsOK'
      BY <3>3, <3>4, <3>5 DEF PutsOK, Writes
    <3>7. QED
      BY <3>3, <3>6 DEF CallOK
  <2>3. QED
    BY <2>1, <2>2
<1>11. RestOK'
  <2>1. puts' \in 0 .. program'.puts
    BY <1>1, <1>4, <1>5
  <2>2. troubles' \in 0 .. program'.troubles
    BY <1>1, <1>6, CountsKept
  <2>3. last' \in Slots \X Int
    BY <1>2, <1>6, <1>8
  <2>4. QED
    BY <1>1, <2>1, <2>2, <2>3 DEF RestOK
<1>12. QED
  BY <1>9, <1>10, <1>11 DEF IInv

(* One more character has been taken. *)
LEMMA TakenMore ==
  ASSUME StreamsOK, call \in Calls, Taken, Stands(Len(call.str)),
         NEW s \in Slots, s = call.slot, NEW v \in Nat,
         v = file[iob[s].name][Tell(s) + 1], iob'[s].name = iob[s].name,
         file'[iob[s].name] = file[iob[s].name], Reads(s)', Tell(s)' = Tell(s) + 1,
         call' \in Calls, call'.slot = s, call'.start = call.start,
         call'.str = Append(call.str, v)
  PROVE  Taken' /\ (Stands(Len(call.str)))' /\ Len(call'.str) = Len(call.str) + 1
<1>1. call.str \in Seq(Nat) /\ Len(call.str) \in Nat /\ call.start \in Nat
  BY CallIs DEF Taken
<1>2. /\ Len(call'.str) = Len(call.str) + 1
      /\ \A k \in 1 .. Len(call.str) : call'.str[k] = call.str[k]
      /\ call'.str[Len(call.str) + 1] = v
  BY <1>1
<1>3. Tell(s) = call.start + Len(call.str) /\ Tell(s)' = call.start + (Len(call.str) + 1)
  BY <1>1 DEF Stands
<1>4. ASSUME NEW k \in 1 .. Len(call'.str)
      PROVE  call'.str[k] = file'[iob'[s].name][call'.start + k]
  <2>1. CASE k \in 1 .. Len(call.str)
    <3>1. call.str[k] = file[iob[s].name][call.start + k]
      BY <2>1 DEF Taken, Contained
    <3>2. QED
      BY <1>2, <2>1, <3>1
  <2>2. CASE k = Len(call.str) + 1
    <3>1. Tell(s) + 1 = call.start + k
      BY <1>1, <1>3, <2>2
    <3>2. QED
      BY <1>2, <2>2, <3>1
  <2>3. k \in 1 .. Len(call.str) \/ k = Len(call.str) + 1
    BY <1>1, <1>2
  <2>4. QED
    BY <2>1, <2>2, <2>3
<1>5. Taken'
  BY <1>1, <1>4 DEF Taken, Contained, Reads
<1>6. (Stands(Len(call.str)))'
  BY <1>2, <1>3 DEF Stands, Tell
<1>7. QED
  BY <1>2, <1>5, <1>6

(* None has: where the stream stands may have changed. *)
LEMMA TakenSame ==
  ASSUME Taken, NEW s \in Slots, s = call.slot, iob'[s].name = iob[s].name,
         file'[iob[s].name] = file[iob[s].name], Reads(s)',
         call'.slot = s, call'.start = call.start, call'.str = call.str
  PROVE  Taken' /\ Contained' = Contained
<1>1. Contained' = Contained
  BY DEF Contained
<1>2. QED
  BY <1>1 DEF Taken, Reads

(* A turn of g_gets() takes the next character, or ends the line. *)
LEMMA StepGetsTurn ==
  ASSUME IInv, GetsTurn
  PROVE  IInv'
<1>1. /\ StreamsOK /\ CallOK /\ RestOK /\ call.op = "gets"
      /\ UNCHANGED <<program, puts>>
  BY DEF IInv, GetsTurn
<1>2. call \in Calls /\ GetsOK
  BY <1>1 DEF CallOK
<1>3. PICK s \in Slots : s = call.slot
  BY <1>2, CallIs
<1> DEFINE n == Len(call.str)
<1>4. /\ call.left \in Int /\ call.size \in Nat /\ call.str \in Seq(Nat)
      /\ n \in Nat /\ call.start \in Nat
  BY <1>2, CallIs DEF GetsOK, Taken
<1>5. /\ Reads(s) /\ Taken /\ NoNewline /\ Stands(n) /\ Tell(s) = call.start + n
      /\ call.left >= 1 /\ n + call.left = call.size
  BY <1>2, <1>3 DEF GetsOK, Taken, Stands
<1>6. PICK l \in Int : l = call.left - 1
  BY <1>4
<1>7. CASE ~OneMore(call.left)
  <2>1. /\ call' = [call EXCEPT !.op = "line", !.left = @ - 1]
        /\ UNCHANGED <<iob, file, last, trouble, troubles>>
    BY <1>7 DEF GetsTurn
  <2>2. StreamsOK' /\ RestOK'
    BY <1>1, <2>1 DEF StreamsOK, RestOK
  <2>3. call' = [call EXCEPT !.op = "line", !.left = l]
    BY <1>6, <2>1
  <2>4. /\ call' \in Calls /\ call'.op = "line" /\ call'.slot = s /\ call'.size = call.size
        /\ call'.str = call.str /\ call'.start = call.start
    BY <1>2, <1>3, <2>3, OpsAre DEF Calls
  <2>5. call.left = 1
    BY <1>4, <1>5, <1>7 DEF OneMore
  <2>6. n < call.size /\ n = call.size - 1
    BY <1>4, <1>5, <2>5
  <2>7. Taken' /\ NoNewline' /\ (Stands(Len(call.str)))'
    BY <1>2, <1>3, <2>1, <2>4
       DEF GetsOK, Taken, NoNewline, Contained, Reads, Stands, Tell
  <2>8. LineOK'
    BY <2>4, <2>6, <2>7 DEF LineOK
  <2>9. CallOK'
    BY <2>4, <2>8 DEF CallOK
  <2>10. QED
    BY <2>2, <2>9 DEF IInv
<1>8. CASE OneMore(call.left)
  <2>1. PICK r \in g_getc(iob[s]), f \in Sync(s) :
          /\ Do(s, r, f) /\ last' = <<s, r.ret>>
          /\ call' = IF r.ret \in {EOF, Newline}
                     THEN [call EXCEPT !.op = "line", !.left = @ - 1]
                     ELSE [call EXCEPT !.left = @ - 1, !.str = Append(@, r.ret)]
    BY <1>3, <1>8 DEF GetsTurn
  <2>2. call.left >= 2
    BY <1>4, <1>8 DEF OneMore
  <2>3. /\ StreamsOK' /\ Reads(s)' /\ iob'[s].name = iob[s].name
        /\ file'[iob[s].name] = file[iob[s].name]
        /\ \/ /\ r.ret = EOF /\ Tell(s)' = Tell(s)
              /\ \/ s \in trouble'
                 \/ "EOF" \in iob'[s].flag /\ Tell(s) >= Len(file[iob[s].name])
           \/ /\ r.ret \in Nat /\ r.ret = file[iob[s].name][Tell(s) + 1]
              /\ Tell(s)' = Tell(s) + 1
    BY <1>1, <1>5, <2>1, TurnTakes
  <2>4. r.ret \in Int /\ (r.ret = EOF \/ r.ret \in Nat)
    BY <2>3 DEF EOF
  <2>5. RestOK'
    <3>1. troubles' \in 0 .. program'.troubles
      BY <1>1, <2>1, CountsKept
    <3>2. last' \in Slots \X Int
      BY <2>1, <2>4
    <3>3. QED
      BY <1>1, <3>1, <3>2 DEF RestOK
  <2>6. CASE r.ret \in {EOF, Newline}
    <3>1. call' = [call EXCEPT !.op = "line", !.left = l]
      BY <1>6, <2>1, <2>6
    <3>2. /\ call' \in Calls /\ call'.op = "line" /\ call'.slot = s /\ call'.size = call.size
          /\ call'.str = call.str /\ call'.start = call.start
      BY <1>2, <1>3, <3>1, OpsAre DEF Calls
    <3>3. Taken' /\ Contained' = Contained
      BY <1>3, <1>5, <2>3, <3>2, TakenSame
    <3>4. NoNewline'
      BY <1>5, <3>2 DEF NoNewline
    <3>5. n < call.size
      BY <1>4, <1>5
    <3>6. \/ /\ Tell(s)' = call.start + (n + 1)
             /\ Contained[call.start + n + 1] = Newline
          \/ /\ Tell(s)' = call.start + n
             /\ call.start + n >= Len(Contained) \/ s \in trouble'
      <4>1. CASE r.ret = EOF
        <5>1. r.ret \notin Nat
          BY <4>1 DEF EOF
        <5>2. QED
          BY <1>3, <1>5, <2>3, <5>1 DEF Contained
      <4>2. CASE r.ret # EOF
        <5>1. r.ret = Newline /\ r.ret = file[iob[s].name][Tell(s) + 1] /\ Tell(s)' = Tell(s) + 1
          BY <2>3, <2>6, <4>2
        <5>2. Tell(s) + 1 = call.start + n + 1 /\ Tell(s) + 1 = call.start + (n + 1)
          BY <1>4, <1>5
        <5>3. QED
          BY <1>3, <5>1, <5>2 DEF Contained
      <4>3. QED
        BY <4>1, <4>2
    <3>7. LineOK'
      <4>1. Tell(s)' = Tell(call.slot)'
        BY <3>2 DEF Tell
      <4>2. \/ /\ (Stands(Len(call.str) + 1))'
               /\ Contained'[call'.start + Len(call'.str) + 1] = Newline
            \/ /\ (Stands(Len(call.str)))'
               /\ call'.start + Len(call'.str) >= Len(Contained') \/ call'.slot \in trouble'
        BY <3>2, <3>3, <3>6, <4>1 DEF Stands
      <4>3. QED
        BY <3>2, <3>3, <3>4, <3>5, <4>2 DEF LineOK
    <3>8. CallOK'
      BY <3>2, <3>7 DEF CallOK
    <3>9. QED
      BY <2>3, <2>5, <3>8 DEF IInv
  <2>7. CASE r.ret \notin {EOF, Newline}
    <3>1. /\ r.ret \in Nat /\ r.ret = file[iob[s].name][Tell(s) + 1]
          /\ Tell(s)' = Tell(s) + 1 /\ r.ret # Newline
      BY <2>3, <2>7
    <3>2. PICK q \in Seq(Nat) : q = Append(call.str, r.ret)
      <4>1. Append(call.str, r.ret) \in Seq(Nat)
        BY <1>4, <3>1
      <4>2. QED
        BY <4>1
    <3>3. call' = [call EXCEPT !.left = l, !.str = q]
      BY <1>6, <2>1, <2>7, <3>2
    <3>4. /\ call' \in Calls /\ call'.op = "gets" /\ call'.slot = s /\ call'.size = call.size
          /\ call'.str = q /\ call'.start = call.start /\ call'.left = l
      BY <1>1, <1>2, <1>3, <3>3 DEF Calls
    <3>5. PICK v \in Nat : v = r.ret
      BY <3>1
    <3>6. /\ v = file[iob[s].name][Tell(s) + 1] /\ call'.str = Append(call.str, v)
          /\ v # Newline
      BY <3>1, <3>2, <3>4, <3>5
    <3>7. Taken' /\ (Stands(Len(call.str)))' /\ Len(call'.str) = n + 1
      BY <1>1, <1>2, <1>3, <1>5, <2>3, <3>1, <3>4, <3>6, TakenMore
    <3>8. NoNewline'
      <4>1. \A k \in 1 .. n + 1 : call'.str[k] = IF k = n + 1 THEN v ELSE call.str[k]
        BY <1>4, <3>6
      <4>2. \A k \in 1 .. n + 1 : k # n + 1 => k \in 1 .. n
        BY <1>4
      <4>3. QED
        BY <1>5, <3>6, <3>7, <4>1, <4>2 DEF NoNewline
    <3>9. l >= 1 /\ (n + 1) + l = call.size
      <4>1. n + call.left = call.size
        BY <1>5
      <4>2. n \in Nat /\ call.left \in Int /\ call.size \in Nat
        BY <1>4
      <4> HIDE DEF n
      <4>3. l >= 1 /\ (n + 1) + l = n + call.left
        BY <1>6, <2>2, <4>2
      <4>4. QED
        BY <4>1, <4>3
    <3>10. GetsOK'
      BY <3>4, <3>7, <3>8, <3>9 DEF GetsOK
    <3>11. CallOK'
      BY <3>4, <3>10 DEF CallOK
    <3>12. QED
      BY <2>3, <2>5, <3>11 DEF IInv
  <2>8. QED
    BY <2>6, <2>7
<1>9. QED
  BY <1>7, <1>8

(* m items of size bytes are m items. *)
LEMMA ItemsAre ==
  ASSUME NEW m \in Nat, NEW size \in Nat, size >= 1, NEW str, Len(str) = m * size
  PROVE  Items(str, size) = m
<1>1. (m * size) \div size = m
  BY Z3
<1>2. QED
  BY <1>1 DEF Items

(* A turn of g_read() takes the next byte, or counts the items. *)
LEMMA StepReadTurn ==
  ASSUME IInv, ReadTurn
  PROVE  IInv'
<1>1. /\ StreamsOK /\ CallOK /\ RestOK /\ call.op = "read"
      /\ UNCHANGED <<program, puts>>
  BY DEF IInv, ReadTurn
<1>2. call \in Calls /\ ReadOK
  BY <1>1 DEF CallOK
<1>3. PICK s \in Slots : s = call.slot
  BY <1>2, CallIs
<1> DEFINE n == Len(call.str)
<1>4. /\ call.left \in Int /\ call.size \in Nat /\ call.str \in Seq(Nat)
      /\ n \in Nat /\ call.start \in Nat
  BY <1>2, CallIs DEF ReadOK, Taken
<1>5. /\ Reads(s) /\ Taken /\ Stands(n) /\ Tell(s) = call.start + n
      /\ call.left >= 0 /\ call.size >= 1
  BY <1>2, <1>3 DEF ReadOK, Taken, Stands
<1>6. PICK m \in Nat \ {0} : call.want = m * call.size /\ n + call.left = call.want
  BY <1>2 DEF ReadOK
<1>7. CASE call.left = 0
  <2>1. /\ call' = [call EXCEPT !.op = "items", !.left = Items(call.str, call.size)]
        /\ UNCHANGED <<iob, file, last, trouble, troubles>>
    BY <1>7 DEF ReadTurn
  <2>2. StreamsOK' /\ RestOK'
    BY <1>1, <2>1 DEF StreamsOK, RestOK
  <2>3. n = m * call.size /\ n = call.want
    BY <1>4, <1>6, <1>7
  <2>4. Items(call.str, call.size) = m
    BY <1>4, <1>5, <2>3, ItemsAre
  <2>5. PICK l \in Int : l = m
    OBVIOUS
  <2>6. call' = [call EXCEPT !.op = "items", !.left = l]
    BY <2>1, <2>4, <2>5
  <2>7. /\ call' \in Calls /\ call'.op = "items" /\ call'.slot = s /\ call'.size = call.size
        /\ call'.str = call.str /\ call'.start = call.start /\ call'.left = m
        /\ call'.want = call.want
    BY <1>2, <1>3, <2>5, <2>6, OpsAre DEF Calls
  <2>8. Taken' /\ (Stands(Len(call.str)))'
    BY <1>3, <1>5, <2>1, <2>7 DEF Taken, Contained, Reads, Stands, Tell
  <2>9. Len(call'.str) = call'.want /\ Len(call'.str) = call'.left * call'.size
    BY <2>3, <2>7
  <2>10. ItemsOK'
    BY <2>8, <2>9 DEF ItemsOK
  <2>11. CallOK'
    BY <2>7, <2>10 DEF CallOK
  <2>12. QED
    BY <2>2, <2>11 DEF IInv
<1>8. CASE call.left # 0
  <2>1. PICK r \in g_getc(iob[s]) :
          /\ Do(s, r, NoSync) /\ last' = <<s, r.ret>>
          /\ call' = IF r.ret = EOF
                     THEN [call EXCEPT !.op = "items", !.left = 0]
                     ELSE [call EXCEPT !.left = @ - 1, !.str = Append(@, r.ret)]
    BY <1>3, <1>8 DEF ReadTurn
  <2>2. PICK l \in Int : l = call.left - 1
    BY <1>4
  <2>3. /\ StreamsOK' /\ Reads(s)' /\ iob'[s].name = iob[s].name
        /\ file'[iob[s].name] = file[iob[s].name]
        /\ \/ /\ r.ret = EOF /\ Tell(s)' = Tell(s)
              /\ \/ s \in trouble'
                 \/ "EOF" \in iob'[s].flag /\ Tell(s) >= Len(file[iob[s].name])
           \/ /\ r.ret \in Nat /\ r.ret = file[iob[s].name][Tell(s) + 1]
              /\ Tell(s)' = Tell(s) + 1
    BY <1>1, <1>5, <2>1, TurnTakes
  <2>4. r.ret \in Int /\ (r.ret = EOF \/ r.ret \in Nat)
    BY <2>3 DEF EOF
  <2>5. RestOK'
    <3>1. troubles' \in 0 .. program'.troubles
      BY <1>1, <2>1, CountsKept
    <3>2. last' \in Slots \X Int
      BY <2>1, <2>4
    <3>3. QED
      BY <1>1, <3>1, <3>2 DEF RestOK
  <2>6. CASE r.ret = EOF
    <3>1. PICK z \in Int : z = 0
      OBVIOUS
    <3>2. call' = [call EXCEPT !.op = "items", !.left = z]
      BY <2>1, <2>6, <3>1
    <3>3. /\ call' \in Calls /\ call'.op = "items" /\ call'.slot = s /\ call'.left = 0
          /\ call'.str = call.str /\ call'.start = call.start /\ call'.want = call.want
      BY <1>2, <1>3, <3>1, <3>2, OpsAre DEF Calls
    <3>4. Taken'
      BY <1>3, <1>5, <2>3, <3>3, TakenSame
    <3>5. r.ret \notin Nat
      BY <2>6 DEF EOF
    <3>6. Tell(s)' = call.start + n /\ (s \in trouble' \/ "EOF" \in iob'[s].flag)
      BY <1>5, <2>3, <3>5
    <3>7. (Stands(Len(call.str)))'
      BY <3>3, <3>6 DEF Stands, Tell
    <3>a. n < call.want
      <4>1. call.left > 0
        BY <1>4, <1>5, <1>8
      <4> HIDE DEF n
      <4>2. QED
        BY <1>4, <1>6, <4>1
    <3>8. ItemsOK'
      BY <3>3, <3>4, <3>6, <3>7, <3>a DEF ItemsOK
    <3>9. CallOK'
      BY <3>3, <3>8 DEF CallOK
    <3>10. QED
      BY <2>3, <2>5, <3>9 DEF IInv
  <2>7. CASE r.ret # EOF
    <3>1. /\ r.ret \in Nat /\ r.ret = file[iob[s].name][Tell(s) + 1]
          /\ Tell(s)' = Tell(s) + 1
      BY <2>3, <2>7
    <3>2. PICK q \in Seq(Nat) : q = Append(call.str, r.ret)
      <4>1. Append(call.str, r.ret) \in Seq(Nat)
        BY <1>4, <3>1
      <4>2. QED
        BY <4>1
    <3>3. call' = [call EXCEPT !.left = l, !.str = q]
      BY <2>1, <2>2, <2>7, <3>2
    <3>4. /\ call' \in Calls /\ call'.op = "read" /\ call'.slot = s /\ call'.size = call.size
          /\ call'.str = q /\ call'.start = call.start /\ call'.left = l
          /\ call'.want = call.want
      BY <1>1, <1>2, <1>3, <3>3 DEF Calls
    <3>5. PICK v \in Nat : v = r.ret
      BY <3>1
    <3>6. v = file[iob[s].name][Tell(s) + 1] /\ call'.str = Append(call.str, v)
      BY <3>1, <3>2, <3>4, <3>5
    <3>7. Taken' /\ (Stands(Len(call.str)))' /\ Len(call'.str) = n + 1
      BY <1>1, <1>2, <1>3, <1>5, <2>3, <3>1, <3>4, <3>6, TakenMore
    <3>8. l >= 0 /\ (n + 1) + l = call.want
      <4>1. n + call.left = call.want
        BY <1>6
      <4>2. n \in Nat /\ call.left \in Int /\ call.left >= 0
        BY <1>4, <1>5
      <4> HIDE DEF n
      <4>3. l >= 0 /\ (n + 1) + l = n + call.left
        BY <1>8, <2>2, <4>2
      <4>4. QED
        BY <4>1, <4>3
    <3>9. Len(call'.str) + call'.left = call'.want /\ call'.want = m * call'.size
      BY <1>6, <3>4, <3>7, <3>8
    <3>10. ReadOK'
      BY <1>5, <3>4, <3>7, <3>8, <3>9 DEF ReadOK
    <3>11. CallOK'
      BY <3>4, <3>10 DEF CallOK
    <3>12. QED
      BY <2>3, <2>5, <3>11 DEF IInv
  <2>8. QED
    BY <2>6, <2>7
<1>9. QED
  BY <1>7, <1>8

-----------------------------------------------------------------------------
(* The three standard streams are open at the start. *)
LEMMA InitIInv ==
  ASSUME Init
  PROVE  IInv
<1> DEFINE o == Opened(In, {"READ"}, 0)
           w == Opened(Out, {"WRITE"}, 0)
           e == Opened(Err, {"WRITE", "UNBUF"}, 0)
<1>1. /\ file = StartFile /\ call = Idle /\ last = <<stdin, 0>> /\ program \in Programs
      /\ puts = 0 /\ trouble = {} /\ troubles = 0
      /\ iob = [s \in Slots |-> CASE s = stdin  -> o
                                 [] s = stdout -> w
                                 [] s = stderr -> e
                                 [] OTHER      -> Free]
  BY DEF Init
<1>2. /\ In \in Names /\ Out \in Names /\ Err \in Names
      /\ In # Out /\ In # Err /\ Out # Err /\ file \in Contents
      /\ file[In] \in Seq(Nat) /\ file[Out] = <<>> /\ file[Err] = <<>>
  BY <1>1, ConstantsAssumption DEF Contents
<1>3. <<>> \in Seq(Nat) /\ Len(<<>>) = 0
  BY EmptySeq
<1>4. ReaderOK(o, file[In])
  BY <1>2, OpenedReader
<1>5. WriterOK(w, file[Out])
  <2>1. PICK f \in Seq(Nat) : f = <<>>
    BY <1>3
  <2>2. PICK fl \in SUBSET {"WRITE", "UNBUF"} : fl = {"WRITE"}
    OBVIOUS
  <2>3. WriterOK(Opened(Out, fl, Len(f)), f)
    BY <1>2, <2>2, OpenedWriter
  <2>4. QED
    BY <1>2, <1>3, <2>1, <2>2, <2>3
<1>6. WriterOK(e, file[Err])
  <2>1. PICK f \in Seq(Nat) : f = <<>>
    BY <1>3
  <2>2. PICK fl \in SUBSET {"WRITE", "UNBUF"} : fl = {"WRITE", "UNBUF"}
    OBVIOUS
  <2>3. WriterOK(Opened(Err, fl, Len(f)), f)
    BY <1>2, <2>2, OpenedWriter
  <2>4. QED
    BY <1>2, <1>3, <2>1, <2>2, <2>3
<1>7. ASSUME NEW n \in Names, NEW fl \in SUBSET {"READ", "WRITE", "UNBUF"}
      PROVE  /\ Opened(n, fl, 0) \in Records /\ Opened(n, fl, 0).name = n
             /\ Opened(n, fl, 0).flag = fl
  <2>1. fl \in SUBSET {"READ", "WRITE", "UNBUF", "EOF", "ERR"}
    BY <1>7
  <2>2. PICK g : g = Opened(n, fl, 0)
    OBVIOUS
  <2>3. PICK z \in Nat : z = 0
    OBVIOUS
  <2>4. g = Opened(n, fl, z)
    BY <2>2, <2>3
  <2>5. g \in Records /\ g.flag = fl /\ g.name = n
    BY <2>1, <2>4, OpenedIs
  <2>6. QED
    BY <2>2, <2>5
<1>8. /\ o \in Records /\ o.name = In /\ o.flag = {"READ"}
      /\ w \in Records /\ w.name = Out /\ w.flag = {"WRITE"}
      /\ e \in Records /\ e.name = Err /\ e.flag = {"WRITE", "UNBUF"}
  <2>1. /\ {"READ"} \in SUBSET {"READ", "WRITE", "UNBUF"}
        /\ {"WRITE"} \in SUBSET {"READ", "WRITE", "UNBUF"}
        /\ {"WRITE", "UNBUF"} \in SUBSET {"READ", "WRITE", "UNBUF"}
    OBVIOUS
  <2>2. QED
    BY <1>2, <1>7, <2>1, Zenon
<1> HIDE DEF o, w, e
<1>9. ASSUME NEW s \in Slots
      PROVE  \/ s = stdin /\ iob[s] = o
             \/ s = stdout /\ iob[s] = w
             \/ s = stderr /\ iob[s] = e
             \/ s # stdin /\ s # stdout /\ s # stderr /\ iob[s] = Free
  BY <1>1, Bounds
<1>10. iob \in [Slots -> Records]
  <2>1. \A s \in Slots : iob[s] \in Records
    BY <1>8, <1>9, FreeIs
  <2>2. PICK F : F = [s \in Slots |-> iob[s]] /\ F = iob
    BY <1>1
  <2>3. QED
    BY <2>1, <2>2
<1>11. ASSUME NEW s \in Slots PROVE StreamOK(iob[s], file)
  <2>1. StreamOK(o, file) /\ StreamOK(w, file) /\ StreamOK(e, file)
    BY <1>2, <1>3, <1>4, <1>5, <1>6, <1>8 DEF StreamOK
  <2>2. StreamOK(Free, file)
    BY DEF StreamOK
  <2>3. QED
    BY <1>9, <2>1, <2>2
<1>12. ASSUME NEW s \in Slots, NEW t \in Slots, s # t
       PROVE  iob[s].name = NoFile \/ iob[s].name # iob[t].name
  <2>1. Free.name = NoFile /\ NoFile \notin Names
    BY FreeIs, ConstantsAssumption
  <2>2. QED
    BY <1>2, <1>8, <1>9, <1>12, <2>1
<1>13. ASSUME NEW s \in Slots PROVE "ERR" \notin iob[s].flag
  BY <1>8, <1>9, FreeIs
<1>14. StreamsOK
  BY <1>1, <1>2, <1>10, <1>11, <1>12, <1>13 DEF StreamsOK, StreamsAre
<1>15. CallOK
  BY <1>1, IdleIs DEF CallOK
<1>16. RestOK
  <2>1. program.puts \in Nat /\ program.troubles \in Nat
    BY <1>1, ConstantsAssumption
  <2>2. last \in Slots \X Int
    BY <1>1, Bounds
  <2>3. QED
    BY <1>1, <2>1, <2>2 DEF RestOK
<1>17. QED
  BY <1>14, <1>15, <1>16 DEF IInv

(* Every step keeps the invariant. *)
LEMMA NextIInv ==
  ASSUME IInv, [Next]_vars
  PROVE  IInv'
<1>1. /\ program.slots \subseteq Slots /\ program.modes \subseteq {"r", "w", "a"}
  BY ConstantsAssumption DEF IInv, RestOK, Slots
<1>2. ASSUME NEW s \in program.slots,
             \/ Getc(s) \/ Putc(s) \/ Flush(s) \/ Close(s)
             \/ \E n \in Files, m \in program.modes : Open(s, n, m)
             \/ \E o \in Offsets, w \in {"SET", "CUR"} : Seek(s, o, w)
             \/ \E max \in 1 .. MaxGets : Gets(s, max)
             \/ \E z, n \in 1 .. MaxRead : z * n <= MaxRead /\ Read(s, z, n)
             \/ \E len \in 1 .. program.puts : Puts(s, len)
      PROVE  IInv'
  <2>1. s \in Slots
    BY <1>1, <1>2
  <2>2. CASE Getc(s)
    BY <2>1, <2>2, StepGetc
  <2>3. CASE Putc(s)
    BY <2>1, <2>3, StepPutc
  <2>4. CASE Flush(s)
    BY <2>1, <2>4, StepFlush
  <2>5. CASE Close(s)
    BY <2>1, <2>5, StepClose
  <2>6. ASSUME NEW n \in Files, NEW m \in program.modes, Open(s, n, m) PROVE IInv'
    BY <1>1, <2>1, <2>6, StepOpen
  <2>7. ASSUME NEW o \in Offsets, NEW w \in {"SET", "CUR"}, Seek(s, o, w) PROVE IInv'
    BY <2>1, <2>7, StepSeek
  <2>8. ASSUME NEW max \in 1 .. MaxGets, Gets(s, max) PROVE IInv'
    BY <2>1, <2>8, StepGets
  <2>9. ASSUME NEW z \in 1 .. MaxRead, NEW n \in 1 .. MaxRead, Read(s, z, n) PROVE IInv'
    BY <2>1, <2>9, StepRead
  <2>10. ASSUME NEW len \in 1 .. program.puts, Puts(s, len) PROVE IInv'
    BY <2>1, <2>10, StepPuts
  <2>11. QED
    BY <1>2, <2>2, <2>3, <2>4, <2>5, <2>6, <2>7, <2>8, <2>9, <2>10, Zenon
<1>3. CASE UNCHANGED vars
  <2>1. UNCHANGED <<iob, file, call, last, program, puts, trouble, troubles>>
    BY <1>3 DEF vars
  <2>2. StreamsOK' /\ RestOK'
    BY <2>1 DEF IInv, StreamsOK, RestOK
  <2>3. GetsOK' = GetsOK /\ LineOK' = LineOK /\ ReadOK' = ReadOK /\ ItemsOK' = ItemsOK
        /\ PutsOK' = PutsOK
    BY <2>1, Zenon DEF GetsOK, LineOK, ReadOK, ItemsOK, PutsOK, Taken, NoNewline, Stands,
                       Contained, Reads, Writes, Tell
  <2>4. CallOK'
    BY <2>1, <2>3, Zenon DEF IInv, CallOK
  <2>5. QED
    BY <2>2, <2>4 DEF IInv
<1>4. QED
  BY <1>2, <1>3, StepGetsTurn, StepReadTurn, StepReturns, StepPutsTurn, StepExit,
     StepProfflush, Zenon DEF Next

-----------------------------------------------------------------------------
(* What the invariant says of every stream, in the words of the model. *)
LEMMA TypesFollow ==
  ASSUME IInv
  PROVE  TypeOK
<1>1. StreamsOK /\ CallOK /\ RestOK
  BY DEF IInv
<1>2. /\ iob \in [Slots -> Records] /\ file \in Contents /\ trouble \subseteq Slots
      /\ \A s \in Slots : StreamOK(iob[s], file)
  BY <1>1 DEF StreamsOK, StreamsAre
<1>3. ASSUME NEW s \in Slots
      PROVE  /\ iob[s].cnt \in -1 .. BufSiz /\ iob[s].ptr \in 0 .. BufSiz
             /\ iob[s].ptr + iob[s].cnt <= bufsize(iob[s])
             /\ BaseOK(iob[s])
  <2>1. PICK g \in Records : g = iob[s]
    BY <1>2
  <2>2. /\ g.ptr \in Nat /\ g.cnt \in Int /\ Len(g.buf) \in Nat
        /\ bufsize(g) \in Nat /\ bufsize(g) <= BufSiz /\ BufSiz \in Nat
    BY FieldsOf, SizeIs, Bounds
  <2>3. CASE g = Free
    <3>1. g.cnt = 0 /\ g.ptr = 0
      BY <2>3, FreeIs
    <3>2. BaseOK(g)
      BY <3>1, Zenon DEF BaseOK
    <3>3. QED
      BY <2>1, <2>2, <3>1, <3>2
  <2>4. CASE g.name \in Names /\ ReaderOK(g, file[g.name])
    <3>1. /\ Len(g.buf) = g.ptr + Unread(g) /\ Len(g.buf) <= BufSiz
          /\ g.cnt >= -1 /\ InputFlags(g) /\ BaseOK(g)
      BY <2>4 DEF ReaderOK, Filled, AtEnd
    <3>2. bufsize(g) = BufSiz
      BY <3>1 DEF InputFlags, bufsize
    <3>3. Unread(g) >= 0 /\ Unread(g) >= g.cnt /\ Unread(g) \in Int
      BY <2>2 DEF Unread
    <3>4. g.cnt \in -1 .. BufSiz /\ g.ptr \in 0 .. BufSiz /\ g.ptr + g.cnt <= BufSiz
      BY <2>2, <3>1, <3>3
    <3>5. QED
      BY <2>1, <3>1, <3>2, <3>4
  <2>5. CASE g.name \in Names /\ WriterOK(g, file[g.name])
    <3>1. g.cnt >= 0 /\ g.ptr + g.cnt <= bufsize(g) /\ BaseOK(g)
      BY <2>5 DEF WriterOK, Room
    <3>2. g.cnt \in -1 .. BufSiz /\ g.ptr \in 0 .. BufSiz
      BY <2>2, <3>1
    <3>3. QED
      BY <2>1, <3>1, <3>2
  <2>6. StreamOK(g, file)
    BY <1>2, <2>1
  <2>7. QED
    BY <2>3, <2>4, <2>5, <2>6 DEF StreamOK
<1>4. [Names -> Seq(Nat) \cup {NoFile}] = Contents
  BY DEF Contents
<1>5. \A s \in Slots : LET g == iob[s] IN
        /\ g.cnt \in -1 .. BufSiz /\ g.ptr \in 0 .. BufSiz
        /\ g.ptr + g.cnt <= bufsize(g)
        /\ g.cnt # 0 \/ g.ptr # 0 => g.base
  BY <1>3, Zenon DEF BaseOK
<1>6. /\ iob \in [Slots -> Records] /\ file \in [Names -> Seq(Nat) \cup {NoFile}]
      /\ trouble \subseteq Slots
  BY <1>2, <1>4, Zenon
<1>7. call \in [op: Ops, slot: Slots, left: Int, size: Nat, want: Int, str: Seq(Nat), start: Int]
  BY <1>1 DEF CallOK, Calls
<1>8. QED
  BY <1>1, <1>5, <1>6, <1>7, Zenon DEF TypeOK, RestOK

(* What agrees with a file byte by byte is a piece of it. *)
LEMMA CopyIs ==
  ASSUME NEW q \in Seq(Nat), NEW f, NEW p \in Int, \A k \in 1 .. Len(q) : q[k] = f[p + k]
  PROVE  q = SubSeq(f, p + 1, p + Len(q))
<1>1. PICK l \in Nat : l = Len(q)
  BY LenProperties
<1>2. PICK a \in Int, b \in Int : a = p + 1 /\ b = p + l
  OBVIOUS
<1>3. \A k \in 1 .. l : q[k] \in Nat
  BY <1>1, LenProperties
<1>4. ASSUME NEW i \in a .. b PROVE f[i] \in Nat
  <2>1. i \in Int /\ i >= a /\ i <= b
    OBVIOUS
  <2>2. i - p \in 1 .. l /\ p + (i - p) = i
    BY <1>2, <2>1
  <2>3. q[i - p] = f[i] /\ q[i - p] \in Nat
    BY <1>1, <1>3, <2>2
  <2>4. QED
    BY <2>3
<1>5. /\ SubSeq(f, a, b) \in Seq(Nat)
      /\ Len(SubSeq(f, a, b)) = IF a <= b THEN b - a + 1 ELSE 0
      /\ \A i \in 1 .. b - a + 1 : SubSeq(f, a, b)[i] = f[a + i - 1]
  BY <1>4, SubSeqProperties
<1>6. Len(SubSeq(f, a, b)) = l /\ b - a + 1 = l
  BY <1>2, <1>5
<1>7. \A k \in 1 .. l : a + k - 1 = p + k
  BY <1>2
<1>8. \A k \in 1 .. l : SubSeq(f, a, b)[k] = q[k]
  BY <1>1, <1>5, <1>6, <1>7
<1>9. SubSeq(f, a, b) = q
  BY <1>1, <1>5, <1>6, <1>8, SeqEqual
<1>10. QED
  BY <1>1, <1>2, <1>9

(* The buffer as a piece of the file, from the invariant. *)
LEMMA PositionFollows ==
  ASSUME IInv
  PROVE  PositionKept
<1>1. ASSUME NEW s \in Slots
      PROVE  iob[s] \in Records /\ StreamOK(iob[s], file)
  BY DEF IInv, StreamsOK, StreamsAre
<1>2. ASSUME NEW s \in Slots, Reads(s), "ERR" \notin iob[s].flag
      PROVE  /\ Len(iob[s].buf) = iob[s].ptr + (IF iob[s].cnt < 0 THEN 0 ELSE iob[s].cnt)
             /\ iob[s].off = iob[s].baseposition + Len(iob[s].buf)
             /\ iob[s].buf = SubSeq(file[iob[s].name], iob[s].baseposition + 1, iob[s].off)
  <2>1. PICK g \in Records : g = iob[s]
    BY <1>1
  <2>2. PICK f : f = file[g.name]
    OBVIOUS
  <2>3. ReaderOK(g, f) /\ f \in Seq(Nat) /\ "ERR" \notin g.flag
    BY <1>1, <1>2, <2>1, <2>2, InputIs DEF Reads
  <2>4. /\ Len(g.buf) = g.ptr + Unread(g) /\ Len(g.buf) <= g.off
        /\ g.baseposition + Len(g.buf) = g.off
        /\ \A k \in 1 .. Len(g.buf) : g.buf[k] = f[g.off - Len(g.buf) + k]
    BY <2>3 DEF ReaderOK, Filled, InputPlace, Copied
  <2>5. /\ g.buf \in Seq(Nat) /\ Len(g.buf) \in Nat /\ g.off \in Nat /\ g.baseposition \in Int
        /\ \A k \in 1 .. Len(g.buf) : g.buf[k] \in Nat
    BY FieldsOf
  <2>6. g.baseposition = g.off - Len(g.buf) /\ g.baseposition + 1 \in Int
    BY <2>4, <2>5
  <2>7. \A k \in 1 .. Len(g.buf) : g.buf[k] = f[g.baseposition + k]
    BY <2>4, <2>6
  <2>8. g.buf = SubSeq(f, g.baseposition + 1, g.off)
    <3>1. g.buf = SubSeq(f, g.baseposition + 1, g.baseposition + Len(g.buf))
      BY <2>5, <2>7, CopyIs
    <3>2. QED
      BY <2>4, <3>1
  <2>9. QED
    BY <2>1, <2>2, <2>4, <2>5, <2>6, <2>8 DEF Unread
<1>3. ASSUME NEW s \in Slots, Writes(s), "ERR" \notin iob[s].flag
      PROVE  /\ Len(iob[s].buf) = iob[s].ptr
             /\ iob[s].base => iob[s].ptr + iob[s].cnt = bufsize(iob[s])
             /\ iob[s].baseposition = Len(file[iob[s].name])
             /\ iob[s].off = iob[s].baseposition
  <2>1. WriterOK(iob[s], file[iob[s].name])
    BY <1>1, <1>3, OutputIs DEF Writes
  <2>2. Room(iob[s]) /\ OutputPlace(iob[s], file[iob[s].name])
    BY <2>1 DEF WriterOK
  <2>3. Len(iob[s].buf) = iob[s].ptr
    BY <2>2 DEF Room
  <2>4. /\ iob[s].base => iob[s].ptr + iob[s].cnt = bufsize(iob[s])
        /\ iob[s].baseposition = Len(file[iob[s].name])
        /\ iob[s].off = Len(file[iob[s].name])
    BY <1>3, <2>2, Zenon DEF OutputPlace
  <2>5. QED
    BY <2>3, <2>4, Zenon
<1>4. QED
  BY <1>2, <1>3, Zenon DEF PositionKept

(* What g_gets() and g_read() have taken when they return. *)
LEMMA TakenIs ==
  ASSUME call \in Calls, Taken
  PROVE  /\ call.str = SubSeq(file[iob[call.slot].name], call.start + 1,
                              call.start + Len(call.str))
         /\ call.start \in Nat /\ Len(call.str) \in Nat /\ call.left \in Int
         /\ call.size \in Nat
<1>0. PICK f : f = file[iob[call.slot].name]
  OBVIOUS
<1>1. PICK q \in Seq(Nat), p \in Int : q = call.str /\ p = call.start
  BY CallIs
<1>2. \A k \in 1 .. Len(q) : q[k] = f[p + k]
  BY <1>0, <1>1 DEF Taken, Contained
<1>3. q = SubSeq(f, p + 1, p + Len(q))
  BY <1>2, CopyIs
<1>4. QED
  BY <1>0, <1>1, <1>3, CallIs DEF Taken

(* What g_gets() has taken, from the invariant. *)
LEMMA LineFollows ==
  ASSUME IInv
  PROVE  GetsTakesALine
<1> SUFFICES ASSUME call.op = "line" PROVE GetsTakesALine
  BY DEF GetsTakesALine
<1>1. call \in Calls /\ LineOK
  BY DEF IInv, CallOK
<1> DEFINE s == call.slot
           n == Len(call.str)
           f == file[iob[s].name]
<1>2. Taken /\ NoNewline /\ n < call.size
  BY <1>1 DEF LineOK
<1>3. /\ call.str = SubSeq(f, call.start + 1, call.start + n)
      /\ call.start \in Nat /\ n \in Nat
  BY <1>1, <1>2, TakenIs
<1>4. \A k \in 1 .. n : call.str[k] # Newline
  BY <1>2 DEF NoNewline
<1>5. \/ Tell(s) = (call.start + n) + 1 /\ f[(call.start + n) + 1] = Newline
      \/ /\ Tell(s) = call.start + n
         /\ n = call.size - 1 \/ call.start + n >= Len(f) \/ s \in trouble
  <2>1. call.start + (n + 1) = (call.start + n) + 1
    BY <1>3
  <2>2. \/ /\ Tell(s) = call.start + (n + 1)
           /\ f[(call.start + n) + 1] = Newline
        \/ /\ Tell(s) = call.start + n
           /\ n = call.size - 1 \/ call.start + n >= Len(f) \/ s \in trouble
    BY <1>1 DEF LineOK, Stands, Contained
  <2>3. QED
    BY <2>1, <2>2
<1>6. QED
  BY <1>2, <1>3, <1>4, <1>5, Zenon DEF GetsTakesALine

(* What g_read() has taken, from the invariant. *)
LEMMA ItemsFollow ==
  ASSUME IInv
  PROVE  ReadTakesItems
<1> SUFFICES ASSUME call.op = "items" PROVE ReadTakesItems
  BY DEF ReadTakesItems
<1>1. call \in Calls /\ ItemsOK
  BY DEF IInv, CallOK
<1>2. Taken /\ Tell(call.slot) = call.start + Len(call.str)
  BY <1>1 DEF ItemsOK, Stands
<1>3. call.str = SubSeq(file[iob[call.slot].name], call.start + 1,
                        call.start + Len(call.str))
  BY <1>1, <1>2, TakenIs
<1>4. \/ Len(call.str) = call.want /\ Len(call.str) = call.left * call.size
      \/ /\ Len(call.str) < call.want /\ call.left = 0
         /\ "EOF" \in iob[call.slot].flag \/ call.slot \in trouble
  BY <1>1 DEF ItemsOK
<1>5. QED
  BY <1>2, <1>3, <1>4, Zenon DEF ReadTakesItems

-----------------------------------------------------------------------------
(* The invariant of the streams and of the loops over them holds after any *)
(* sequence of calls (g_stdio.c).                                          *)
THEOREM StreamsInv == Spec => []IInv
<1>1. Init => IInv
  BY InitIInv
<1>2. IInv /\ [Next]_vars => IInv'
  BY NextIInv
<1>3. QED
  BY <1>1, <1>2, PTL DEF Spec

(* After any sequence of calls, short reads, partial writes and failures     *)
(* included, the buffer of a stream that is read is a copy of the piece of   *)
(* the file that begins at baseposition, the kernel's offset is just behind  *)
(* it, and what a stream that is written holds back belongs right behind     *)
(* what it has written: g_fillbuf(), g_flushbuf() and g_seek() keep ptr, cnt *)
(* and baseposition in step whatever the size of the buffers (g_stdio.c).    *)
THEOREM PositionIsKept == Spec => []PositionKept
<1>1. IInv => PositionKept
  BY PositionFollows
<1>2. QED
  BY <1>1, StreamsInv, PTL

(* No count or pointer leaves its buffer, g_gets() hands out what the file   *)
(* holds from where the stream stood up to the newline it takes too, the end *)
(* of the file or one less than maximum, and g_read() returns the number of  *)
(* items asked for, having moved by exactly their bytes, or 0 when the end   *)
(* of the file or an error came before.                                      *)
THEOREM InputIsTaken == Spec => []InputTaken
<1>1. IInv => TypeOK /\ GetsTakesALine /\ ReadTakesItems
  BY TypesFollow, LineFollows, ItemsFollow
<1>2. IInv => InputTaken
  BY <1>1 DEF InputTaken
<1>3. QED
  BY <1>2, StreamsInv, PTL

-----------------------------------------------------------------------------
(* The streams do what module Streams says                                  *)

(* What a stream that is written holds back, and what becomes of it.        *)
Held(g) == IF "ERR" \in g.flag THEN <<>> ELSE g.buf
WroteAll(g, r)  == ~r.bad /\ r.out = Held(g) /\ Held(r.g) = <<>>
GaveUp(g, r) ==
  /\ \E k \in 0 .. Len(Held(g)) : r.out = SubSeq(Held(g), 1, k)
  /\ Held(r.g) = <<>> /\ r.ret = EOF
  /\ r.bad \/ "ERR" \in g.flag
Added(g, r, khar) ==
  /\ ~r.bad /\ r.ret = khar
  /\ \/ r.out = <<>> /\ Held(r.g) = Append(Held(g), khar)
     \/ r.out = Held(g) /\ Held(r.g) = <<khar>>

(* g_flushbuf() writes all, and stores the character if there is one, or    *)
(* gives the rest up.                                                       *)
LEMMA FlushWrites ==
  ASSUME NEW g \in Records, NEW f \in Seq(Nat), WriterOK(g, f), NEW more \in Int,
         NEW r \in g_flushbuf(more, g)
  PROVE  \/ more < 0 /\ WroteAll(g, r)
         \/ more >= 0 /\ ~r.bad /\ r.ret = 0 /\ r.out = Held(g) /\ Held(r.g) = <<more>>
         \/ GaveUp(g, r)
<1> DEFINE b == Buffered(g)
           w == WrittenOut(b, b.ptr)
<1>1. CASE "ERR" \in g.flag
  <2>1. r = Result(g, <<>>, EOF, FALSE)
    <3>1. "ERR" \in g.flag \cap {"WRITE", "EOF", "ERR"}
      BY <1>1
    <3>2. g.flag \cap {"WRITE", "EOF", "ERR"} # {"WRITE"}
      BY <3>1
    <3>3. QED
      BY <3>2 DEF g_flushbuf
  <2>2. Held(g) = <<>> /\ Len(<<>>) = 0 /\ SubSeq(<<>>, 1, 0) = <<>>
    BY <1>1 DEF Held
  <2>3. 0 \in 0 .. Len(Held(g)) /\ r.out = SubSeq(Held(g), 1, 0)
    BY <2>1, <2>2 DEF Result
  <2>4. GaveUp(g, r)
    BY <1>1, <2>1, <2>2, <2>3 DEF GaveUp, Result
  <2>5. QED
    BY <2>4
<1>2. CASE "ERR" \notin g.flag
  <2>0. Held(g) = g.buf /\ g.buf \in Seq(Nat) /\ Len(g.buf) = g.ptr /\ g.ptr \in Nat
    BY <1>2, FieldsOf DEF Held, WriterOK, Room
  <2>1. /\ b \in Records /\ b.flag = g.flag /\ b.buf = g.buf /\ b.ptr = g.ptr
        /\ b.ptr + b.cnt = bufsize(g)
    BY <1>2, BufferedIs
  <2>2. /\ b.cnt \in Int /\ bufsize(g) \in Nat /\ bufsize(g) - b.cnt = b.ptr
    BY <2>0, <2>1, FieldsOf, SizeIs
  <2>3. SubSeq(b.buf, 1, b.ptr) = g.buf
    BY <2>0, <2>1, SubSeqFull
  <2>4. g.flag \cap {"WRITE", "EOF", "ERR"} = {"WRITE"}
    BY <1>2 DEF WriterOK, OutputFlags
  <2> HIDE DEF b
  <2>5. \/ ~g.base /\ r = Result(g, <<>>, EOF, TRUE)
        \/ r = Result(IF more >= 0 THEN Store(w, more) ELSE w, g.buf, 0, FALSE)
        \/ \E k \in 0 .. b.ptr - 1 : r = Result(GivenUp(b, k), SubSeq(b.buf, 1, k), EOF, TRUE)
    <3>1. \/ ~g.base /\ r = Result(g, <<>>, EOF, TRUE)
          \/ r = Result(IF more >= 0 THEN Store(WrittenOut(b, bufsize(g) - b.cnt), more)
                                     ELSE WrittenOut(b, bufsize(g) - b.cnt),
                        SubSeq(b.buf, 1, bufsize(g) - b.cnt), 0, FALSE)
          \/ \E k \in 0 .. (bufsize(g) - b.cnt) - 1 :
               r = Result(GivenUp(b, k), SubSeq(b.buf, 1, k), EOF, TRUE)
      BY <2>4 DEF g_flushbuf, b, Buffered
    <3>2. QED
      BY <2>2, <2>3, <3>1, Zenon DEF w
  <2>6. CASE ~g.base /\ r = Result(g, <<>>, EOF, TRUE)
    <3>1. g.buf = <<>>
      BY <2>0, <2>6, EmptySeq DEF WriterOK, BaseOK
    <3>2. 0 \in 0 .. Len(Held(g)) /\ r.out = SubSeq(Held(g), 1, 0)
      BY <2>0, <2>6, <3>1 DEF Result
    <3>3. GaveUp(g, r)
      BY <2>0, <2>6, <3>1, <3>2 DEF GaveUp, Result
    <3>4. QED
      BY <3>3
  <2>7. CASE r = Result(IF more >= 0 THEN Store(w, more) ELSE w, g.buf, 0, FALSE)
    <3>1. /\ w \in Records /\ w.flag = b.flag /\ w.buf = <<>> /\ w.ptr = 0
      BY <2>0, <2>1, WrittenOutIs
    <3>2. "ERR" \notin w.flag /\ Len(w.buf) = w.ptr
      BY <1>2, <2>1, <3>1
    <3> HIDE DEF w
    <3>3. CASE more >= 0
      <4>1. more \in Nat
        BY <3>3
      <4>2. Store(w, more).flag = w.flag /\ Store(w, more).buf = Append(<<>>, more)
        BY <3>1, <3>2, <4>1, StoreIs
      <4>3. Held(Store(w, more)) = <<more>>
        BY <3>2, <4>2 DEF Held
      <4>4. QED
        BY <2>0, <2>7, <3>3, <4>3 DEF Result
    <3>4. CASE ~(more >= 0)
      <4>1. r.g = w /\ r.out = g.buf /\ r.bad = FALSE
        BY <2>7, <3>4 DEF Result
      <4>2. WroteAll(g, r)
        BY <2>0, <3>1, <3>2, <4>1 DEF WroteAll, Held
      <4>3. QED
        BY <3>4, <4>2
    <3>5. QED
      BY <3>3, <3>4
  <2>8. ASSUME NEW k \in 0 .. b.ptr - 1,
               r = Result(GivenUp(b, k), SubSeq(b.buf, 1, k), EOF, TRUE)
        PROVE  GaveUp(g, r)
    <3>1. k \in Nat /\ k \in 0 .. Len(Held(g))
      BY <2>0, <2>1
    <3>2. "ERR" \in GivenUp(b, k).flag
      BY <2>1, <3>1, GivenUpIs
    <3>3. r.g = GivenUp(b, k) /\ r.out = SubSeq(g.buf, 1, k) /\ r.ret = EOF /\ r.bad
      BY <2>1, <2>8 DEF Result
    <3>4. QED
      BY <2>0, <3>1, <3>2, <3>3 DEF GaveUp, Held
  <2>9. QED
    BY <2>5, <2>6, <2>7, <2>8
<1>3. QED
  BY <1>1, <1>2

(* g_putc() adds the character to what is held back, or writes that and
   holds back the character alone; or it gives all up. *)
LEMMA PutcAdds ==
  ASSUME NEW g \in Records, NEW f \in Seq(Nat), WriterOK(g, f), NEW khar \in Nat,
         NEW r \in g_putc(khar, g)
  PROVE  Added(g, r, khar) \/ GaveUp(g, r)
<1>1. CASE g.cnt > 0
  <2>1. r = Result(Store(g, khar), <<>>, khar, FALSE)
    BY <1>1 DEF g_putc
  <2>2. "ERR" \notin g.flag /\ Len(g.buf) = g.ptr
    BY <1>1 DEF WriterOK, Lost, Room
  <2>3. Store(g, khar).flag = g.flag /\ Store(g, khar).buf = Append(g.buf, khar)
    BY <2>2, StoreIs
  <2>4. QED
    BY <2>1, <2>2, <2>3 DEF Added, Held, Result
<1>2. CASE ~(g.cnt > 0)
  <2>1. PICK q \in g_flushbuf(khar, g) : r = [q EXCEPT !.ret = IF @ < 0 THEN EOF ELSE khar]
    BY <1>2 DEF g_putc
  <2>2. \/ ~q.bad /\ q.ret = 0 /\ q.out = Held(g) /\ Held(q.g) = <<khar>>
        \/ GaveUp(g, q)
    BY FlushWrites
  <2>3. \E a, o, c, d : q = Result(a, o, c, d)
    BY DEF g_flushbuf
  <2>4. r.g = q.g /\ r.out = q.out /\ r.bad = q.bad /\ r.ret = IF q.ret < 0 THEN EOF ELSE khar
    BY <2>1, <2>3 DEF Result
  <2>5. QED
    BY <2>2, <2>4 DEF Added, GaveUp, EOF
<1>3. QED
  BY <1>1, <1>2

(* g_close() writes all that is held back, or gives the rest up. *)
LEMMA CloseWrites ==
  ASSUME NEW g \in Records, NEW f \in Seq(Nat), WriterOK(g, f), NEW r \in g_close(g)
  PROVE  /\ r.g = Free
         /\ \/ ~r.bad /\ r.out = Held(g)
            \/ /\ \E k \in 0 .. Len(Held(g)) : r.out = SubSeq(Held(g), 1, k)
               /\ r.bad \/ "ERR" \in g.flag
<1>1. CASE NotFlushed(g)
  <2>1. PICK q \in g_flushbuf(32, g) : r = [q EXCEPT !.g = Free]
    BY <1>1 DEF g_close
  <2>2. \/ ~q.bad /\ q.out = Held(g)
        \/ GaveUp(g, q)
    BY FlushWrites
  <2>3. \E a, o, c, d : q = Result(a, o, c, d)
    BY DEF g_flushbuf
  <2>4. r.g = Free /\ r.out = q.out /\ r.bad = q.bad
    BY <2>1, <2>3 DEF Result
  <2>5. QED
    BY <2>2, <2>4 DEF GaveUp
<1>2. CASE ~NotFlushed(g)
  <2>1. r = [Result(g, <<>>, 0, FALSE) EXCEPT !.g = Free]
    BY <1>2 DEF g_close
  <2>2. r.g = Free /\ r.out = <<>> /\ ~r.bad
    BY <2>1 DEF Result
  <2>3. g.ptr = 0 /\ Len(g.buf) = g.ptr
    BY <1>2 DEF NotFlushed, WriterOK, OutputFlags, Room, BaseOK
  <2>4. Held(g) = <<>>
    BY <2>3, FieldsOf, EmptySeq DEF Held
  <2>5. QED
    BY <2>2, <2>4
<1>3. QED
  BY <1>1, <1>2

(* What the buffer of a stream that is read holds is in the file: what      *)
(* read() has got from behind its end is nothing.                           *)
InFile(g, f) == g.buf # <<>> => g.off <= Len(f)

(* g_getc(): the next byte, the end of the file, or an error.               *)
Yields(g, r, f) ==
  /\ InFile(r.g, f)
  /\ \/ /\ Pos(g) < Len(f) /\ Pos(r.g) = Pos(g) + 1 /\ r.ret = f[Pos(g) + 1]
        /\ ("EOF" \in r.g.flag <=> "EOF" \in g.flag) /\ ~r.bad
     \/ /\ Pos(g) >= Len(f) /\ Pos(r.g) = Pos(g) /\ r.ret = EOF
        /\ "EOF" \in r.g.flag /\ ~r.bad
     \/ /\ Pos(r.g) = Pos(g) /\ r.ret = EOF
        /\ ("EOF" \in r.g.flag <=> "EOF" \in g.flag)
        /\ r.bad \/ "ERR" \in g.flag

(* g_getc() yields the next byte, the end of the file, or an error. *)
LEMMA GetcYields ==
  ASSUME NEW g \in Records, g.name \in Names, file[g.name] \in Seq(Nat),
         ReaderOK(g, file[g.name]), InFile(g, file[g.name]), NEW r \in g_getc(g)
  PROVE  Yields(g, r, file[g.name])
<1> DEFINE f == file[g.name]
<1>0. /\ g.ptr \in Nat /\ g.cnt \in Int /\ g.off \in Nat /\ g.buf \in Seq(Nat)
      /\ Len(g.buf) \in Nat /\ Len(f) \in Nat
  BY FieldsOf, LenProperties
<1>1. CASE g.cnt > 0
  <2>1. r = Result(Take(g), <<>>, g.buf[g.ptr + 1], FALSE)
    BY <1>1 DEF g_getc
  <2>2. /\ Take(g).flag = g.flag /\ Take(g).buf = g.buf /\ Take(g).cnt = g.cnt - 1
        /\ Take(g).off = g.off
    BY TakeIs
  <2>3. Len(g.buf) = g.ptr + g.cnt /\ g.buf # <<>>
    BY <1>0, <1>1 DEF ReaderOK, Filled, Unread
  <2>4. Pos(g) = g.off - g.cnt /\ Pos(Take(g)) = Pos(g) + 1 /\ g.off <= Len(f)
    BY <1>0, <1>1, <2>2, <2>3 DEF Pos, Unread, InFile
  <2>5. g.buf[g.ptr + 1] = f[Pos(g) + 1]
    <3>1. g.ptr + 1 \in 1 .. Len(g.buf)
      BY <1>0, <1>1, <2>3
    <3>2. g.buf[g.ptr + 1] = f[g.off - Len(g.buf) + (g.ptr + 1)]
      BY <3>1 DEF ReaderOK, Copied
    <3>3. g.off - Len(g.buf) + (g.ptr + 1) = Pos(g) + 1
      BY <1>0, <1>1, <2>3, <2>4
    <3>4. QED
      BY <3>2, <3>3
  <2>6. InFile(Take(g), f)
    BY <2>2, <2>4 DEF InFile
  <2>7. /\ r.g = Take(g) /\ r.ret = g.buf[g.ptr + 1] /\ ~r.bad
    BY <2>1 DEF Result
  <2>8. Pos(g) < Len(f)
    BY <1>0, <1>1, <2>4
  <2>9. QED
    BY <2>2, <2>4, <2>5, <2>6, <2>7, <2>8 DEF Yields
<1>2. CASE ~(g.cnt > 0)
  <2> DEFINE p == PastBuffer(g)
             b == [Emptied(p) EXCEPT !.base = TRUE]
  <2>1. r \in g_fillbuf(p)
    BY <1>2 DEF g_getc
  <2>2. /\ p \in Records /\ p.flag = g.flag /\ p.base = g.base /\ p.buf = g.buf
        /\ p.ptr = g.ptr /\ p.cnt = g.cnt
        /\ p.name = g.name /\ p.off = g.off
    BY PastIs
  <2>3. Pos(g) = g.off /\ Pos(p) = g.off
    BY <1>0, <1>2, <2>2 DEF Pos, Unread
  <2> HIDE DEF p
  <2>4. CASE p.flag \cap {"READ", "EOF", "ERR"} # {"READ"}
    <3>1. r = Result(p, <<>>, EOF, FALSE)
      BY <2>1, <2>4 DEF g_fillbuf
    <3>2. r.g = p /\ r.ret = EOF /\ ~r.bad
      BY <3>1 DEF Result
    <3>3. "EOF" \in g.flag \/ "ERR" \in g.flag
      BY <2>2, <2>4 DEF ReaderOK, InputFlags
    <3>4. CASE "EOF" \in g.flag
      <4>1. Pos(g) >= Len(f)
        BY <1>0, <2>3, <3>4 DEF ReaderOK, AtEnd
      <4>2. QED
        BY <2>2, <2>3, <3>2, <3>4, <4>1 DEF Yields, InFile
    <3>5. CASE "ERR" \in g.flag
      BY <2>2, <2>3, <3>2, <3>5 DEF Yields, InFile
    <3>6. QED
      BY <3>3, <3>4, <3>5
  <2>5. CASE p.flag \cap {"READ", "EOF", "ERR"} = {"READ"}
    <3>1. "EOF" \notin g.flag /\ g.cnt = 0
      BY <1>0, <1>2, <2>2, <2>5 DEF ReaderOK, AtEnd
    <3>2. /\ b \in Records /\ b.flag = g.flag /\ b.buf = <<>> /\ b.ptr = 0
          /\ b.cnt = 0 /\ b.name = g.name /\ b.off = g.off
      <4>1. <<>> \in Seq(Nat) /\ 0 \in Nat /\ TRUE \in BOOLEAN
        BY EmptySeq
      <4>2. QED
        BY <2>2, <3>1, <4>1 DEF Emptied, Records
    <3>3. \/ r = Result(p, <<>>, EOF, TRUE)
          \/ r = Result([b EXCEPT !.flag = @ \cup {"ERR"}, !.cnt = 0], <<>>, EOF, TRUE)
          \/ /\ ReadSizes(p) = {}
             /\ r = Result([b EXCEPT !.flag = @ \cup {"EOF"}, !.cnt = -1], <<>>, EOF, FALSE)
          \/ \E k \in ReadSizes(p) :
               r = Result(Take(Got(b, k)), <<>>, Got(b, k).buf[1], FALSE)
      BY <2>1, <2>5 DEF g_fillbuf
    <3> HIDE DEF b
    <3>4. InputFlags(p)
      BY <2>2 DEF ReaderOK, InputFlags
    <3>5. CASE r = Result(p, <<>>, EOF, TRUE)
      BY <2>2, <2>3, <3>5 DEF Yields, InFile, Result
    <3>6. CASE r = Result([b EXCEPT !.flag = @ \cup {"ERR"}, !.cnt = 0], <<>>, EOF, TRUE)
      <4> DEFINE e == [b EXCEPT !.flag = @ \cup {"ERR"}, !.cnt = 0]
      <4>1. e.flag = g.flag \cup {"ERR"} /\ e.cnt = 0 /\ e.buf = <<>> /\ e.off = g.off
        BY <3>2 DEF Records
      <4>2. r.g = e /\ r.ret = EOF /\ r.bad
        BY <3>6 DEF Result
      <4> HIDE DEF e
      <4>3. Pos(e) = Pos(g)
        BY <1>0, <2>3, <4>1 DEF Pos, Unread
      <4>4. QED
        BY <3>1, <4>1, <4>2, <4>3 DEF Yields, InFile
    <3>7. CASE /\ ReadSizes(p) = {}
               /\ r = Result([b EXCEPT !.flag = @ \cup {"EOF"}, !.cnt = -1], <<>>, EOF, FALSE)
      <4> DEFINE e == [b EXCEPT !.flag = @ \cup {"EOF"}, !.cnt = -1]
      <4>1. e.flag = g.flag \cup {"EOF"} /\ e.cnt = -1 /\ e.buf = <<>> /\ e.off = g.off
        BY <3>2 DEF Records
      <4>2. r.g = e /\ r.ret = EOF /\ ~r.bad
        BY <3>7 DEF Result
      <4> HIDE DEF e
      <4>3. Pos(e) = Pos(g)
        BY <1>0, <2>3, <4>1 DEF Pos, Unread
      <4>4. p.off >= Len(file[p.name])
        BY <2>2, <3>4, <3>7, SizesAre
      <4>5. QED
        BY <2>2, <2>3, <4>1, <4>2, <4>3, <4>4 DEF Yields, InFile
    <3>8. ASSUME NEW k \in ReadSizes(p),
                 r = Result(Take(Got(b, k)), <<>>, Got(b, k).buf[1], FALSE)
          PROVE  Yields(g, r, f)
      <4>1. k \in 1 .. BufSiz /\ g.off + k <= Len(f)
        BY <2>2, <3>4, SizesAre
      <4>2. k \in Nat /\ k >= 1
        BY <4>1, Bounds
      <4>0. /\ SubSeq(f, g.off + 1, g.off + k) \in Seq(Nat)
            /\ SubSeq(f, g.off + 1, g.off + k)[1] = f[g.off + 1]
        <5> HIDE DEF f
        <5>1. f \in Seq(Nat)
          BY DEF f
        <5>2. 1 \in 1 .. k
          BY <4>2
        <5>3. /\ SubSeq(f, g.off + 1, g.off + k) \in Seq(Nat)
              /\ \A j \in 1 .. k : SubSeq(f, g.off + 1, g.off + k)[j] = f[g.off + j]
          <6>1. PICK a \in Nat, n \in Nat : a = g.off /\ n = k /\ a + n <= Len(f)
            BY <1>0, <4>1, <4>2
          <6>2. /\ SubSeq(f, a + 1, a + n) \in Seq(Nat)
                /\ \A j \in 1 .. n : SubSeq(f, a + 1, a + n)[j] = f[a + j]
            BY <5>1, <6>1, PieceIs
          <6>3. QED
            BY <6>1, <6>2
        <5>4. QED
          BY <5>2, <5>3
      <4> DEFINE q == Got(b, k)
      <4>3. /\ q \in Records /\ q.flag = g.flag /\ q.cnt = k /\ q.off = g.off + k
            /\ q.buf = SubSeq(f, g.off + 1, g.off + k)
        <5>1. PICK o \in Nat : o = g.off + k
          BY <1>0, <4>2
        <5>2. PICK piece \in Seq(Nat) : piece = SubSeq(f, g.off + 1, g.off + k)
          BY <4>0
        <5>3. q = [b EXCEPT !.buf = piece, !.cnt = k, !.ptr = 0, !.off = o]
          BY <2>2, <3>2, <5>1, <5>2 DEF Got
        <5> HIDE DEF q
        <5>4. k \in Int
          BY <4>2
        <5>5. q \in Records
          BY <3>2, <5>3, <5>4 DEF Records
        <5>6. QED
          BY <3>2, <5>1, <5>2, <5>3, <5>5 DEF Records
      <4>4. q.buf[1] = f[g.off + 1]
        BY <4>0, <4>3
      <4> HIDE DEF q
      <4>5. /\ Take(q).flag = g.flag /\ Take(q).cnt = k - 1 /\ Take(q).off = g.off + k
        BY <4>3, TakeIs
      <4>6. Pos(Take(q)) = Pos(g) + 1
        BY <1>0, <2>3, <4>2, <4>5 DEF Pos, Unread
      <4>7. r.g = Take(q) /\ r.ret = q.buf[1] /\ ~r.bad
        BY <3>8 DEF Result, q
      <4>8. Pos(g) < Len(f)
        BY <1>0, <2>3, <4>1, <4>2
      <4>9. InFile(Take(q), f)
        BY <4>1, <4>5 DEF InFile
      <4>10. QED
        BY <2>3, <4>4, <4>5, <4>6, <4>7, <4>8, <4>9 DEF Yields
    <3>9. QED
      BY <3>3, <3>5, <3>6, <3>7, <3>8
  <2>6. QED
    BY <2>4, <2>5
<1>3. QED
  BY <1>1, <1>2

(* g_seek(): where the caller wants, or an error, at worst after rewinding. *)
From(g) == IF "EOF" \in g.flag THEN 0 ELSE Pos(g)
Moves(g, r, f, offset) ==
  /\ InFile(r.g, f) /\ r.out = <<>>
  /\ \/ /\ Pos(r.g) = offset \/ Pos(r.g) = From(g) + offset
        /\ "EOF" \notin r.g.flag /\ ~r.bad
     \/ /\ \/ Pos(r.g) = Pos(g) /\ ("EOF" \in r.g.flag <=> "EOF" \in g.flag)
           \/ Pos(r.g) = From(g) /\ "EOF" \notin r.g.flag
        /\ r.bad \/ "ERR" \in g.flag

(* A move of a stream without error arrives, or leaves it where it is. *)
LEMMA MovedMoves ==
  ASSUME NEW g \in Records, NEW f \in Seq(Nat), ReaderOK(g, f), InFile(g, f),
         "EOF" \notin g.flag, "ERR" \notin g.flag,
         NEW desired \in Int, NEW r \in Moved(g, desired)
  PROVE  /\ InFile(r.g, f) /\ r.out = <<>> /\ "EOF" \notin r.g.flag
         /\ \/ Pos(r.g) = desired /\ ~r.bad
            \/ Pos(r.g) = Pos(g) /\ r.bad
<1> DEFINE diff == desired - (g.baseposition + g.ptr)
<1>0. /\ g.ptr \in Nat /\ g.cnt \in Int /\ g.off \in Nat /\ g.baseposition \in Int
      /\ Len(g.buf) \in Nat
  BY FieldsOf
<1>1. /\ g.cnt >= 0 /\ Unread(g) = g.cnt /\ Len(g.buf) = g.ptr + g.cnt
      /\ Pos(g) = g.off - g.cnt /\ g.baseposition + Len(g.buf) = g.off
  BY <1>0 DEF ReaderOK, AtEnd, Filled, InputPlace, Unread, Pos
<1>2. Pos(g) = g.baseposition + g.ptr
  BY <1>0, <1>1
<1>3. CASE r = SeekError(g)
  <2>1. /\ r.g.flag = g.flag \cup {"ERR"} /\ r.g.buf = g.buf /\ r.g.cnt = g.cnt
        /\ r.g.off = g.off /\ r.bad /\ r.out = <<>>
    BY <1>3 DEF SeekError, Result, Records
  <2>2. QED
    BY <1>0, <1>1, <2>1 DEF InFile, Pos, Unread
<1>4. CASE InBuffer(g, desired)
  <2> DEFINE e == [g EXCEPT !.ptr = @ + diff, !.cnt = @ - diff]
  <2>1. r = Result(e, <<>>, 0, FALSE)
    BY <1>4 DEF Moved
  <2>2. /\ e.cnt = g.cnt - diff /\ e.off = g.off /\ e.buf = g.buf /\ e.flag = g.flag
    BY DEF Records
  <2>3. g.cnt - diff >= 0
    BY <1>0, <1>4 DEF InBuffer
  <2> HIDE DEF e
  <2>4. Pos(e) = desired
    <3>1. Unread(e) = g.cnt - diff
      BY <1>0, <2>2, <2>3 DEF Unread
    <3>2. diff = desired - Pos(g) /\ Pos(g) \in Int
      BY <1>0, <1>1, <1>2
    <3> HIDE DEF diff
    <3>3. Pos(e) = g.off - (g.cnt - diff)
      BY <2>2, <3>1 DEF Pos
    <3>4. PICK o \in Int, c \in Int, d \in Int, p \in Int :
            o = g.off /\ c = g.cnt /\ d = diff /\ p = Pos(g)
      BY <1>0, <3>2
    <3>5. d = desired - p /\ p = o - c /\ Pos(e) = o - (c - d)
      BY <1>1, <3>2, <3>3, <3>4
    <3>6. QED
      BY <3>5
  <2>5. QED
    BY <2>1, <2>2, <2>4 DEF InFile, Result
<1>5. CASE ~InBuffer(g, desired) /\ r # SeekError(g)
  <2> DEFINE e == [Emptied(g) EXCEPT !.cnt = 0, !.baseposition = desired, !.off = desired]
  <2>1. r = Result(e, <<>>, 0, FALSE) /\ desired >= 0
    <3>1. r \in {SeekError(g)} \cup IF desired < 0 \/ g.name \in Terminals THEN {}
                                    ELSE {Result(e, <<>>, 0, FALSE)}
      BY <1>5, Zenon DEF Moved
    <3> HIDE DEF e
    <3>2. CASE desired < 0 \/ g.name \in Terminals
      <4>1. r \in {SeekError(g)} \cup {}
        BY <3>1, <3>2, Zenon
      <4>2. QED
        BY <1>5, <4>1
    <3>3. CASE ~(desired < 0 \/ g.name \in Terminals)
      <4>1. r \in {SeekError(g)} \cup {Result(e, <<>>, 0, FALSE)}
        BY <3>1, <3>3, Zenon
      <4>2. desired >= 0
        BY <3>3
      <4>3. QED
        BY <1>5, <4>1, <4>2
    <3>4. QED
      BY <3>2, <3>3
  <2>2. /\ e.cnt = 0 /\ e.off = desired /\ e.buf = <<>> /\ e.flag = g.flag
    BY DEF Records, Emptied
  <2> HIDE DEF e
  <2>3. Pos(e) = desired
    BY <2>1, <2>2 DEF Pos, Unread
  <2>4. QED
    BY <2>1, <2>2, <2>3 DEF InFile, Result
<1>6. QED
  BY <1>3, <1>4, <1>5

(* g_seek() moves as Moves says. *)
LEMMA SeekMoves ==
  ASSUME NEW g \in Records, NEW f \in Seq(Nat), ReaderOK(g, f), InFile(g, f),
         NEW offset \in Int, NEW whence, NEW r \in g_seek(g, offset, whence)
  PROVE  Moves(g, r, f, offset)
<1>0. /\ g.ptr \in Nat /\ g.cnt \in Int /\ g.off \in Nat /\ g.baseposition \in Int
      /\ Len(g.buf) \in Nat
  BY FieldsOf
<1>1. CASE "ERR" \in g.flag
  <2>1. "ERR" \in g.flag \cap {"READ", "ERR"}
    BY <1>1
  <2>2. r = Result(g, <<>>, EOF, FALSE)
    <3>1. g.flag \cap {"READ", "ERR"} # {"READ"}
      BY <2>1
    <3>2. QED
      BY <3>1 DEF g_seek
  <2>3. QED
    BY <1>1, <2>2 DEF Moves, Result
<1>2. CASE "ERR" \notin g.flag /\ "EOF" \in g.flag
  <2>1. g.flag \cap {"READ", "ERR"} = {"READ"}
    BY <1>2 DEF ReaderOK, InputFlags
  <2>2. \/ r = SeekError(g)
        \/ r \in Moved(Rewound(g), Desired(Rewound(g), offset, whence))
    BY <1>2, <2>1 DEF g_seek
  <2>3. CASE r = SeekError(g)
    <3>1. /\ r.g.flag = g.flag \cup {"ERR"} /\ r.g.buf = g.buf /\ r.g.cnt = g.cnt
          /\ r.g.off = g.off /\ r.bad /\ r.out = <<>>
      BY <2>3 DEF SeekError, Result, Records
    <3>2. QED
      BY <3>1 DEF Moves, InFile, Pos, Unread
  <2>4. CASE r \in Moved(Rewound(g), Desired(Rewound(g), offset, whence))
    <3> DEFINE e == Rewound(g)
    <3>1. /\ e \in Records /\ e.flag = g.flag \ {"EOF"} /\ e.buf = <<>> /\ e.ptr = 0
          /\ e.cnt = 0 /\ e.baseposition = 0 /\ e.off = 0 /\ e.base = g.base
      <4>1. <<>> \in Seq(Nat) /\ 0 \in Nat /\ 0 \in Int
        BY EmptySeq
      <4>2. QED
        BY <4>1 DEF Rewound, Emptied, Records
    <3> HIDE DEF e
    <3>2. InputFlags(e) /\ BaseOK(e)
      BY <3>1 DEF ReaderOK, InputFlags, BaseOK
    <3>3. ReaderOK(e, f)
      BY <3>1, <3>2, EmptyReader
    <3>4. InFile(e, f)
      BY <3>1 DEF InFile
    <3>5. Desired(e, offset, whence) = offset
      BY <3>1 DEF Desired
    <3>6. r \in Moved(e, offset)
      BY <2>4, <3>5 DEF e
    <3>7. "EOF" \notin e.flag /\ "ERR" \notin e.flag
      BY <1>2, <3>1
    <3>8. /\ InFile(r.g, f) /\ r.out = <<>> /\ "EOF" \notin r.g.flag
          /\ \/ Pos(r.g) = offset /\ ~r.bad
             \/ Pos(r.g) = Pos(e) /\ r.bad
      BY <3>1, <3>3, <3>4, <3>6, <3>7, MovedMoves
    <3>9. Pos(e) = From(g)
      BY <1>2, <3>1 DEF Pos, Unread, From
    <3>10. QED
      BY <3>8, <3>9 DEF Moves
  <2>5. QED
    BY <2>2, <2>3, <2>4
<1>3. CASE "ERR" \notin g.flag /\ "EOF" \notin g.flag
  <2>1. g.flag \cap {"READ", "ERR"} = {"READ"}
    BY <1>3 DEF ReaderOK, InputFlags
  <2>2. r \in Moved(g, Desired(g, offset, whence))
    BY <1>3, <2>1 DEF g_seek
  <2>3. Desired(g, offset, whence) \in Int
    BY <1>0 DEF Desired
  <2>4. /\ InFile(r.g, f) /\ r.out = <<>> /\ "EOF" \notin r.g.flag
        /\ \/ Pos(r.g) = Desired(g, offset, whence) /\ ~r.bad
           \/ Pos(r.g) = Pos(g) /\ r.bad
    BY <1>3, <2>2, <2>3, MovedMoves
  <2>5. Pos(g) = g.baseposition + g.ptr /\ From(g) = Pos(g)
    BY <1>0, <1>3 DEF ReaderOK, AtEnd, Filled, InputPlace, Unread, Pos, From
  <2>6. Desired(g, offset, whence) = From(g) + offset \/ Desired(g, offset, whence) = offset
    BY <2>5 DEF Desired
  <2>7. QED
    BY <1>3, <2>4, <2>6 DEF Moves
<1>4. QED
  BY <1>1, <1>2, <1>3

-----------------------------------------------------------------------------
(* What is in a file once what is held back is written, of any streams.     *)
WritesOn(i, s, n) == "WRITE" \in i[s].flag /\ i[s].name = n
Pend(g) == IF "WRITE" \in g.flag /\ "ERR" \notin g.flag THEN g.buf ELSE <<>>
V(i, fs, n) ==
  IF \E s \in Slots : WritesOn(i, s, n)
  THEN fs[n] \o Pend(i[CHOOSE s \in Slots : i[s].name = n])
  ELSE fs[n]

(* The file of a stream that is written goes on with what it holds back.    *)
LEMMA WriterView ==
  ASSUME NEW i, NEW fs, NEW tr, StreamsAre(i, fs, tr), NEW s \in Slots, NEW n \in Names,
         WritesOn(i, s, n)
  PROVE  V(i, fs, n) = fs[n] \o Held(i[s])
<1>1. \A t \in Slots : i[t].name = n => t = s
  BY ConstantsAssumption DEF StreamsAre, WritesOn
<1>2. (CHOOSE t \in Slots : i[t].name = n) = s
  BY <1>1, Zenon DEF WritesOn
<1>3. V(i, fs, n) = fs[n] \o Pend(i[s])
  BY <1>2, Zenon DEF V
<1>4. Pend(i[s]) = Held(i[s])
  BY DEF Pend, Held, WritesOn
<1>5. QED
  BY <1>3, <1>4

(* Any other file is what is on the disk. *)
LEMMA OtherView ==
  ASSUME NEW i, NEW fs, NEW n, \A s \in Slots : ~WritesOn(i, s, n)
  PROVE  V(i, fs, n) = fs[n]
BY Zenon DEF V

(* No other stream is open on the file of a stream that is read.            *)
LEMMA ReaderView ==
  ASSUME NEW i, NEW fs, NEW tr, StreamsAre(i, fs, tr), NEW s \in Slots,
         i[s].name \in Names, "WRITE" \notin i[s].flag
  PROVE  V(i, fs, i[s].name) = fs[i[s].name]
<1>1. PICK n \in Names : n = i[s].name
  OBVIOUS
<1>2. \A t \in Slots : i[t].name = n => t = s
  BY <1>1, ConstantsAssumption DEF StreamsAre
<1>3. \A t \in Slots : ~WritesOn(i, t, n)
  BY <1>2, Zenon DEF WritesOn
<1>4. QED
  BY <1>1, <1>3, OtherView

(* The view of a file before a step. *)
LEMMA ViewIs ==
  ASSUME NEW n
  PROVE  View(n) = V(iob, file, n)
BY DEF View, V, Pending, Pend, Writes, WritesOn

(* The view of a file after a step. *)
LEMMA ViewBecomes ==
  ASSUME NEW n
  PROVE  View(n)' = V(iob', file', n)
BY DEF View, V, Pending, Pend, Writes, WritesOn

-----------------------------------------------------------------------------
(* What a call writes goes behind the end of one file. *)
LEMMA OneWrite ==
  ASSUME StreamsOK, NEW s \in Slots, NEW r, Becomes(iob[s], r, file)
  PROVE  /\ r.out = <<>> => WriteAt(file, iob[s], r.out) = file
         /\ iob[s].name \in Names /\ file[iob[s].name] \in Seq(Nat)
              => WriteAt(file, iob[s], r.out)[iob[s].name] = file[iob[s].name] \o r.out
         /\ \A t \in Slots : t # s /\ iob[t].name \in Names
              => WriteAt(file, iob[s], r.out)[iob[t].name] = file[iob[t].name]
         /\ \A n \in Names : n # iob[s].name => WriteAt(file, iob[s], r.out)[n] = file[n]
<1>0. PICK w : w = WriteAt(file, iob[s], r.out)
  OBVIOUS
<1>1. iob \in [Slots -> Records] /\ file \in Contents
  BY DEF StreamsOK, StreamsAre
<1>2. PICK g \in Records, bytes \in Seq(Nat) : g = iob[s] /\ bytes = r.out
  BY <1>1 DEF Becomes
<1>3. \/ bytes = <<>>
      \/ g.name \in Names /\ file[g.name] \in Seq(Nat) /\ g.off = Len(file[g.name])
  BY <1>2 DEF Becomes
<1>4. w = WriteAt(file, g, bytes)
  BY <1>0, <1>2
<1>5. /\ \A n \in Names : n # g.name => w[n] = file[n]
      /\ bytes = <<>> => w = file
      /\ g.name \in Names /\ file[g.name] \in Seq(Nat) => w[g.name] = file[g.name] \o bytes
  <2>1. /\ \A n \in Names : n # g.name => WriteAt(file, g, bytes)[n] = file[n]
        /\ bytes = <<>> => WriteAt(file, g, bytes) = file
        /\ g.name \in Names /\ file[g.name] \in Seq(Nat)
             => WriteAt(file, g, bytes)[g.name] = file[g.name] \o bytes
    <3>1. \A n \in Names : n # g.name => WriteAt(file, g, bytes)[n] = file[n]
      BY <1>1, <1>3, WriteAtIs
    <3>2. bytes = <<>> => WriteAt(file, g, bytes) = file
      BY <1>1, <1>3, WriteAtIs
    <3>3. g.name \in Names /\ file[g.name] \in Seq(Nat)
             => WriteAt(file, g, bytes)[g.name] = file[g.name] \o bytes
      BY <1>1, <1>3, WriteAtIs
    <3>4. QED
      BY <3>1, <3>2, <3>3
  <2>2. QED
    BY <1>4, <2>1
<1>6. \A t \in Slots : t # s /\ iob[t].name \in Names => iob[t].name # iob[s].name
  BY ConstantsAssumption DEF StreamsOK, StreamsAre
<1>7. QED
  BY <1>0, <1>2, <1>5, <1>6

(* What has become of slot t is r. *)
Became(t, r) ==
  /\ iob'[t] = r.g
  /\ t \in trouble' <=> t \in trouble \/ r.bad
  /\ iob[t].name \in Names /\ file[iob[t].name] \in Seq(Nat)
       => file'[iob[t].name] = file[iob[t].name] \o r.out

(* A stream whose record, file and troubles stay has had nothing done. *)
LEMMA NothingBecame ==
  ASSUME NEW t \in Slots, iob'[t] = iob[t], t \in trouble' <=> t \in trouble,
         iob[t].name \in Names => file'[iob[t].name] = file[iob[t].name],
         NEW r, r.g = iob[t], r.out = <<>>, ~r.bad
  PROVE  Became(t, r)
<1>1. file[iob[t].name] \in Seq(Nat) => file[iob[t].name] \o r.out = file[iob[t].name]
  BY ConcatEmptySeq
<1>2. QED
  BY <1>1, Zenon DEF Became

(* What NoSync and Nothing do. *)
LEMMA NothingIs ==
  /\ NoSync.g = iob[stdout] /\ NoSync.out = <<>> /\ ~NoSync.bad
  /\ \A t : Nothing(t).g = iob[t] /\ Nothing(t).out = <<>> /\ ~Nothing(t).bad
BY DEF NoSync, Nothing, Result

(* A call changes its stream, stdout if it asks for what is in the          *)
(* terminal, and no other.                                                  *)
LEMMA DoIs ==
  ASSUME StreamsOK, NEW s \in Slots, NEW r, NEW f, Becomes(iob[s], r, file),
         Becomes(iob[stdout], f, file), f = NoSync \/ (s = stdin /\ r.out = <<>>),
         Do(s, r, f)
  PROVE  /\ StreamsOK' /\ Became(s, r)
         /\ s # stdout => Became(stdout, f)
         /\ \A t \in Slots \ {s, stdout} : Became(t, Nothing(t))
         /\ \A n \in Names : (\A t \in Slots : iob[t].name # n) => file'[n] = file[n]
<1> DEFINE i1 == [iob EXCEPT ![stdout] = f.g]
           m == WriteAt(file, iob[stdout], f.out)
<1>1. /\ iob' = [i1 EXCEPT ![s] = r.g] /\ file' = WriteAt(m, iob[s], r.out)
      /\ trouble' = trouble \cup ((IF r.bad THEN {s} ELSE {})
                                  \cup (IF f.bad THEN {stdout} ELSE {}))
  BY DEF Do
<1>2. iob \in [Slots -> Records] /\ file \in Contents /\ stdout \in Slots /\ stdout # stdin
  BY Bounds DEF StreamsOK, StreamsAre
<1>3. StreamsOK'
  BY DoKeeps
<1>4. \A t \in Slots : iob'[t] = IF t = s THEN r.g ELSE IF t = stdout THEN f.g ELSE iob[t]
  BY <1>1, <1>2
<1>5. \A t : t \in trouble' <=> t \in trouble \/ (t = s /\ r.bad) \/ (t = stdout /\ f.bad)
  BY <1>1, Zenon
<1>6. /\ f.out = <<>> => m = file
      /\ iob[stdout].name \in Names /\ file[iob[stdout].name] \in Seq(Nat)
           => m[iob[stdout].name] = file[iob[stdout].name] \o f.out
      /\ \A t \in Slots : t # stdout /\ iob[t].name \in Names
           => m[iob[t].name] = file[iob[t].name]
      /\ \A n \in Names : n # iob[stdout].name => m[n] = file[n]
  <2>1. PICK u \in Slots : u = stdout
    BY <1>2
  <2>2. PICK w : w = WriteAt(file, iob[u], f.out)
    OBVIOUS
  <2>3. Becomes(iob[u], f, file)
    BY <2>1
  <2>4. f.out = <<>> => w = file
    BY <2>2, <2>3, OneWrite
  <2>5. iob[u].name \in Names /\ file[iob[u].name] \in Seq(Nat)
           => w[iob[u].name] = file[iob[u].name] \o f.out
    BY <2>2, <2>3, OneWrite
  <2>6. \A t \in Slots : t # u /\ iob[t].name \in Names
           => w[iob[t].name] = file[iob[t].name]
    BY <2>2, <2>3, OneWrite
  <2>7. \A n \in Names : n # iob[u].name => w[n] = file[n]
    BY <2>2, <2>3, OneWrite
  <2>8. w = m
    BY <2>1, <2>2
  <2> HIDE DEF m
  <2>9. QED
    BY <2>1, <2>4, <2>5, <2>6, <2>7, <2>8
<1> HIDE DEF m, i1
<1>7. CASE f = NoSync
  <2>1. m = file
    BY <1>6, <1>7, NothingIs
  <2>2. /\ iob[s].name \in Names /\ file[iob[s].name] \in Seq(Nat)
             => file'[iob[s].name] = file[iob[s].name] \o r.out
        /\ \A t \in Slots : t # s /\ iob[t].name \in Names
             => file'[iob[t].name] = file[iob[t].name]
        /\ \A n \in Names : n # iob[s].name => file'[n] = file[n]
    <3>1. PICK w : w = file'
      OBVIOUS
    <3>2. w = WriteAt(file, iob[s], r.out)
      BY <1>1, <2>1, <3>1
    <3>3. iob[s].name \in Names /\ file[iob[s].name] \in Seq(Nat)
            => w[iob[s].name] = file[iob[s].name] \o r.out
      BY <3>2, OneWrite
    <3>4. \A t \in Slots : t # s /\ iob[t].name \in Names
            => w[iob[t].name] = file[iob[t].name]
      BY <3>2, OneWrite
    <3>5. \A n \in Names : n # iob[s].name => w[n] = file[n]
      BY <3>2, OneWrite
    <3>6. QED
      BY <3>1, <3>3, <3>4, <3>5
  <2>3. Became(s, r)
    <3>1. s \in trouble' <=> s \in trouble \/ r.bad
      BY <1>5, <1>7, NothingIs, Zenon
    <3>2. QED
      BY <1>4, <2>2, <3>1, Zenon DEF Became
  <2>4. \A t \in Slots \ {s} : (t \in trouble' <=> t \in trouble) /\ iob'[t] = iob[t]
    BY <1>4, <1>5, <1>7, NothingIs, Zenon
  <2>5. ASSUME NEW t \in Slots \ {s}, NEW q, q.g = iob[t], q.out = <<>>, ~q.bad
        PROVE  Became(t, q)
    BY <2>2, <2>4, <2>5, NothingBecame
  <2>6. s # stdout => Became(stdout, f)
    BY <1>2, <1>7, <2>5, NothingIs
  <2>7. QED
    BY <1>3, <2>2, <2>3, <2>5, <2>6, NothingIs
<1>8. CASE s = stdin /\ r.out = <<>>
  <2>1. file' = m
    BY <1>1, <1>8 DEF WriteAt
  <2>2. s # stdout
    BY <1>2, <1>8
  <2>3. Became(stdout, f)
    <3>1. iob'[stdout] = f.g
      BY <1>2, <1>4, <2>2
    <3>2. stdout \in trouble' <=> stdout \in trouble \/ f.bad
      BY <1>5, <2>2, Zenon
    <3>3. QED
      BY <1>6, <2>1, <3>1, <3>2, Zenon DEF Became
  <2>4. Became(s, r)
    <3>1. iob'[s] = r.g
      BY <1>4
    <3>2. s \in trouble' <=> s \in trouble \/ r.bad
      BY <1>5, <2>2, Zenon
    <3>3. iob[s].name \in Names /\ file[iob[s].name] \in Seq(Nat)
             => file'[iob[s].name] = file[iob[s].name] \o r.out
      BY <1>6, <1>8, <2>1, <2>2, ConcatEmptySeq
    <3>4. QED
      BY <3>1, <3>2, <3>3, Zenon DEF Became
  <2>5. ASSUME NEW t \in Slots \ {s, stdout} PROVE Became(t, Nothing(t))
    <3>1. iob'[t] = iob[t] /\ (t \in trouble' <=> t \in trouble)
      BY <1>4, <1>5, <2>5, Zenon
    <3>2. iob[t].name \in Names => file'[iob[t].name] = file[iob[t].name]
      BY <1>6, <2>1, <2>5
    <3>3. QED
      BY <3>1, <3>2, NothingBecame, NothingIs
  <2>6. ASSUME NEW n \in Names, \A t \in Slots : iob[t].name # n PROVE file'[n] = file[n]
    BY <1>2, <1>6, <2>1, <2>6
  <2>7. QED
    BY <1>3, <2>3, <2>4, <2>5, <2>6
<1>9. QED
  BY <1>7, <1>8

(* What is held back is a sequence, with an empty and a whole prefix. *)
LEMMA HeldIs ==
  ASSUME NEW g \in Records
  PROVE  /\ Held(g) \in Seq(Nat) /\ Len(Held(g)) \in Nat
         /\ <<>> = SubSeq(Held(g), 1, 0) /\ Held(g) = SubSeq(Held(g), 1, Len(Held(g)))
<1>1. Held(g) \in Seq(Nat)
  BY FieldsOf, EmptySeq DEF Held
<1>2. PICK q \in Seq(Nat) : q = Held(g)
  BY <1>1
<1>3. Len(q) \in Nat /\ <<>> = SubSeq(q, 1, 0) /\ q = SubSeq(q, 1, Len(q))
  BY LenProperties, SubSeqFull
<1>4. QED
  BY <1>2, <1>3

(* A part of what is held back, behind the file, is a start of the whole.   *)
LEMMA PrefixIs ==
  ASSUME NEW f \in Seq(Nat), NEW q \in Seq(Nat), NEW j \in 0 .. Len(q)
  PROVE  /\ Len(f) + j \in Len(f) .. Len(f \o q)
         /\ SubSeq(f \o q, 1, Len(f) + j) = f \o SubSeq(q, 1, j)
<1>1. PICK m \in Nat, l \in Nat : m = Len(f) /\ l = Len(q)
  BY LenProperties
<1>2. j \in Nat /\ j <= l
  BY <1>1
<1>3. PICK w \in Seq(Nat) : w = f \o q
  BY ConcatProperties
<1>4. /\ Len(w) = m + l
      /\ \A i \in 1 .. m : w[i] = f[i]
      /\ \A i \in 1 .. l : w[m + i] = q[i]
  <2>1. /\ Len(f \o q) = Len(f) + Len(q)
        /\ \A i \in 1 .. Len(f) + Len(q) :
             (f \o q)[i] = IF i <= Len(f) THEN f[i] ELSE q[i - Len(f)]
    BY ConcatProperties
  <2>4. /\ Len(w) = m + l
        /\ \A i \in 1 .. m + l : w[i] = IF i <= m THEN f[i] ELSE q[i - m]
    BY <1>1, <1>3, <2>1
  <2>2. \A i \in 1 .. l : m + i \in 1 .. m + l /\ ~(m + i <= m) /\ (m + i) - m = i
    OBVIOUS
  <2>3. QED
    BY <2>2, <2>4
<1>5. PICK p \in Seq(Nat) : p = SubSeq(q, 1, j) /\ Len(p) = j /\ \A i \in 1 .. j : p[i] = q[i]
  <2>1. 0 + j <= Len(q)
    BY <1>1, <1>2
  <2>2. /\ SubSeq(q, 0 + 1, 0 + j) \in Seq(Nat) /\ Len(SubSeq(q, 0 + 1, 0 + j)) = j
        /\ \A k \in 1 .. j : SubSeq(q, 0 + 1, 0 + j)[k] = q[0 + k]
    BY <1>2, <2>1, PieceIs
  <2>3. 0 + 1 = 1 /\ 0 + j = j /\ \A k \in 1 .. j : 0 + k = k
    BY <1>2
  <2>4. QED
    BY <2>2, <2>3
<1>6. PICK u \in Seq(Nat) : u = SubSeq(w, 1, m + j) /\ Len(u) = m + j
                            /\ \A i \in 1 .. m + j : u[i] = w[i]
  <2>0. PICK k \in Nat : k = m + j
    BY <1>2
  <2>1. 0 + k <= Len(w)
    BY <1>2, <1>4, <2>0
  <2>2. /\ SubSeq(w, 0 + 1, 0 + k) \in Seq(Nat) /\ Len(SubSeq(w, 0 + 1, 0 + k)) = k
        /\ \A i \in 1 .. k : SubSeq(w, 0 + 1, 0 + k)[i] = w[0 + i]
    BY <2>0, <2>1, PieceIs
  <2>3. 0 + 1 = 1 /\ 0 + k = k /\ \A i \in 1 .. k : 0 + i = i
    BY <2>0
  <2>4. QED
    BY <2>0, <2>2, <2>3
<1>7. PICK v \in Seq(Nat) : v = f \o p
  BY ConcatProperties
<1>8. /\ Len(v) = m + j
      /\ \A i \in 1 .. m + j : v[i] = IF i <= m THEN f[i] ELSE p[i - m]
  BY <1>1, <1>5, <1>7, ConcatProperties
<1>9. ASSUME NEW i \in 1 .. m + j PROVE u[i] = v[i]
  <2>1. CASE i <= m
    <3>1. i \in 1 .. m
      BY <2>1
    <3>2. QED
      BY <1>4, <1>6, <1>8, <2>1, <3>1
  <2>2. CASE ~(i <= m)
    <3>1. PICK k \in 1 .. j : k = i - m
      BY <1>2, <2>2
    <3>2. k \in 1 .. l /\ m + k = i
      BY <1>2, <3>1
    <3>3. w[i] = q[k] /\ p[k] = q[k]
      BY <1>4, <1>5, <3>2
    <3>4. v[i] = p[k]
      BY <1>8, <2>2, <3>1
    <3>5. QED
      BY <1>6, <3>3, <3>4
  <2>3. QED
    BY <2>1, <2>2
<1>10. u = v
  BY <1>6, <1>8, <1>9, SeqEqual
<1>11. m + j \in m .. m + l
  BY <1>2
<1>12. QED
  BY <1>1, <1>3, <1>4, <1>5, <1>6, <1>7, <1>10, <1>11

-----------------------------------------------------------------------------
(* What a step of another stream, or none, may do to stream t.              *)
Quiet(t, r) ==
  \/ r.g = iob[t] /\ r.out = <<>> /\ ~r.bad
  \/ /\ Writes(t) /\ "WRITE" \in r.g.flag /\ r.g.name = iob[t].name
     /\ WroteAll(iob[t], r) \/ GaveUp(iob[t], r)

(* A stream that is written, before and after. *)
LEMMA WriterIs ==
  ASSUME StreamsOK, NEW t \in Slots, Writes(t)
  PROVE  /\ Mode(t) = "w" /\ Place(t) = 0 /\ ~Ended(t)
         /\ iob[t] \in Records /\ iob[t].name \in Names /\ file[iob[t].name] \in Seq(Nat)
         /\ View(iob[t].name) = file[iob[t].name] \o Held(iob[t])
<1>1. iob[t] \in Records /\ StreamOK(iob[t], file)
  BY DEF StreamsOK, StreamsAre
<1>2. /\ iob[t].name \in Names /\ file[iob[t].name] \in Seq(Nat)
      /\ OutputFlags(iob[t])
  BY <1>1, OutputIs DEF Writes, WriterOK
<1>3. Mode(t) = "w" /\ Place(t) = 0 /\ ~Ended(t)
  BY <1>2, Zenon DEF Mode, Place, Ended, Reads, Writes, OutputFlags
<1>4. PICK n \in Names : n = iob[t].name
  BY <1>2
<1>5. V(iob, file, n) = file[n] \o Held(iob[t])
  BY <1>4, WriterView DEF StreamsOK, WritesOn, Writes
<1>6. QED
  BY <1>1, <1>2, <1>3, <1>4, <1>5, ViewIs

(* A stream that is written, after a step. *)
LEMMA WriterBecomes ==
  ASSUME StreamsOK', NEW t \in Slots, Writes(t)', NEW n \in Names, n = iob'[t].name
  PROVE  /\ Mode(t)' = "w" /\ Place(t)' = 0 /\ ~Ended(t)'
         /\ iob'[t] \in Records /\ file'[n] \in Seq(Nat)
         /\ View(n)' = file'[n] \o Held(iob'[t])
<1>1. StreamsAre(iob', file', trouble')
  BY DEF StreamsOK
<1>2. iob'[t] \in Records /\ StreamOK(iob'[t], file')
  BY <1>1 DEF StreamsAre
<1>3. "WRITE" \in iob'[t].flag
  BY DEF Writes
<1>4. file'[n] \in Seq(Nat) /\ OutputFlags(iob'[t])
  BY <1>2, <1>3, OutputIs DEF WriterOK
<1>5. Mode(t)' = "w" /\ Place(t)' = 0 /\ ~Ended(t)'
  BY <1>4, Zenon DEF Mode, Place, Ended, Reads, Writes, OutputFlags
<1>6. V(iob', file', n) = file'[n] \o Held(iob'[t])
  BY <1>1, <1>3, WriterView DEF WritesOn
<1>7. QED
  BY <1>2, <1>4, <1>5, <1>6, ViewBecomes

(* It goes on in order. *)
LEMMA GrowsIf ==
  ASSUME StreamsOK, NEW t \in Slots, Writes(t), NEW n \in Names, n = iob[t].name,
         NEW j \in 0 .. Len(Held(iob[t])), file'[n] = file[n] \o SubSeq(Held(iob[t]), 1, j)
  PROVE  \E k \in Len(file[n]) .. Len(View(n)) : file'[n] = SubSeq(View(n), 1, k)
<1>1. PICK f \in Seq(Nat), q \in Seq(Nat) : f = file[n] /\ q = Held(iob[t])
  BY WriterIs, HeldIs
<1>2. View(n) = f \o q
  BY <1>1, WriterIs
<1>3. /\ Len(f) + j \in Len(f) .. Len(f \o q)
      /\ SubSeq(f \o q, 1, Len(f) + j) = f \o SubSeq(q, 1, j)
  BY <1>1, PrefixIs
<1>4. QED
  BY <1>1, <1>2, <1>3

(* What the disk has grew by a part of what was held back: the rest is
   still held back, or lost because the kernel refused something. *)
LEMMA BehindIf ==
  ASSUME NEW t \in Slots, NEW n \in Names, n = iob[t].name,
         \E k \in Len(file[n]) .. Len(View(n)) : file'[n] = SubSeq(View(n), 1, k),
         \/ View(n)' = View(n) /\ (t \in trouble' <=> t \in trouble)
         \/ View(n)' = file'[n] /\ t \in trouble'
  PROVE  Std!WriteBehind(t)
<1>1. [s \in Slots |-> iob[s].name][t] = n
  OBVIOUS
<1>2. [m \in Names |-> View(m)][n] = View(n) /\ ([m \in Names |-> View(m)]')[n] = View(n)'
  OBVIOUS
<1>3. /\ [s \in Slots |-> s \in trouble][t] = (t \in trouble)
      /\ ([s \in Slots |-> s \in trouble]')[t] = (t \in trouble')
  BY Zenon
<1>4. Std!Grows(n, View(n))
  BY DEF Std!Grows, Std!Prefix
<1>5. Std!Grows(n, [m \in Names |-> View(m)][n])
  BY <1>2, <1>4, Zenon
<1>6. \/ /\ ([m \in Names |-> View(m)]')[n] = [m \in Names |-> View(m)][n]
         /\ ([s \in Slots |-> s \in trouble]')[t] = [s \in Slots |-> s \in trouble][t]
      \/ /\ ([m \in Names |-> View(m)]')[n] = file'[n]
         /\ ([s \in Slots |-> s \in trouble]')[t]
  <2>1. CASE View(n)' = View(n) /\ (t \in trouble' <=> t \in trouble)
    <3>1. ([m \in Names |-> View(m)]')[n] = [m \in Names |-> View(m)][n]
      BY <1>2, <2>1
    <3>2. ([s \in Slots |-> s \in trouble]')[t] = [s \in Slots |-> s \in trouble][t]
      <4>1. (t \in trouble') = (t \in trouble)
        BY <2>1
      <4>2. QED
        BY <1>3, <4>1
    <3>3. QED
      BY <3>1, <3>2
  <2>2. CASE View(n)' = file'[n] /\ t \in trouble'
    BY <1>2, <1>3, <2>2, Zenon
  <2>3. QED
    BY <2>1, <2>2
<1>7. QED
  <2> DEFINE o == [s \in Slots |-> iob[s].name][t]
  <2>1. o = n
    BY <1>1
  <2> HIDE DEF o
  <2>2. /\ Std!Grows(o, [m \in Names |-> View(m)][o])
        /\ \/ /\ ([m \in Names |-> View(m)]')[o] = [m \in Names |-> View(m)][o]
              /\ ([s \in Slots |-> s \in trouble]')[t] = [s \in Slots |-> s \in trouble][t]
           \/ /\ ([m \in Names |-> View(m)]')[o] = file'[o]
              /\ ([s \in Slots |-> s \in trouble]')[t]
    BY <1>5, <1>6, <2>1, Zenon
  <2>3. QED
    BY <2>2, Zenon DEF Std!WriteBehind, o

(* Of the characters held back, r writes those in front.                    *)
LEMMA QuietWrites ==
  ASSUME NEW t \in Slots, iob[t] \in Records, NEW r, Quiet(t, r)
  PROVE  /\ \E j \in 0 .. Len(Held(iob[t])) : r.out = SubSeq(Held(iob[t]), 1, j)
         /\ \/ r.g = iob[t] /\ r.out = <<>> /\ ~r.bad
            \/ r.out = Held(iob[t]) /\ Held(r.g) = <<>> /\ ~r.bad
            \/ Held(r.g) = <<>> /\ (r.bad \/ "ERR" \in iob[t].flag)
<1>1. PICK q \in Seq(Nat) : q = Held(iob[t])
  BY HeldIs
<1>2. /\ Len(q) \in Nat /\ <<>> = SubSeq(q, 1, 0) /\ q = SubSeq(q, 1, Len(q))
  BY LenProperties, SubSeqFull
<1>3. 0 \in 0 .. Len(q) /\ Len(q) \in 0 .. Len(q)
  BY <1>2
<1>4. \E j \in 0 .. Len(q) : r.out = SubSeq(q, 1, j)
  BY <1>1, <1>2, <1>3, Zenon DEF Quiet, WroteAll, GaveUp
<1>5. QED
  BY <1>1, <1>4, Zenon DEF Quiet, WroteAll, GaveUp

(* A stream that is written, left to itself, stays what it is and may write *)
(* what it holds back.                                                      *)
LEMMA QuietWriter ==
  ASSUME StreamsOK, StreamsOK', NEW t \in Slots, Writes(t), NEW r, Became(t, r), Quiet(t, r)
  PROVE  /\ Mode(t)' = Mode(t) /\ iob'[t].name = iob[t].name
         /\ Place(t)' = Place(t) /\ Ended(t)' = Ended(t)
         /\ Mode(t) = "w" /\ Std!WriteBehind(t)
<1>1. /\ Mode(t) = "w" /\ Place(t) = 0 /\ ~Ended(t)
      /\ iob[t] \in Records /\ iob[t].name \in Names /\ file[iob[t].name] \in Seq(Nat)
      /\ View(iob[t].name) = file[iob[t].name] \o Held(iob[t])
  BY WriterIs
<1>2. PICK n \in Names : n = iob[t].name
  BY <1>1
<1>3. PICK q \in Seq(Nat) : q = Held(iob[t])
  BY <1>1, HeldIs
<1>4. /\ \E j \in 0 .. Len(q) : r.out = SubSeq(q, 1, j)
      /\ \/ r.g = iob[t] /\ r.out = <<>> /\ ~r.bad
         \/ r.out = q /\ Held(r.g) = <<>> /\ ~r.bad
         \/ Held(r.g) = <<>> /\ (r.bad \/ "ERR" \in iob[t].flag)
  BY <1>1, <1>3, QuietWrites
<1>5. iob'[t] = r.g /\ iob'[t].name = n /\ Writes(t)'
  BY <1>2, Zenon DEF Became, Quiet, Writes
<1>6. /\ t \in trouble' <=> t \in trouble \/ r.bad
      /\ file'[n] = file[n] \o r.out
  BY <1>1, <1>2, Zenon DEF Became
<1>7. /\ Mode(t)' = "w" /\ Place(t)' = 0 /\ ~Ended(t)'
      /\ iob'[t] \in Records /\ file'[n] \in Seq(Nat)
      /\ View(n)' = file'[n] \o Held(iob'[t])
  BY <1>5, WriterBecomes
<1>8. \E k \in Len(file[n]) .. Len(View(n)) : file'[n] = SubSeq(View(n), 1, k)
  <2>1. PICK j \in 0 .. Len(Held(iob[t])) : r.out = SubSeq(Held(iob[t]), 1, j)
    BY <1>3, <1>4
  <2>2. QED
    BY <1>2, <1>6, <2>1, GrowsIf
<1>9. \/ View(n)' = View(n) /\ (t \in trouble' <=> t \in trouble)
      \/ View(n)' = file'[n] /\ t \in trouble'
  <2>1. CASE r.g = iob[t] /\ r.out = <<>> /\ ~r.bad
    <3>1. file'[n] = file[n]
      BY <1>1, <1>2, <1>6, <2>1, ConcatEmptySeq
    <3>2. View(n)' = View(n)
      BY <1>1, <1>2, <1>5, <1>7, <2>1, <3>1
    <3>3. QED
      BY <1>6, <2>1, <3>2, Zenon
  <2>2. CASE r.out = q /\ Held(r.g) = <<>> /\ ~r.bad
    <3>1. View(n)' = file'[n]
      BY <1>5, <1>7, <2>2, ConcatEmptySeq
    <3>2. View(n) = file'[n]
      BY <1>1, <1>2, <1>3, <1>6, <2>2
    <3>3. QED
      BY <1>6, <2>2, <3>1, <3>2, Zenon
  <2>3. CASE Held(r.g) = <<>> /\ (r.bad \/ "ERR" \in iob[t].flag)
    <3>1. View(n)' = file'[n]
      BY <1>5, <1>7, <2>3, ConcatEmptySeq
    <3>2. "ERR" \in iob[t].flag => t \in trouble
      BY DEF StreamsOK, StreamsAre
    <3>3. QED
      BY <1>6, <2>3, <3>1, <3>2, Zenon
  <2>4. QED
    BY <1>4, <2>1, <2>2, <2>3, Zenon
<1>10. Std!WriteBehind(t)
  BY <1>2, <1>8, <1>9, BehindIf
<1>11. Ended(t)' = Ended(t)
  BY <1>1, <1>7 DEF Ended
<1>12. QED
  BY <1>1, <1>2, <1>5, <1>7, <1>10, <1>11

(* One that is not written does not change at all. *)
LEMMA QuietOther ==
  ASSUME NEW t \in Slots, ~Writes(t), NEW r, Became(t, r), Quiet(t, r)
  PROVE  /\ Mode(t)' = Mode(t) /\ iob'[t] = iob[t]
         /\ Place(t)' = Place(t) /\ Ended(t)' = Ended(t)
         /\ Mode(t) # "w" /\ (t \in trouble' <=> t \in trouble)
         /\ iob[t].name \in Names /\ file[iob[t].name] \in Seq(Nat)
              => file'[iob[t].name] = file[iob[t].name]
<1>1. r.g = iob[t] /\ r.out = <<>> /\ ~r.bad
  BY Zenon DEF Quiet
<1>2. iob'[t] = iob[t]
  BY <1>1, Zenon DEF Became
<1>3. Mode(t)' = Mode(t)
  BY <1>2, Zenon DEF Mode, Reads, Writes
<1>4. Place(t)' = Place(t)
  BY <1>2, Zenon DEF Place, Reads, Tell
<1>5. Ended(t)' = Ended(t)
  BY <1>2, Zenon DEF Ended
<1>6. Mode(t) # "w"
  BY Zenon DEF Mode
<1>7. t \in trouble' <=> t \in trouble
  BY <1>1, Zenon DEF Became
<1>8. ASSUME iob[t].name \in Names, file[iob[t].name] \in Seq(Nat)
      PROVE  file'[iob[t].name] = file[iob[t].name]
  <2>1. file'[iob[t].name] = file[iob[t].name] \o <<>>
    BY <1>1, <1>8, Zenon DEF Became
  <2>2. QED
    BY <1>8, <2>1, ConcatEmptySeq
<1>9. QED
  BY <1>2, <1>3, <1>4, <1>5, <1>6, <1>7, <1>8

(* A file that no stream writes before or after shows what is on the disk.  *)
LEMMA ShowsDisk ==
  ASSUME NEW n, \A t \in Slots : ~WritesOn(iob, t, n), \A t \in Slots : ~WritesOn(iob', t, n)
  PROVE  View(n) = file[n] /\ View(n)' = file'[n]
BY ViewIs, ViewBecomes, OtherView

-----------------------------------------------------------------------------
(* The variables of Streams at one slot and one file. *)
LEMMA SlotIs ==
  ASSUME NEW t \in Slots
  PROVE  /\ [s \in Slots |-> Mode(s)][t] = Mode(t)
         /\ ([s \in Slots |-> Mode(s)]')[t] = Mode(t)'
         /\ [s \in Slots |-> iob[s].name][t] = iob[t].name
         /\ ([s \in Slots |-> iob[s].name]')[t] = iob'[t].name
         /\ [s \in Slots |-> Place(s)][t] = Place(t)
         /\ ([s \in Slots |-> Place(s)]')[t] = Place(t)'
         /\ [s \in Slots |-> Ended(s)][t] = Ended(t)
         /\ ([s \in Slots |-> Ended(s)]')[t] = Ended(t)'
         /\ [s \in Slots |-> s \in trouble][t] = (t \in trouble)
         /\ ([s \in Slots |-> s \in trouble]')[t] = (t \in trouble')
<1>1. /\ [s \in Slots |-> Mode(s)][t] = Mode(t)
      /\ ([s \in Slots |-> Mode(s)]')[t] = Mode(t)'
  OBVIOUS
<1>2. /\ [s \in Slots |-> iob[s].name][t] = iob[t].name
      /\ ([s \in Slots |-> iob[s].name]')[t] = iob'[t].name
  OBVIOUS
<1>3. /\ [s \in Slots |-> Place(s)][t] = Place(t)
      /\ ([s \in Slots |-> Place(s)]')[t] = Place(t)'
  OBVIOUS
<1>4. /\ [s \in Slots |-> Ended(s)][t] = Ended(t)
      /\ ([s \in Slots |-> Ended(s)]')[t] = Ended(t)'
  BY Zenon
<1>5. /\ [s \in Slots |-> s \in trouble][t] = (t \in trouble)
      /\ ([s \in Slots |-> s \in trouble]')[t] = (t \in trouble')
  BY Zenon
<1>6. QED
  BY <1>1, <1>2, <1>3, <1>4, <1>5, Zenon

(* The view of Streams at one file. *)
LEMMA FileIs ==
  ASSUME NEW n \in Names
  PROVE  /\ [m \in Names |-> View(m)][n] = View(n)
         /\ ([m \in Names |-> View(m)]')[n] = View(n)'
OBVIOUS

(* The other streams of Streams, slot by slot and file by file. *)
LEMMA OthersIf ==
  ASSUME NEW s, NEW named,
         \A t \in Slots \ {s} :
           /\ Mode(t)' = Mode(t) /\ iob'[t].name = iob[t].name
           /\ Place(t)' = Place(t) /\ Ended(t)' = Ended(t)
           /\ Mode(t) = "w" => Std!WriteBehind(t)
           /\ Mode(t) # "w" => (t \in trouble' <=> t \in trouble),
         \A n \in Names \ named :
           \/ \E t \in Slots \ {s} : Mode(t) = "w" /\ iob[t].name = n
           \/ file'[n] = file[n] /\ View(n)' = View(n)
  PROVE  Std!Others(s, named)
<1>1. ASSUME NEW t \in Slots \ {s}
      PROVE  /\ ([u \in Slots |-> Mode(u)]')[t] = [u \in Slots |-> Mode(u)][t]
             /\ ([u \in Slots |-> iob[u].name]')[t] = [u \in Slots |-> iob[u].name][t]
             /\ ([u \in Slots |-> Place(u)]')[t] = [u \in Slots |-> Place(u)][t]
             /\ ([u \in Slots |-> Ended(u)]')[t] = [u \in Slots |-> Ended(u)][t]
             /\ IF [u \in Slots |-> Mode(u)][t] = "w" THEN Std!WriteBehind(t)
                ELSE ([u \in Slots |-> u \in trouble]')[t] = [u \in Slots |-> u \in trouble][t]
  <2>1. /\ ([u \in Slots |-> Mode(u)]')[t] = [u \in Slots |-> Mode(u)][t]
        /\ ([u \in Slots |-> iob[u].name]')[t] = [u \in Slots |-> iob[u].name][t]
        /\ ([u \in Slots |-> Place(u)]')[t] = [u \in Slots |-> Place(u)][t]
    BY SlotIs
  <2>2. ([u \in Slots |-> Ended(u)]')[t] = [u \in Slots |-> Ended(u)][t]
    BY SlotIs, Zenon
  <2>3. CASE Mode(t) = "w"
    BY <2>1, <2>2, <2>3, SlotIs, Zenon
  <2>4. CASE Mode(t) # "w"
    <3>1. (t \in trouble') = (t \in trouble)
      BY <2>4
    <3>2. ([u \in Slots |-> u \in trouble]')[t] = [u \in Slots |-> u \in trouble][t]
      BY <3>1, SlotIs
    <3>3. [u \in Slots |-> Mode(u)][t] # "w"
      BY <2>4, SlotIs
    <3>4. QED
      BY <2>1, <2>2, <3>2, <3>3, Zenon
  <2>5. QED
    BY <2>3, <2>4
<1>2. ASSUME NEW n \in Names \ named
      PROVE  \/ \E t \in Slots \ {s} : /\ [u \in Slots |-> Mode(u)][t] = "w"
                                       /\ [u \in Slots |-> iob[u].name][t] = n
             \/ /\ file'[n] = file[n]
                /\ ([m \in Names |-> View(m)]')[n] = [m \in Names |-> View(m)][n]
  <2>1. CASE \E t \in Slots \ {s} : Mode(t) = "w" /\ iob[t].name = n
    BY <2>1, SlotIs
  <2>2. CASE file'[n] = file[n] /\ View(n)' = View(n)
    BY <2>2, FileIs
  <2>3. QED
    BY <2>1, <2>2
<1>3. QED
  BY <1>1, <1>2, Zenon DEF Std!Others

(* All but slot s are left to themselves, and the file of s is either       *)
(* named or left alone.                                                     *)
LEMMA OthersAre ==
  ASSUME StreamsOK, StreamsOK', NEW s, NEW named,
         \A t \in Slots \ {s} : \E r : Became(t, r) /\ Quiet(t, r),
         \A n \in Names : (\A t \in Slots : iob[t].name # n) => n \in named \/ file'[n] = file[n],
         s \in Slots => \/ iob'[s].name \in named \cup {NoFile}
                        \/ iob'[s].name = iob[s].name,
         s \in Slots => \/ iob[s].name \in named \cup {NoFile}
                        \/ /\ iob'[s].name = iob[s].name /\ ~Writes(s) /\ ~Writes(s)'
                           /\ file'[iob[s].name] = file[iob[s].name]
  PROVE  Std!Others(s, named)
<1>1. ASSUME NEW t \in Slots \ {s}
      PROVE  /\ Mode(t)' = Mode(t) /\ iob'[t].name = iob[t].name
             /\ Place(t)' = Place(t) /\ Ended(t)' = Ended(t)
             /\ Mode(t) = "w" => Std!WriteBehind(t)
             /\ Mode(t) # "w" => (t \in trouble' <=> t \in trouble)
  <2>1. PICK r : Became(t, r) /\ Quiet(t, r)
    OBVIOUS
  <2>2. CASE Writes(t)
    BY <2>1, <2>2, QuietWriter
  <2>3. CASE ~Writes(t)
    <3>1. /\ Mode(t)' = Mode(t) /\ iob'[t] = iob[t]
          /\ Place(t)' = Place(t) /\ Ended(t)' = Ended(t)
          /\ Mode(t) # "w" /\ (t \in trouble' <=> t \in trouble)
      BY <2>1, <2>3, QuietOther
    <3>2. QED
      BY <3>1
  <2>4. QED
    BY <2>2, <2>3
<1>2. ASSUME NEW n \in Names \ named, \A t \in Slots \ {s} : ~(Mode(t) = "w" /\ iob[t].name = n)
      PROVE  file'[n] = file[n] /\ View(n)' = View(n)
  <2>0. NoFile # n
    BY ConstantsAssumption
  <2>1. ASSUME NEW t \in Slots \ {s} PROVE ~WritesOn(iob, t, n) /\ ~WritesOn(iob', t, n)
    <3>1. \A u : Mode(u) = "w" <=> Writes(u) /\ ~Reads(u)
      BY Zenon DEF Mode
    <3>2. Writes(t) => ~Reads(t)
      <4>1. StreamOK(iob[t], file)
        BY DEF StreamsOK, StreamsAre
      <4>2. Writes(t) => OutputFlags(iob[t])
        BY <4>1, OutputIs DEF Writes, WriterOK
      <4>3. QED
        BY <4>2 DEF OutputFlags, Reads
    <3>3. ~(Writes(t) /\ iob[t].name = n)
      BY <1>2, <3>1, <3>2
    <3>4. Mode(t)' = Mode(t) /\ iob'[t].name = iob[t].name
      BY <1>1
    <3>5. Writes(t)' => ~Reads(t)'
      <4>1. StreamOK(iob'[t], file')
        BY DEF StreamsOK, StreamsAre
      <4>2. "WRITE" \in iob'[t].flag => OutputFlags(iob'[t])
        BY <4>1, OutputIs DEF WriterOK
      <4>3. QED
        BY <4>2 DEF OutputFlags, Reads, Writes
    <3>6. Mode(t)' = "w" <=> Writes(t)' /\ ~Reads(t)'
      BY Zenon DEF Mode
    <3>7. ~(Writes(t)' /\ iob'[t].name = n)
      BY <1>2, <3>4, <3>5, <3>6
    <3>8. QED
      BY <3>3, <3>7 DEF Writes, WritesOn
  <2>2. CASE \E u \in Slots \ {s} : iob[u].name = n
    <3>1. PICK u \in Slots \ {s} : iob[u].name = n
      BY <2>2
    <3>2. ~Writes(u)
      BY <2>1, <3>1 DEF Writes, WritesOn
    <3>3. PICK r : Became(u, r) /\ Quiet(u, r)
      BY <3>1
    <3>4. file[n] \in Seq(Nat)
      <4>1. StreamOK(iob[u], file) /\ iob[u].name # NoFile
        BY <2>0, <3>1 DEF StreamsOK, StreamsAre
      <4>2. QED
        BY <3>1, <4>1, FreeIs DEF StreamOK
    <3>5. file'[n] = file[n]
      BY <3>1, <3>2, <3>3, <3>4, QuietOther
    <3>6. iob'[u].name = n
      BY <1>1, <3>1
    <3>7. \A t \in Slots : t # u => iob[t].name # n /\ iob'[t].name # n
      BY <2>0, <3>1, <3>6 DEF StreamsOK, StreamsAre
    <3>8. \A t \in Slots : ~WritesOn(iob, t, n) /\ ~WritesOn(iob', t, n)
      BY <2>1, <3>1, <3>7 DEF WritesOn
    <3>9. QED
      BY <3>5, <3>8, ShowsDisk
  <2>3. CASE \A u \in Slots \ {s} : iob[u].name # n
    <3>1. CASE s \in Slots /\ iob[s].name = n
      <4>1. /\ iob'[s].name = iob[s].name /\ ~Writes(s) /\ ~Writes(s)'
            /\ file'[iob[s].name] = file[iob[s].name]
        BY <1>2, <2>0, <3>1
      <4>2. ~WritesOn(iob, s, n) /\ ~WritesOn(iob', s, n)
        BY <4>1 DEF WritesOn, Writes
      <4>3. \A t \in Slots : ~WritesOn(iob, t, n) /\ ~WritesOn(iob', t, n)
        BY <2>1, <4>2
      <4>4. QED
        BY <3>1, <4>1, <4>3, ShowsDisk
    <3>2. CASE ~(s \in Slots /\ iob[s].name = n)
      <4>1. \A t \in Slots : iob[t].name # n
        BY <2>3, <3>2
      <4>2. file'[n] = file[n]
        BY <1>2, <4>1
      <4>3. \A t \in Slots : iob'[t].name # n
        BY <1>1, <1>2, <2>0, <4>1
      <4>4. \A t \in Slots : ~WritesOn(iob, t, n) /\ ~WritesOn(iob', t, n)
        BY <4>1, <4>3 DEF WritesOn
      <4>5. QED
        BY <4>2, <4>4, ShowsDisk
    <3>3. QED
      BY <3>1, <3>2
  <2>4. QED
    BY <2>2, <2>3
<1>3. \A n \in Names \ named :
        \/ \E t \in Slots \ {s} : Mode(t) = "w" /\ iob[t].name = n
        \/ file'[n] = file[n] /\ View(n)' = View(n)
  BY <1>2, Zenon
<1>4. \A t \in Slots \ {s} :
        /\ Mode(t)' = Mode(t) /\ iob'[t].name = iob[t].name
        /\ Place(t)' = Place(t) /\ Ended(t)' = Ended(t)
        /\ Mode(t) = "w" => Std!WriteBehind(t)
        /\ Mode(t) # "w" => (t \in trouble' <=> t \in trouble)
  BY <1>1
<1>5. QED
  BY <1>3, <1>4, OthersIf

-----------------------------------------------------------------------------
(* The steps of Streams in the words of the model. *)
LEMMA ShownIf ==
  ASSUME Mode(stdout) = "w" => /\ iob[stdout].name \in Names
                               /\ \A n \in Names : n = iob[stdout].name => file'[n] = View(n)'
  PROVE  Std!Shown
<1>1. [u \in Slots |-> Mode(u)][stdout] = Mode(stdout)
  BY SlotIs, Bounds
<1>2. CASE Mode(stdout) # "w"
  BY <1>1, <1>2, Zenon DEF Std!Shown
<1>3. CASE Mode(stdout) = "w"
  <2> DEFINE o == [u \in Slots |-> iob[u].name][stdout]
  <2>1. o = iob[stdout].name
    BY SlotIs, Bounds
  <2>2. PICK n \in Names : n = iob[stdout].name
    BY <1>3
  <2>3. file'[n] = ([m \in Names |-> View(m)]')[n]
    BY <1>3, <2>2, FileIs
  <2> HIDE DEF o
  <2>4. file'[o] = ([m \in Names |-> View(m)]')[o]
    BY <2>1, <2>2, <2>3
  <2>5. QED
    BY <2>4, Zenon DEF Std!Shown, o
<1>4. QED
  BY <1>2, <1>3

(* The program is not over with this step, nor was it. *)
KeepsOver == (call.op = "flushed")' = (call.op = "flushed")
LEMMA NotOver ==
  ASSUME call.op # "flushed", call'.op # "flushed"
  PROVE  KeepsOver
BY DEF KeepsOver

(* A slot stays open on its file. *)
LEMMA StaysIf ==
  ASSUME NEW s \in Slots, Mode(s)' = Mode(s), iob'[s].name = iob[s].name, KeepsOver
  PROVE  Std!Stays(s)
<1>1. /\ ([u \in Slots |-> Mode(u)]')[s] = [u \in Slots |-> Mode(u)][s]
      /\ ([u \in Slots |-> iob[u].name]')[s] = [u \in Slots |-> iob[u].name][s]
  BY SlotIs
<1>2. QED
  BY <1>1, Zenon DEF Std!Stays, KeepsOver

(* A character, the end or an error is what Get() of Streams gives. *)
LEMMA GetIf ==
  ASSUME NEW s \in Slots, NEW n \in Names, n = iob[s].name,
         Mode(s) = "r", Std!Stays(s), Std!Others(s, {}), s = stdin => Std!Shown,
         \/ /\ Place(s) < Len(View(n)) /\ Place(s)' = Place(s) + 1
            /\ last' = <<s, View(n)[Place(s)']>>
            /\ Ended(s)' = Ended(s) /\ (s \in trouble' <=> s \in trouble)
         \/ /\ Place(s) >= Len(View(n)) /\ Place(s)' = Place(s) /\ last' = <<s, EOF>>
            /\ Ended(s)' /\ (s \in trouble' <=> s \in trouble)
         \/ /\ Place(s)' = Place(s) /\ last' = <<s, EOF>>
            /\ Ended(s)' = Ended(s) /\ s \in trouble'
  PROVE  Std!Get(s)
<1> DEFINE o == [u \in Slots |-> iob[u].name][s]
           md == [u \in Slots |-> Mode(u)][s]
           p  == [u \in Slots |-> Place(u)][s]
           q  == ([u \in Slots |-> Place(u)]')[s]
           e  == [u \in Slots |-> Ended(u)][s]
           d  == ([u \in Slots |-> Ended(u)]')[s]
           x  == [u \in Slots |-> u \in trouble][s]
           y  == ([u \in Slots |-> u \in trouble]')[s]
           v  == [m \in Names |-> View(m)][o]
<1>1. o = n /\ md = "r" /\ p = Place(s) /\ q = Place(s)'
  BY SlotIs
<1>2. e = Ended(s) /\ d = Ended(s)' /\ x = (s \in trouble) /\ y = (s \in trouble')
  BY SlotIs
<1>3. v = View(n)
  <2>1. [m \in Names |-> View(m)][n] = View(n)
    BY FileIs
  <2>2. QED
    BY <1>1, <2>1
<1> HIDE DEF o, md, p, q, e, d, x, y, v
<1>4. (s \in trouble' <=> s \in trouble) => y = x
  <2>1. ASSUME s \in trouble' <=> s \in trouble PROVE (s \in trouble') = (s \in trouble)
    BY <2>1
  <2>2. QED
    BY <1>2, <2>1
<1>5. Std!EOF = EOF
  BY DEF Std!EOF, EOF
<1>6. \/ p < Len(v) /\ q = p + 1 /\ last' = <<s, v[q]>> /\ d = e /\ y = x
      \/ p >= Len(v) /\ d /\ y = x /\ q = p /\ last' = <<s, Std!EOF>>
      \/ y /\ d = e /\ q = p /\ last' = <<s, Std!EOF>>
  <2>1. CASE /\ Place(s) < Len(View(n)) /\ Place(s)' = Place(s) + 1
             /\ last' = <<s, View(n)[Place(s)']>>
             /\ Ended(s)' = Ended(s) /\ (s \in trouble' <=> s \in trouble)
    BY <1>1, <1>2, <1>3, <1>4, <2>1
  <2>2. CASE /\ Place(s) >= Len(View(n)) /\ Place(s)' = Place(s) /\ last' = <<s, EOF>>
             /\ Ended(s)' /\ (s \in trouble' <=> s \in trouble)
    BY <1>1, <1>2, <1>3, <1>4, <1>5, <2>2
  <2>3. CASE /\ Place(s)' = Place(s) /\ last' = <<s, EOF>>
             /\ Ended(s)' = Ended(s) /\ s \in trouble'
    BY <1>1, <1>2, <1>5, <2>3
  <2>4. QED
    BY <2>1, <2>2, <2>3
<1>7. QED
  BY <1>1, <1>6, Zenon DEF Std!Get, o, md, p, q, e, d, x, y, v

(* A character that is added, or an error, is a Put() of Streams. *)
LEMMA PutIf ==
  ASSUME NEW s \in Slots, NEW n \in Names, n = iob[s].name, NEW c,
         Mode(s) = "w", Std!Stays(s), Std!Others(s, {n}),
         Place(s)' = Place(s), Ended(s)' = Ended(s),
         \/ /\ View(n)' = Append(View(n), c)
            /\ \E k \in Len(file[n]) .. Len(View(n)') : file'[n] = SubSeq(View(n)', 1, k)
            /\ (s \in trouble' <=> s \in trouble) /\ last' = <<s, c>>
         \/ /\ \E k \in Len(file[n]) .. Len(View(n)) : file'[n] = SubSeq(View(n), 1, k)
            /\ View(n)' = file'[n] /\ s \in trouble' /\ last' = <<s, EOF>>
  PROVE  Std!Put(s, c)
<1> DEFINE o == [u \in Slots |-> iob[u].name][s]
           md == [u \in Slots |-> Mode(u)][s]
           p  == [u \in Slots |-> Place(u)][s]
           q  == ([u \in Slots |-> Place(u)]')[s]
           e  == [u \in Slots |-> Ended(u)][s]
           d  == ([u \in Slots |-> Ended(u)]')[s]
           x  == [u \in Slots |-> u \in trouble][s]
           y  == ([u \in Slots |-> u \in trouble]')[s]
           v  == [m \in Names |-> View(m)][o]
           w  == ([m \in Names |-> View(m)]')[o]
<1>1. o = n /\ md = "w" /\ q = p
  BY SlotIs
<1>2. d = e /\ x = (s \in trouble) /\ y = (s \in trouble')
  BY SlotIs
<1>3. v = View(n) /\ w = View(n)'
  <2>1. [m \in Names |-> View(m)][n] = View(n) /\ ([m \in Names |-> View(m)]')[n] = View(n)'
    BY FileIs
  <2>2. QED
    BY <1>1, <2>1
<1> HIDE DEF o, md, p, q, e, d, x, y, v, w
<1>4. (s \in trouble' <=> s \in trouble) => y = x
  <2>1. ASSUME s \in trouble' <=> s \in trouble PROVE (s \in trouble') = (s \in trouble)
    BY <2>1
  <2>2. QED
    BY <1>2, <2>1
<1>5. Std!EOF = EOF
  BY DEF Std!EOF, EOF
<1>6. \/ w = Append(v, c) /\ Std!Grows(o, w) /\ y = x /\ last' = <<s, c>>
      \/ Std!Grows(o, v) /\ w = file'[o] /\ y /\ last' = <<s, Std!EOF>>
  <2>1. CASE /\ View(n)' = Append(View(n), c)
             /\ \E k \in Len(file[n]) .. Len(View(n)') : file'[n] = SubSeq(View(n)', 1, k)
             /\ (s \in trouble' <=> s \in trouble) /\ last' = <<s, c>>
    <3>1. Std!Grows(o, w)
      BY <1>1, <1>3, <2>1 DEF Std!Grows, Std!Prefix
    <3>2. QED
      BY <1>3, <1>4, <2>1, <3>1
  <2>2. CASE /\ \E k \in Len(file[n]) .. Len(View(n)) : file'[n] = SubSeq(View(n), 1, k)
             /\ View(n)' = file'[n] /\ s \in trouble' /\ last' = <<s, EOF>>
    <3>1. Std!Grows(o, v)
      BY <1>1, <1>3, <2>2 DEF Std!Grows, Std!Prefix
    <3>2. QED
      BY <1>1, <1>2, <1>3, <1>5, <2>2, <3>1
  <2>3. QED
    BY <2>1, <2>2
<1>7. Std!Others(s, {o})
  BY <1>1, Zenon DEF Std!Others
<1>8. QED
  BY <1>1, <1>2, <1>6, <1>7, Zenon DEF Std!Put, Std!Grows, Std!Prefix, Std!Others, o, md, p, q, e, d, x, y, v, w

(* The disk has all that was put, or the rest is lost: a Flush() of
   Streams. *)
LEMMA FlushIf ==
  ASSUME NEW s \in Slots, NEW n \in Names, n = iob[s].name,
         Mode(s) = "w", Std!Stays(s), Std!Others(s, {n}),
         Place(s)' = Place(s), Ended(s)' = Ended(s), last' = last,
         \E k \in Len(file[n]) .. Len(View(n)) : file'[n] = SubSeq(View(n), 1, k),
         View(n)' = file'[n],
         \/ View(n)' = View(n) /\ (s \in trouble' <=> s \in trouble)
         \/ s \in trouble'
  PROVE  Std!Flush(s)
<1> DEFINE o == [u \in Slots |-> iob[u].name][s]
           md == [u \in Slots |-> Mode(u)][s]
           p  == [u \in Slots |-> Place(u)][s]
           q  == ([u \in Slots |-> Place(u)]')[s]
           e  == [u \in Slots |-> Ended(u)][s]
           d  == ([u \in Slots |-> Ended(u)]')[s]
           x  == [u \in Slots |-> u \in trouble][s]
           y  == ([u \in Slots |-> u \in trouble]')[s]
           v  == [m \in Names |-> View(m)][o]
           w  == ([m \in Names |-> View(m)]')[o]
<1>1. o = n /\ md = "w" /\ q = p
  BY SlotIs
<1>2. d = e /\ x = (s \in trouble) /\ y = (s \in trouble')
  BY SlotIs
<1>3. v = View(n) /\ w = View(n)'
  <2>1. [m \in Names |-> View(m)][n] = View(n) /\ ([m \in Names |-> View(m)]')[n] = View(n)'
    BY FileIs
  <2>2. QED
    BY <1>1, <2>1
<1> HIDE DEF o, md, p, q, e, d, x, y, v, w
<1>4. (s \in trouble' <=> s \in trouble) => y = x
  <2>1. ASSUME s \in trouble' <=> s \in trouble PROVE (s \in trouble') = (s \in trouble)
    BY <2>1
  <2>2. QED
    BY <1>2, <2>1
<1>5. Std!Grows(o, v)
  BY <1>1, <1>3 DEF Std!Grows, Std!Prefix
<1>6. /\ w = file'[o]
      /\ (w = v /\ y = x) \/ y
  BY <1>1, <1>2, <1>3, <1>4
<1>7. Std!Others(s, {o})
  BY <1>1, Zenon DEF Std!Others
<1>8. QED
  BY <1>1, <1>2, <1>5, <1>6, <1>7, Zenon
     DEF Std!Flush, Std!Grows, Std!Prefix, Std!Others, o, md, p, q, e, d, x, y, v, w

(* A move, or an error, is a Seek() of Streams. *)
LEMMA SeekIf ==
  ASSUME NEW s \in Slots, Mode(s) = "r", Std!Stays(s), Std!Others(s, {}), last' = last,
         NEW from, from = IF Ended(s) THEN 0 ELSE Place(s),
         \/ /\ \E k \in Offsets : Place(s)' = k \/ Place(s)' = from + k
            /\ Place(s)' >= 0 /\ ~Ended(s)' /\ (s \in trouble' <=> s \in trouble)
         \/ /\ \/ Place(s)' = Place(s) /\ Ended(s)' = Ended(s)
               \/ Place(s)' = from /\ ~Ended(s)'
            /\ s \in trouble'
  PROVE  Std!Seek(s) \/ SeekFromStart(s)
<1> DEFINE md == [u \in Slots |-> Mode(u)][s]
           p  == [u \in Slots |-> Place(u)][s]
           q  == ([u \in Slots |-> Place(u)]')[s]
           e  == [u \in Slots |-> Ended(u)][s]
           d  == ([u \in Slots |-> Ended(u)]')[s]
           x  == [u \in Slots |-> u \in trouble][s]
           y  == ([u \in Slots |-> u \in trouble]')[s]
           a  == IF e THEN 0 ELSE p
<1>1. md = "r" /\ p = Place(s) /\ q = Place(s)'
  BY SlotIs
<1>2. e = Ended(s) /\ d = Ended(s)' /\ x = (s \in trouble) /\ y = (s \in trouble')
  BY SlotIs
<1> HIDE DEF md, p, q, e, d, x, y
<1>3. a = from
  BY <1>1, <1>2
<1> HIDE DEF a
<1>4. (s \in trouble' <=> s \in trouble) => y = x
  <2>1. ASSUME s \in trouble' <=> s \in trouble PROVE (s \in trouble') = (s \in trouble)
    BY <2>1
  <2>2. QED
    BY <1>2, <2>1
<1>5. \/ (\E k \in Offsets : q = k \/ q = a + k) /\ q >= 0 /\ ~d /\ y = x
      \/ ((q = p /\ d = e) \/ (q = a /\ ~d)) /\ y
  <2>1. CASE /\ \E k \in Offsets : Place(s)' = k \/ Place(s)' = from + k
             /\ Place(s)' >= 0 /\ ~Ended(s)' /\ (s \in trouble' <=> s \in trouble)
    BY <1>1, <1>2, <1>3, <1>4, <2>1
  <2>2. CASE /\ \/ Place(s)' = Place(s) /\ Ended(s)' = Ended(s)
                \/ Place(s)' = from /\ ~Ended(s)'
             /\ s \in trouble'
    <3>1. (q = p /\ d = e) \/ (q = a /\ ~d)
      <4>1. CASE Place(s)' = Place(s) /\ Ended(s)' = Ended(s)
        <5>1. (Ended(s)') = (Ended(s))
          BY <4>1
        <5>2. d = e
          BY <1>2, <5>1
        <5>3. QED
          BY <1>1, <4>1, <5>2
      <4>2. CASE Place(s)' = from /\ ~Ended(s)'
        BY <1>1, <1>2, <1>3, <4>2
      <4>3. QED
        BY <2>2, <4>1, <4>2
    <3>2. y
      BY <1>2, <2>2
    <3>3. QED
      BY <3>1, <3>2
  <2>3. QED
    BY <2>1, <2>2
<1>6. CASE Ended(s)
  <2>1. a = 0
    BY <1>2, <1>3, <1>6
  <2>2. Std!SeekFrom(s, 0)
    BY <1>1, <1>5, <2>1, Zenon DEF Std!SeekFrom, Std!Others, md, p, q, e, d, x, y
  <2>3. QED
    BY <1>6, <2>2 DEF SeekFromStart
<1>7. CASE ~Ended(s)
  <2>1. a = p
    BY <1>1, <1>2, <1>3, <1>7
  <2>2. Std!SeekFrom(s, p)
    BY <1>1, <1>5, <2>1, Zenon DEF Std!SeekFrom, Std!Others, md, q, e, d, x, y
  <2>3. QED
    BY <2>2, Zenon DEF Std!Seek, Std!SeekFrom, Std!Others, p
<1>8. QED
  BY <1>6, <1>7

(* A free slot becomes a stream: an Open() of Streams. *)
LEMMA OpenIf ==
  ASSUME NEW s \in Slots, NEW n \in Names, Mode(s) = "closed",
         \A t \in Slots : t < s => Mode(t) # "closed",
         Mode(s)' \in {"r", "w"}, iob'[s].name = n,
         \A t \in Slots : iob[t].name # n,
         Place(s)' = 0, ~Ended(s)', s \notin trouble', last' = last, KeepsOver,
         Std!Others(s, {n}), View(n)' = file'[n], file'[n] # NoFile,
         file'[n] = file[n] \/ (Mode(s)' = "w" /\ file'[n] = <<>>)
  PROVE  Std!Open(s, n)
<1> DEFINE md == [u \in Slots |-> Mode(u)][s]
           mn == ([u \in Slots |-> Mode(u)]')[s]
           o == ([u \in Slots |-> iob[u].name]')[s]
           q  == ([u \in Slots |-> Place(u)]')[s]
           d  == ([u \in Slots |-> Ended(u)]')[s]
           y  == ([u \in Slots |-> u \in trouble]')[s]
           w  == ([m \in Names |-> View(m)]')[n]
<1>1. md = "closed" /\ mn \in {"r", "w"} /\ o = n /\ q = 0 /\ mn = Mode(s)'
  BY SlotIs
<1>2. ~d /\ ~y
  <2>1. d = Ended(s)' /\ y = (s \in trouble')
    BY SlotIs
  <2>2. QED
    BY <2>1
<1>3. w = file'[n]
  BY FileIs
<1>4. \A t \in Slots : t < s => [u \in Slots |-> Mode(u)][t] # "closed"
  BY SlotIs
<1>5. \A t \in Slots : [u \in Slots |-> Mode(u)][t] # "closed"
                         => [u \in Slots |-> iob[u].name][t] # n
  BY SlotIs
<1> HIDE DEF md, mn, o, q, d, y, w
<1>6. file'[n] = file[n] \/ (mn = "w" /\ file'[n] = <<>>)
  BY <1>1
<1>7. QED
  BY <1>1, <1>2, <1>3, <1>4, <1>5, <1>6, Zenon
     DEF Std!Open, KeepsOver, md, mn, o, q, d, y, w

(* A stream becomes a free slot: a Close() of Streams. *)
LEMMA CloseIf ==
  ASSUME NEW s \in Slots, NEW n \in Names, n = iob[s].name,
         Mode(s) # "closed", Mode(s)' = "closed", iob'[s].name = NoFile,
         Place(s)' = 0, ~Ended(s)', last' = last, KeepsOver, Std!Others(s, {n}),
         View(n)' = file'[n],
         \/ /\ Mode(s) = "w"
            /\ \E k \in Len(file[n]) .. Len(View(n)) : file'[n] = SubSeq(View(n), 1, k)
            /\ \/ file'[n] = View(n) /\ (s \in trouble' <=> s \in trouble)
               \/ s \in trouble'
         \/ /\ Mode(s) # "w" /\ file'[n] = file[n] /\ View(n)' = View(n)
            /\ (s \in trouble' <=> s \in trouble)
  PROVE  Std!Close(s)
<1> DEFINE o == [u \in Slots |-> iob[u].name][s]
           on == ([u \in Slots |-> iob[u].name]')[s]
           md == [u \in Slots |-> Mode(u)][s]
           mn == ([u \in Slots |-> Mode(u)]')[s]
           q  == ([u \in Slots |-> Place(u)]')[s]
           d  == ([u \in Slots |-> Ended(u)]')[s]
           x  == [u \in Slots |-> u \in trouble][s]
           y  == ([u \in Slots |-> u \in trouble]')[s]
           v  == [m \in Names |-> View(m)][o]
           w  == ([m \in Names |-> View(m)]')[o]
<1>1. o = n /\ md = Mode(s) /\ mn = "closed" /\ on = NoFile /\ q = 0
  BY SlotIs
<1>2. ~d /\ x = (s \in trouble) /\ y = (s \in trouble')
  <2>1. d = Ended(s)' /\ x = (s \in trouble) /\ y = (s \in trouble')
    BY SlotIs
  <2>2. QED
    BY <2>1
<1>3. v = View(n) /\ w = View(n)'
  <2>1. [m \in Names |-> View(m)][n] = View(n) /\ ([m \in Names |-> View(m)]')[n] = View(n)'
    BY FileIs
  <2>2. QED
    BY <1>1, <2>1
<1> HIDE DEF o, on, md, mn, q, d, x, y, v, w
<1>4. (s \in trouble' <=> s \in trouble) => y = x
  <2>1. ASSUME s \in trouble' <=> s \in trouble PROVE (s \in trouble') = (s \in trouble)
    BY <2>1
  <2>2. QED
    BY <1>2, <2>1
<1>5. md = "w" => Std!Grows(o, v)
  BY <1>1, <1>3 DEF Std!Grows, Std!Prefix
<1>6. /\ md = "w" => w = file'[o] /\ ((file'[o] = v /\ y = x) \/ y)
      /\ md # "w" => file'[o] = file[o] /\ w = v /\ y = x
  BY <1>1, <1>2, <1>3, <1>4
<1>7. Std!Others(s, {o})
  BY <1>1, Zenon DEF Std!Others
<1>8. QED
  BY <1>1, <1>2, <1>5, <1>6, <1>7, Zenon
     DEF Std!Close, KeepsOver, Std!Grows, Std!Prefix, Std!Others, o, on, md, mn, q, d, x, y, v, w

-----------------------------------------------------------------------------
(* What the streams keep besides: what is in a buffer that is read is in    *)
(* the file, and while g_read() takes from stdin, stdout is shown.          *)
BufferInFile == \A s \in Slots : Reads(s) => InFile(iob[s], file[iob[s].name])
ReadShown ==
  call.op = "read" /\ call.slot = stdin /\ Writes(stdout) => Held(iob[stdout]) = <<>>

(* g_flushbuf(-1) is among what a stream may do of its own. *)
LEMMA FlushIsQuiet ==
  ASSUME StreamsOK, NEW t \in Slots, NEW r \in g_flushbuf(-1, iob[t])
  PROVE  /\ Quiet(t, r) /\ Becomes(iob[t], r, file)
         /\ Writes(t) => /\ Held(r.g) = <<>> /\ r.g.name = iob[t].name
                         /\ "WRITE" \in r.g.flag
                         /\ WroteAll(iob[t], r) \/ GaveUp(iob[t], r)
<1>1. iob[t] \in Records /\ StreamOK(iob[t], file) /\ -1 \in Int
  BY DEF StreamsOK, StreamsAre
<1>2. Becomes(iob[t], r, file)
  BY <1>1, FlushBecomes
<1>3. CASE Writes(t)
  <2>1. iob[t].name \in Names /\ file[iob[t].name] \in Seq(Nat) /\ WriterOK(iob[t], file[iob[t].name])
    BY <1>1, <1>3, OutputIs DEF Writes
  <2>2. Delivered(iob[t], r, file[iob[t].name])
    BY <1>1, <2>1, FlushDelivers
  <2>3. r.g.name = iob[t].name /\ "WRITE" \in r.g.flag
    BY <2>2 DEF Delivered, WriterOK, OutputFlags
  <2>4. WroteAll(iob[t], r) \/ GaveUp(iob[t], r)
    <3>1. \/ -1 < 0 /\ WroteAll(iob[t], r)
          \/ -1 >= 0
          \/ GaveUp(iob[t], r)
      BY <1>1, <2>1, FlushWrites
    <3>2. QED
      BY <3>1
  <2>5. Held(r.g) = <<>>
    BY <2>4 DEF WroteAll, GaveUp
  <2>6. Quiet(t, r)
    BY <1>3, <2>3, <2>4 DEF Quiet
  <2>7. QED
    BY <1>2, <2>3, <2>4, <2>5, <2>6
<1>4. CASE ~Writes(t)
  <2>1. r = Result(iob[t], <<>>, EOF, FALSE)
    BY <1>4 DEF g_flushbuf, Writes
  <2>2. r.g = iob[t] /\ r.out = <<>> /\ ~r.bad
    BY <2>1 DEF Result
  <2>3. QED
    BY <1>2, <1>4, <2>2 DEF Quiet
<1>5. QED
  BY <1>3, <1>4

(* What becomes of stdout before a stream is read. *)
LEMMA SyncIs ==
  ASSUME StreamsOK, NEW s \in Slots, NEW f \in Sync(s)
  PROVE  /\ Quiet(stdout, f) /\ Becomes(iob[stdout], f, file)
         /\ f = NoSync \/ s = stdin
         /\ s = stdin /\ Writes(stdout) => Held(f.g) = <<>>
<1>1. CASE s = stdin
  <2>1. f \in g_flushbuf(-1, iob[stdout]) /\ stdout \in Slots
    BY <1>1, Bounds DEF Sync
  <2>2. QED
    BY <1>1, <2>1, FlushIsQuiet
<1>2. CASE s # stdin
  <2>1. f = NoSync
    BY <1>2 DEF Sync
  <2>2. Becomes(iob[stdout], f, file)
    BY <2>1, NoSyncBecomes
  <2>3. Quiet(stdout, f)
    BY <2>1, NothingIs DEF Quiet
  <2>4. QED
    BY <1>2, <2>1, <2>2, <2>3
<1>3. QED
  BY <1>1, <1>2

(* Streams left to themselves keep their buffers in their files. *)
LEMMA StillInFile ==
  ASSUME StreamsOK, StreamsOK', BufferInFile, NEW s,
         \A t \in Slots \ {s} : \E r : Became(t, r) /\ Quiet(t, r),
         s \in Slots /\ Reads(s)' => \A n \in Names : n = iob'[s].name => InFile(iob'[s], file'[n])
  PROVE  BufferInFile'
<1>1. ASSUME NEW t \in Slots, Reads(t)'
      PROVE  InFile(iob'[t], file'[iob'[t].name])
  <2>1. CASE t = s
    <3>1. StreamOK(iob'[t], file') /\ "READ" \in iob'[t].flag
      BY <1>1 DEF StreamsOK, StreamsAre, Reads
    <3>2. iob'[t].name \in Names
      BY <3>1, InputIs
    <3>3. QED
      BY <1>1, <2>1, <3>2
  <2>2. CASE t # s
    <3>1. PICK r : Became(t, r) /\ Quiet(t, r)
      BY <2>2
    <3>2. ~Writes(t)
      <4>1. SUFFICES ASSUME Writes(t) PROVE FALSE
        OBVIOUS
      <4>2. Mode(t)' = Mode(t) /\ Mode(t) = "w"
        BY <3>1, <4>1, QuietWriter
      <4>3. QED
        BY <1>1, <4>2 DEF Mode
    <3>3. iob'[t] = iob[t]
      BY <3>1, <3>2, QuietOther
    <3>4. Reads(t)
      BY <1>1, <3>3 DEF Reads
    <3>5. iob[t].name \in Names /\ file[iob[t].name] \in Seq(Nat)
      BY <3>4, TellIs
    <3>6. file'[iob[t].name] = file[iob[t].name]
      BY <3>1, <3>2, <3>5, QuietOther
    <3>7. InFile(iob[t], file[iob[t].name])
      BY <3>4 DEF BufferInFile
    <3>8. QED
      BY <3>3, <3>6, <3>7
  <2>3. QED
    BY <2>1, <2>2
<1>2. QED
  BY <1>1 DEF BufferInFile

(* All but s are left to themselves by a call on s. *)
LEMMA OthersQuiet ==
  ASSUME NEW s, NEW f, s # stdout => Became(stdout, f) /\ Quiet(stdout, f),
         \A t \in Slots \ {s, stdout} : Became(t, Nothing(t))
  PROVE  \A t \in Slots \ {s} : \E r : Became(t, r) /\ Quiet(t, r)
<1>1. \A t \in Slots \ {s, stdout} : Quiet(t, Nothing(t))
  BY NothingIs DEF Quiet
<1>2. QED
  BY <1>1

-----------------------------------------------------------------------------
(* A stream that is read, in the words of Streams. *)
LEMMA ReaderIs ==
  ASSUME StreamsOK, NEW s \in Slots, Reads(s)
  PROVE  /\ Mode(s) = "r" /\ Place(s) = Pos(iob[s]) /\ ~Writes(s)
         /\ iob[s] \in Records /\ iob[s].name \in Names /\ file[iob[s].name] \in Seq(Nat)
         /\ ReaderOK(iob[s], file[iob[s].name])
         /\ \A n \in Names : n = iob[s].name => View(n) = file[n]
<1>1. /\ Tell(s) = Pos(iob[s]) /\ iob[s] \in Records /\ StreamOK(iob[s], file)
      /\ iob[s].name \in Names /\ file[iob[s].name] \in Seq(Nat)
  BY TellIs
<1>2. ReaderOK(iob[s], file[iob[s].name])
  BY <1>1, InputIs DEF Reads
<1>3. ~Writes(s)
  BY <1>2 DEF ReaderOK, InputFlags, Writes
<1>4. Mode(s) = "r" /\ Place(s) = Pos(iob[s])
  BY <1>1 DEF Mode, Place
<1>5. V(iob, file, iob[s].name) = file[iob[s].name]
  BY <1>1, <1>3, ReaderView DEF Writes, StreamsOK
<1>6. \A n \in Names : n = iob[s].name => View(n) = file[n]
  BY <1>5, ViewIs
<1>7. QED
  BY <1>1, <1>2, <1>3, <1>4, <1>6

(* And after a step. *)
LEMMA ReaderBecomes ==
  ASSUME StreamsOK', NEW s \in Slots, Reads(s)'
  PROVE  Mode(s)' = "r" /\ Place(s)' = Pos(iob'[s]) /\ ~Writes(s)'
<1>1. StreamOK(iob'[s], file') /\ "READ" \in iob'[s].flag
  BY DEF StreamsOK, StreamsAre, Reads
<1>2. ReaderOK(iob'[s], file'[iob'[s].name])
  BY <1>1, InputIs
<1>3. ~Writes(s)'
  BY <1>2 DEF ReaderOK, InputFlags, Writes
<1>4. Place(s)' = Tell(s)' /\ Mode(s)' = "r"
  BY DEF Place, Mode
<1>5. Tell(s)' = Pos(iob'[s])
  BY DEF Tell, Pos, Unread
<1>6. QED
  BY <1>3, <1>4, <1>5

(* A call that reads or seeks: what the other streams do is their own. *)
LEMMA ReaderStep ==
  ASSUME StreamsOK, BufferInFile, NEW s \in Slots, Reads(s), NEW r, NEW f,
         Becomes(iob[s], r, file), r.out = <<>>, "READ" \in r.g.flag,
         r.g.name = iob[s].name, InFile(r.g, file[iob[s].name]),
         Becomes(iob[stdout], f, file), Quiet(stdout, f), f = NoSync \/ s = stdin,
         Do(s, r, f), KeepsOver
  PROVE  /\ StreamsOK' /\ BufferInFile' /\ iob'[s] = r.g
         /\ Std!Stays(s) /\ Std!Others(s, {})
         /\ Mode(s) = "r" /\ Place(s) = Pos(iob[s]) /\ Place(s)' = Pos(r.g)
         /\ (s \in trouble' <=> s \in trouble \/ r.bad)
         /\ s # stdout => iob'[stdout] = f.g
<1>1. /\ StreamsOK' /\ Became(s, r)
      /\ s # stdout => Became(stdout, f)
      /\ \A t \in Slots \ {s, stdout} : Became(t, Nothing(t))
      /\ \A n \in Names : (\A t \in Slots : iob[t].name # n) => file'[n] = file[n]
  BY DoIs
<1>2. /\ iob'[s] = r.g /\ (s \in trouble' <=> s \in trouble \/ r.bad)
      /\ s # stdout => iob'[stdout] = f.g
  BY <1>1 DEF Became
<1>3. /\ Mode(s) = "r" /\ Place(s) = Pos(iob[s]) /\ ~Writes(s)
      /\ iob[s].name \in Names /\ file[iob[s].name] \in Seq(Nat)
  BY ReaderIs
<1>4. Reads(s)'
  BY <1>2 DEF Reads
<1>5. Mode(s)' = "r" /\ Place(s)' = Pos(r.g) /\ ~Writes(s)'
  BY <1>1, <1>2, <1>4, ReaderBecomes
<1>6. file'[iob[s].name] = file[iob[s].name]
  <2>1. file'[iob[s].name] = file[iob[s].name] \o <<>>
    BY <1>1, <1>3 DEF Became
  <2>2. QED
    BY <1>3, <2>1, ConcatEmptySeq
<1>7. Std!Stays(s)
  BY <1>2, <1>3, <1>5, StaysIf
<1>8. \A t \in Slots \ {s} : \E q : Became(t, q) /\ Quiet(t, q)
  BY <1>1, OthersQuiet
<1>9. Std!Others(s, {})
  <2>1. iob'[s].name = iob[s].name
    BY <1>2
  <2>2. \A n \in Names : (\A t \in Slots : iob[t].name # n) => n \in {} \/ file'[n] = file[n]
    BY <1>1
  <2>3. s \in Slots => \/ iob'[s].name \in {} \cup {NoFile}
                       \/ iob'[s].name = iob[s].name
    BY <2>1
  <2>4. s \in Slots => \/ iob[s].name \in {} \cup {NoFile}
                       \/ /\ iob'[s].name = iob[s].name /\ ~Writes(s) /\ ~Writes(s)'
                          /\ file'[iob[s].name] = file[iob[s].name]
    BY <1>3, <1>5, <1>6, <2>1
  <2>5. QED
    BY <1>1, <1>8, <2>2, <2>3, <2>4, OthersAre
<1>10. BufferInFile'
  <2>1. \A n \in Names : n = iob'[s].name => InFile(iob'[s], file'[n])
    BY <1>2, <1>6
  <2>2. QED
    BY <1>1, <1>8, <2>1, StillInFile
<1>11. QED
  BY <1>1, <1>2, <1>3, <1>5, <1>7, <1>9, <1>10

(* Stdout shows what it holds if it holds nothing back. *)
LEMMA ShownWhenNothingHeld ==
  ASSUME StreamsOK, StreamsOK',
         NEW f, iob'[stdout] = f.g, Quiet(stdout, f), Writes(stdout) => Held(f.g) = <<>>
  PROVE  Std!Shown
<1>1. CASE Writes(stdout)
  <2>1. iob[stdout].name \in Names /\ stdout \in Slots
    BY <1>1, Bounds, WriterIs
  <2>2. Writes(stdout)' /\ iob'[stdout].name = iob[stdout].name
    BY <1>1 DEF Quiet, Writes
  <2>3. ASSUME NEW n \in Names, n = iob[stdout].name PROVE file'[n] = View(n)'
    <3>1. View(n)' = file'[n] \o Held(iob'[stdout]) /\ file'[n] \in Seq(Nat)
      BY <2>1, <2>2, <2>3, WriterBecomes
    <3>2. Held(iob'[stdout]) = <<>>
      BY <1>1
    <3>3. QED
      BY <3>1, <3>2, ConcatEmptySeq
  <2>4. QED
    BY <2>1, <2>3, ShownIf
<1>2. CASE ~Writes(stdout)
  <2>1. Mode(stdout) # "w"
    BY <1>2 DEF Mode
  <2>2. QED
    BY <2>1, ShownIf
<1>3. QED
  BY <1>1, <1>2

(* One g_getc(), whose call has shown stdout. *)
LEMMA GetcGets ==
  ASSUME StreamsOK, BufferInFile, NEW s \in Slots, Reads(s), NEW r \in g_getc(iob[s]),
         NEW f, Becomes(iob[stdout], f, file), Quiet(stdout, f), f = NoSync \/ s = stdin,
         s = stdin /\ Writes(stdout) => Held(f.g) = <<>>,
         Do(s, r, f), last' = <<s, r.ret>>, KeepsOver
  PROVE  BufferInFile' /\ Std!Get(s) /\ (s # stdout => iob'[stdout] = f.g)
<1>1. /\ Mode(s) = "r" /\ Place(s) = Pos(iob[s]) /\ iob[s] \in Records
      /\ iob[s].name \in Names /\ file[iob[s].name] \in Seq(Nat)
      /\ ReaderOK(iob[s], file[iob[s].name])
      /\ \A n \in Names : n = iob[s].name => View(n) = file[n]
  BY ReaderIs
<1>2. StreamOK(iob[s], file)
  BY DEF StreamsOK, StreamsAre
<1>3. Becomes(iob[s], r, file) /\ Served(iob[s], r, file[iob[s].name])
  BY <1>1, <1>2, GetcBecomes DEF Reads
<1>4. InFile(iob[s], file[iob[s].name])
  BY DEF BufferInFile
<1>5. Yields(iob[s], r, file[iob[s].name])
  BY <1>1, <1>4, GetcYields
<1>6. /\ r.out = <<>> /\ "READ" \in r.g.flag /\ r.g.name = iob[s].name
      /\ InFile(r.g, file[iob[s].name])
  BY <1>3, <1>5 DEF Served, ReaderOK, InputFlags, Yields
<1>7. /\ StreamsOK' /\ BufferInFile' /\ iob'[s] = r.g
      /\ Std!Stays(s) /\ Std!Others(s, {})
      /\ Place(s)' = Pos(r.g)
      /\ (s \in trouble' <=> s \in trouble \/ r.bad)
      /\ s # stdout => iob'[stdout] = f.g
  BY <1>3, <1>6, ReaderStep
<1>8. s = stdin => Std!Shown
  BY <1>7, Bounds, ShownWhenNothingHeld
<1>9. "ERR" \in iob[s].flag => s \in trouble
  BY DEF StreamsOK, StreamsAre
<1>10. PICK n \in Names : n = iob[s].name
  BY <1>1
<1>11. View(n) = file[n]
  BY <1>1, <1>10
<1>12. \/ /\ Place(s) < Len(View(n)) /\ Place(s)' = Place(s) + 1
          /\ last' = <<s, View(n)[Place(s)']>>
          /\ Ended(s)' = Ended(s) /\ (s \in trouble' <=> s \in trouble)
       \/ /\ Place(s) >= Len(View(n)) /\ Place(s)' = Place(s) /\ last' = <<s, EOF>>
          /\ Ended(s)' /\ (s \in trouble' <=> s \in trouble)
       \/ /\ Place(s)' = Place(s) /\ last' = <<s, EOF>>
          /\ Ended(s)' = Ended(s) /\ s \in trouble'
  <2>1. (Ended(s) <=> "EOF" \in iob[s].flag) /\ (Ended(s)' <=> "EOF" \in r.g.flag)
    BY <1>7 DEF Ended
  <2>2. ("EOF" \in r.g.flag <=> "EOF" \in iob[s].flag) => (Ended(s)' = Ended(s))
    BY <1>7 DEF Ended
  <2>3. CASE /\ Pos(iob[s]) < Len(file[n]) /\ Pos(r.g) = Pos(iob[s]) + 1
             /\ r.ret = file[n][Pos(iob[s]) + 1]
             /\ ("EOF" \in r.g.flag <=> "EOF" \in iob[s].flag) /\ ~r.bad
    BY <1>1, <1>7, <1>11, <2>2, <2>3
  <2>4. CASE /\ Pos(iob[s]) >= Len(file[n]) /\ Pos(r.g) = Pos(iob[s]) /\ r.ret = EOF
             /\ "EOF" \in r.g.flag /\ ~r.bad
    BY <1>1, <1>7, <1>11, <2>1, <2>4
  <2>5. CASE /\ Pos(r.g) = Pos(iob[s]) /\ r.ret = EOF
             /\ ("EOF" \in r.g.flag <=> "EOF" \in iob[s].flag)
             /\ r.bad \/ "ERR" \in iob[s].flag
    BY <1>1, <1>7, <1>9, <2>2, <2>5
  <2>6. QED
    BY <1>5, <1>10, <2>3, <2>4, <2>5 DEF Yields
<1>13. Std!Get(s)
  BY <1>1, <1>7, <1>8, <1>10, <1>12, GetIf
<1>14. QED
  BY <1>7, <1>13

(* A call on a stream that is written touches no other. *)
LEMMA WriterStep ==
  ASSUME StreamsOK, BufferInFile, NEW s \in Slots, Writes(s), NEW r,
         Becomes(iob[s], r, file), "WRITE" \in r.g.flag, r.g.name = iob[s].name,
         Do(s, r, NoSync), KeepsOver, NEW n \in Names, n = iob[s].name
  PROVE  /\ StreamsOK' /\ BufferInFile' /\ Std!Stays(s) /\ Std!Others(s, {n})
         /\ Mode(s) = "w" /\ Place(s)' = Place(s) /\ ~Ended(s) /\ ~Ended(s)'
         /\ View(n) = file[n] \o Held(iob[s]) /\ View(n)' = file'[n] \o Held(r.g)
         /\ file[n] \in Seq(Nat) /\ iob[s] \in Records /\ r.g \in Records
         /\ file'[n] = file[n] \o r.out
         /\ (s \in trouble' <=> s \in trouble \/ r.bad)
         /\ iob'[s] = r.g /\ (s # stdout => iob'[stdout] = iob[stdout])
<1>0. /\ Quiet(stdout, NoSync) /\ Becomes(iob[stdout], NoSync, file)
      /\ NoSync.g = iob[stdout]
  <2>1. Quiet(stdout, NoSync)
    BY NothingIs DEF Quiet
  <2>2. QED
    BY <2>1, NoSyncBecomes
<1>1. /\ StreamsOK' /\ Became(s, r)
      /\ s # stdout => Became(stdout, NoSync)
      /\ \A t \in Slots \ {s, stdout} : Became(t, Nothing(t))
      /\ \A m \in Names : (\A t \in Slots : iob[t].name # m) => file'[m] = file[m]
  BY <1>0, DoIs
<1>2. /\ iob'[s] = r.g /\ (s \in trouble' <=> s \in trouble \/ r.bad)
      /\ s # stdout => iob'[stdout] = iob[stdout]
  BY <1>0, <1>1 DEF Became
<1>3. /\ Mode(s) = "w" /\ Place(s) = 0 /\ ~Ended(s)
      /\ iob[s] \in Records /\ file[n] \in Seq(Nat)
      /\ View(n) = file[n] \o Held(iob[s])
  BY WriterIs
<1>4. Writes(s)' /\ n = iob'[s].name
  BY <1>2 DEF Writes
<1>5. /\ Mode(s)' = "w" /\ Place(s)' = 0 /\ ~Ended(s)'
      /\ iob'[s] \in Records /\ View(n)' = file'[n] \o Held(iob'[s])
  BY <1>1, <1>4, WriterBecomes
<1>6. file'[n] = file[n] \o r.out
  BY <1>1, <1>3 DEF Became
<1>7. Std!Stays(s)
  BY <1>2, <1>3, <1>5, StaysIf
<1>8. \A t \in Slots \ {s} : \E q : Became(t, q) /\ Quiet(t, q)
  BY <1>0, <1>1, OthersQuiet
<1>9. Std!Others(s, {n})
  <2>1. \A m \in Names : (\A t \in Slots : iob[t].name # m) => m \in {n} \/ file'[m] = file[m]
    BY <1>1
  <2>2. s \in Slots => \/ iob'[s].name \in {n} \cup {NoFile}
                       \/ iob'[s].name = iob[s].name
    BY <1>4
  <2>3. s \in Slots => \/ iob[s].name \in {n} \cup {NoFile}
                       \/ /\ iob'[s].name = iob[s].name /\ ~Writes(s) /\ ~Writes(s)'
                          /\ file'[iob[s].name] = file[iob[s].name]
    OBVIOUS
  <2>4. QED
    BY <1>1, <1>8, <2>1, <2>2, <2>3, OthersAre
<1>10. BufferInFile'
  <2>1. ~Reads(s)'
    BY <1>5 DEF Mode
  <2>2. QED
    BY <1>1, <1>8, <2>1, StillInFile
<1>11. QED
  BY <1>1, <1>2, <1>3, <1>5, <1>6, <1>7, <1>9, <1>10

(* g_putc(), and a turn of g_puts(). *)
LEMMA PutcPuts ==
  ASSUME StreamsOK, BufferInFile, NEW s \in Slots, Writes(s), NEW khar \in Nat,
         NEW r \in g_putc(khar, iob[s]), Do(s, r, NoSync), last' = <<s, r.ret>>, KeepsOver
  PROVE  BufferInFile' /\ Std!Put(s, khar)
<1>1. iob[s] \in Records /\ StreamOK(iob[s], file) /\ "WRITE" \in iob[s].flag
  BY DEF StreamsOK, StreamsAre, Writes
<1>2. Becomes(iob[s], r, file) /\ "WRITE" \in r.g.flag
  BY <1>1, PutcBecomes
<1>3. /\ iob[s].name \in Names /\ file[iob[s].name] \in Seq(Nat)
      /\ WriterOK(iob[s], file[iob[s].name])
  BY <1>1, OutputIs
<1>4. r.g.name = iob[s].name
  BY <1>1, <1>3, PutcDelivers DEF Delivered
<1>5. Added(iob[s], r, khar) \/ GaveUp(iob[s], r)
  BY <1>1, <1>3, PutcAdds
<1>6. PICK n \in Names : n = iob[s].name
  BY <1>3
<1>7. /\ StreamsOK' /\ BufferInFile' /\ Std!Stays(s) /\ Std!Others(s, {n})
      /\ Mode(s) = "w" /\ Place(s)' = Place(s) /\ ~Ended(s) /\ ~Ended(s)'
      /\ View(n) = file[n] \o Held(iob[s]) /\ View(n)' = file'[n] \o Held(r.g)
      /\ file[n] \in Seq(Nat) /\ iob[s] \in Records /\ r.g \in Records
      /\ file'[n] = file[n] \o r.out
      /\ (s \in trouble' <=> s \in trouble \/ r.bad)
  <2>1. StreamsOK' /\ BufferInFile' /\ Std!Stays(s) /\ Std!Others(s, {n})
    BY <1>2, <1>4, <1>6, WriterStep
  <2>2. Mode(s) = "w" /\ Place(s)' = Place(s) /\ ~Ended(s) /\ ~Ended(s)'
    BY <1>2, <1>4, <1>6, WriterStep
  <2>3. View(n)' = file'[n] \o Held(r.g)
    BY <1>2, <1>4, <1>6, WriterStep
  <2>4. /\ file[n] \in Seq(Nat) /\ iob[s] \in Records /\ r.g \in Records
        /\ file'[n] = file[n] \o r.out
    BY <1>2, <1>4, <1>6, WriterStep
  <2>5. s \in trouble' <=> s \in trouble \/ r.bad
    BY <1>2, <1>4, <1>6, WriterStep
  <2>6. View(n) = file[n] \o Held(iob[s])
    BY <1>6, WriterIs
  <2>7. QED
    BY <2>1, <2>2, <2>3, <2>4, <2>5, <2>6
<1>a. Ended(s)' = Ended(s)
  BY <1>7 DEF Ended
<1>8. PICK f \in Seq(Nat), h \in Seq(Nat), d \in {file'[n]} :
        f = file[n] /\ h = Held(iob[s]) /\ d = file'[n]
  BY <1>7, HeldIs
<1>9. <<>> \in Seq(Nat) /\ f \o <<>> = f /\ <<khar>> \in Seq(Nat)
  BY EmptySeq, ConcatEmptySeq
<1>10. CASE Added(iob[s], r, khar)
  <2>1. View(n)' = Append(View(n), khar)
    <3>1. CASE r.out = <<>> /\ Held(r.g) = Append(h, khar)
      <4>1. View(n)' = f \o Append(h, khar)
        BY <1>7, <1>8, <1>9, <3>1
      <4>2. f \o Append(h, khar) = Append(f \o h, khar)
        OBVIOUS
      <4>3. QED
        BY <1>7, <1>8, <4>1, <4>2
    <3>2. CASE r.out = h /\ Held(r.g) = <<khar>>
      <4>1. View(n)' = (f \o h) \o <<khar>>
        BY <1>7, <1>8, <3>2
      <4>2. (f \o h) \o <<khar>> = Append(f \o h, khar)
        OBVIOUS
      <4>3. QED
        BY <1>7, <1>8, <4>1, <4>2
    <3>3. QED
      BY <1>8, <1>10, <3>1, <3>2 DEF Added
  <2>2. \E k \in Len(file[n]) .. Len(View(n)') : file'[n] = SubSeq(View(n)', 1, k)
    <3>1. PICK g2 \in Records : g2 = r.g
      BY <1>7
    <3>2. d \in Seq(Nat)
      <4>1. r.out \in Seq(Nat)
        BY <1>2 DEF Becomes
      <4>2. QED
        BY <1>7, <1>8, <4>1
    <3>3. PICK q \in Seq(Nat) : q = Held(r.g)
      BY <3>1, HeldIs
    <3>4. View(n)' = d \o q /\ d \in Seq(Nat)
      BY <1>7, <1>8, <3>2, <3>3
    <3>5. 0 \in 0 .. Len(q) /\ SubSeq(q, 1, 0) = <<>> /\ d \o <<>> = d
      BY <3>1, <3>2, <3>3, HeldIs, ConcatEmptySeq
    <3>6. Len(d) + 0 \in Len(d) .. Len(d \o q) /\ SubSeq(d \o q, 1, Len(d) + 0) = d
      BY <3>2, <3>5, PrefixIs
    <3>7. Len(f) <= Len(d)
      <4>1. PICK o \in Seq(Nat) : o = r.out
        BY <1>2 DEF Becomes
      <4>2. d = f \o o
        BY <1>7, <1>8, <4>1
      <4>3. QED
        BY <4>2
    <3>8. Len(f) \in Nat /\ Len(d) \in Nat
      BY <3>2
    <3>9. Len(d) + 0 \in Len(f) .. Len(d \o q)
      BY <3>6, <3>7, <3>8
    <3>10. QED
      BY <1>8, <3>4, <3>6, <3>9
  <2>3. (s \in trouble' <=> s \in trouble) /\ last' = <<s, khar>>
    BY <1>7, <1>10 DEF Added
  <2>4. Std!Put(s, khar)
    BY <1>6, <1>7, <1>a, <2>1, <2>2, <2>3, PutIf
  <2>5. QED
    BY <1>7, <2>4
<1>11. CASE GaveUp(iob[s], r)
  <2>1. Held(r.g) = <<>> /\ r.ret = EOF /\ (r.bad \/ "ERR" \in iob[s].flag)
    BY <1>11 DEF GaveUp
  <2>2. s \in trouble'
    BY <1>7, <2>1 DEF StreamsOK, StreamsAre
  <2>3. \E j \in 0 .. Len(Held(iob[s])) : r.out = SubSeq(Held(iob[s]), 1, j)
    BY <1>11 DEF GaveUp
  <2>4. \E k \in Len(file[n]) .. Len(View(n)) : file'[n] = SubSeq(View(n), 1, k)
    <3>1. PICK q \in Seq(Nat) : q = Held(iob[s])
      BY <1>7, HeldIs
    <3>2. PICK j \in 0 .. Len(q) : r.out = SubSeq(q, 1, j)
      BY <2>3, <3>1
    <3>3. /\ Len(f) + j \in Len(f) .. Len(f \o q)
          /\ SubSeq(f \o q, 1, Len(f) + j) = f \o SubSeq(q, 1, j)
      BY PrefixIs
    <3>4. View(n) = f \o q /\ file'[n] = f \o SubSeq(q, 1, j)
      BY <1>7, <1>8, <3>1, <3>2
    <3>5. QED
      BY <1>8, <3>3, <3>4
  <2>5. View(n)' = file'[n]
    <3>1. file'[n] \in Seq(Nat)
      <4>1. r.out \in Seq(Nat)
        BY <1>2 DEF Becomes
      <4>2. QED
        BY <1>7, <4>1
    <3>2. QED
      BY <1>7, <2>1, <3>1, ConcatEmptySeq
  <2>6. last' = <<s, EOF>>
    BY <2>1
  <2>7. Std!Put(s, khar)
    BY <1>6, <1>7, <1>a, <2>2, <2>4, <2>5, <2>6, PutIf
  <2>8. QED
    BY <1>7, <2>7
<1>12. QED
  BY <1>5, <1>10, <1>11

-----------------------------------------------------------------------------
(* The steps of Streams. *)
LEMMA StepOf ==
  ASSUME NEW s \in Slots,
         \/ Std!Get(s) \/ Std!Flush(s) \/ Std!Seek(s) \/ Std!Close(s)
         \/ \E n \in Names : Std!Open(s, n)
         \/ \E c \in UNION {1 .. p.puts : p \in Programs} : Std!Put(s, c)
  PROVE  Std!Next
BY Zenon DEF Std!Next

(* What g_profflush() has passed is written out, or given up, or full. *)
Behind(g) == "WRITE" \in g.flag => Held(g) = <<>> \/ FullBuffer(g)
WrittenBelow ==
  call.op = "profflush" => \A t \in Slots : t < call.slot => Behind(iob[t])

(* A call with no loop, and g_read() that has not begun. *)
LEMMA NotReading ==
  ASSUME call'.op \notin {"read", "profflush"}
  PROVE  ReadShown' /\ WrittenBelow'
BY DEF ReadShown, WrittenBelow

RInv == BufferInFile /\ ReadShown /\ WrittenBelow

(* What Streams allows, with the two exceptions of the code. *)
StdStep == Std!Next \/ ExitWithFull \/ \E s \in Slots : SeekFromStart(s)

(* g_getc() is a Get. *)
LEMMA RefGetc ==
  ASSUME IInv, RInv, NEW s \in Slots, Getc(s)
  PROVE  RInv' /\ Std!Next
<1>1. PICK r \in g_getc(iob[s]), f \in Sync(s) : Do(s, r, f) /\ last' = <<s, r.ret>>
  BY DEF Getc
<1>2. StreamsOK /\ BufferInFile /\ Reads(s) /\ call.op = "idle" /\ call' = call
  BY DEF IInv, RInv, Getc, Ready
<1>3. /\ Quiet(stdout, f) /\ Becomes(iob[stdout], f, file)
      /\ f = NoSync \/ s = stdin
      /\ s = stdin /\ Writes(stdout) => Held(f.g) = <<>>
  BY <1>2, SyncIs
<1>4. BufferInFile' /\ Std!Get(s)
  BY <1>1, <1>2, <1>3, GetcGets, NotOver
<1>5. QED
  BY <1>2, <1>4, StepOf, NotReading DEF RInv

(* A character the caller puts is one of Bytes. *)
LEMMA BytesAre ==
  ASSUME RestOK, puts + 1 <= program.puts
  PROVE  puts + 1 \in Nat /\ puts + 1 \in UNION {1 .. p.puts : p \in Programs}
<1>1. puts \in Nat /\ program \in Programs /\ program.puts \in Nat
  BY ConstantsAssumption DEF RestOK
<1>2. puts + 1 \in 1 .. program.puts
  BY <1>1
<1>3. QED
  BY <1>1, <1>2

(* g_putc() is a Put. *)
LEMMA RefPutc ==
  ASSUME IInv, RInv, NEW s \in Slots, Putc(s)
  PROVE  RInv' /\ Std!Next
<1>1. /\ StreamsOK /\ BufferInFile /\ RestOK /\ Writes(s) /\ call.op = "idle" /\ call' = call
      /\ puts < program.puts /\ puts' = puts + 1
  BY DEF IInv, RInv, Putc, Ready
<1>2. puts + 1 <= program.puts
  BY <1>1, ConstantsAssumption DEF RestOK
<1>3. PICK c \in Nat : c = puts' /\ c \in UNION {1 .. p.puts : p \in Programs}
  BY <1>1, <1>2, BytesAre
<1>4. PICK r \in g_putc(c, iob[s]) : Do(s, r, NoSync) /\ last' = <<s, r.ret>>
  BY <1>3 DEF Putc
<1>5. BufferInFile' /\ Std!Put(s, c)
  BY <1>1, <1>4, PutcPuts, NotOver
<1>6. QED
  BY <1>1, <1>3, <1>5, StepOf, NotReading DEF RInv

(* A turn of g_puts() is a Put. *)
LEMMA RefPutsTurn ==
  ASSUME IInv, RInv, PutsTurn
  PROVE  RInv' /\ Std!Next
<1>1. /\ StreamsOK /\ BufferInFile /\ RestOK /\ CallOK /\ call.op = "puts"
      /\ puts' = puts + 1
      /\ call' = IF call.left = 1 THEN Idle ELSE [call EXCEPT !.left = @ - 1]
  BY DEF IInv, RInv, PutsTurn
<1>2. /\ call \in Calls /\ call.slot \in Slots /\ call.left \in Int
      /\ Writes(call.slot) /\ call.left >= 1 /\ puts + call.left <= program.puts
  BY <1>1, CallIs DEF CallOK, PutsOK
<1>3. puts + 1 <= program.puts
  <2>1. puts \in Nat /\ program.puts \in Nat
    BY <1>1, ConstantsAssumption DEF RestOK
  <2>2. PICK l \in Int : l = call.left
    BY <1>2
  <2>3. QED
    BY <1>2, <2>1, <2>2
<1>4. PICK c \in Nat : c = puts' /\ c \in UNION {1 .. p.puts : p \in Programs}
  BY <1>1, <1>3, BytesAre
<1>5. PICK s \in Slots : s = call.slot
  BY <1>2
<1>6. PICK r \in g_putc(c, iob[s]) : Do(s, r, NoSync) /\ last' = <<s, r.ret>>
  BY <1>4, <1>5 DEF PutsTurn
<1>8. call'.op \notin {"read", "profflush", "flushed"}
  <2>1. CASE call.left = 1
    BY <1>1, <2>1, IdleIs
  <2>2. CASE call.left # 1
    BY <1>1, <1>2, <2>2 DEF Calls
  <2>3. QED
    BY <2>1, <2>2
<1>7. BufferInFile' /\ Std!Put(s, c)
  BY <1>1, <1>2, <1>5, <1>6, <1>8, NotOver, PutcPuts
<1>9. QED
  BY <1>4, <1>7, <1>8, StepOf, NotReading DEF RInv

(* g_flush() is a Flush. *)
LEMMA RefFlush ==
  ASSUME IInv, RInv, NEW s \in Slots, Flush(s)
  PROVE  RInv' /\ Std!Next
<1>1. PICK r \in g_flushbuf(-1, iob[s]) : Do(s, r, NoSync)
  BY DEF Flush
<1>2. /\ StreamsOK /\ BufferInFile /\ Writes(s) /\ call.op = "idle" /\ call' = call
      /\ last' = last
  BY DEF IInv, RInv, Flush, Ready
<1>3. /\ Becomes(iob[s], r, file) /\ Held(r.g) = <<>> /\ r.g.name = iob[s].name
      /\ "WRITE" \in r.g.flag
      /\ WroteAll(iob[s], r) \/ GaveUp(iob[s], r)
  BY <1>2, FlushIsQuiet
<1>4. PICK n \in Names : n = iob[s].name
  BY <1>2, WriterIs
<1>5. /\ StreamsOK' /\ BufferInFile' /\ Std!Stays(s) /\ Std!Others(s, {n})
      /\ Mode(s) = "w" /\ Place(s)' = Place(s) /\ ~Ended(s) /\ ~Ended(s)'
  BY <1>1, <1>2, <1>3, <1>4, NotOver, WriterStep
<1>6. /\ file[n] \in Seq(Nat) /\ iob[s] \in Records
      /\ file'[n] = file[n] \o r.out
      /\ s \in trouble' <=> s \in trouble \/ r.bad
  BY <1>1, <1>2, <1>3, <1>4, NotOver, WriterStep
<1>7. View(n)' = file'[n] \o Held(r.g)
  BY <1>1, <1>2, <1>3, <1>4, NotOver, WriterStep
<1>8. View(n) = file[n] \o Held(iob[s])
  BY <1>2, <1>4, WriterIs
<1>9. PICK f \in Seq(Nat), q \in Seq(Nat) : f = file[n] /\ q = Held(iob[s])
  BY <1>6, HeldIs
<1>10. PICK j \in 0 .. Len(q) :
          /\ r.out = SubSeq(q, 1, j)
          /\ (r.out = q /\ ~r.bad) \/ r.bad \/ "ERR" \in iob[s].flag
  <2>1. Len(q) \in 0 .. Len(q) /\ q = SubSeq(q, 1, Len(q))
    BY <1>6, <1>9, HeldIs
  <2>2. QED
    BY <1>3, <1>9, <2>1 DEF WroteAll, GaveUp
<1>11. /\ Len(f) + j \in Len(f) .. Len(f \o q)
       /\ SubSeq(f \o q, 1, Len(f) + j) = f \o SubSeq(q, 1, j)
  BY PrefixIs
<1>12. \E k \in Len(file[n]) .. Len(View(n)) : file'[n] = SubSeq(View(n), 1, k)
  BY <1>6, <1>8, <1>9, <1>10, <1>11
<1>13. View(n)' = file'[n]
  <2>1. file'[n] \in Seq(Nat)
    BY <1>3, <1>6 DEF Becomes
  <2>2. QED
    BY <1>3, <1>7, <2>1, ConcatEmptySeq
<1>14. \/ View(n)' = View(n) /\ (s \in trouble' <=> s \in trouble)
       \/ s \in trouble'
  <2>1. CASE r.out = q /\ ~r.bad
    BY <1>6, <1>8, <1>9, <1>13, <2>1
  <2>2. CASE r.bad
    BY <1>6, <2>2
  <2>3. CASE "ERR" \in iob[s].flag
    BY <1>2, <1>6, <2>3 DEF StreamsOK, StreamsAre
  <2>4. QED
    BY <1>10, <2>1, <2>2, <2>3
<1>15. Ended(s)' = Ended(s)
  BY <1>5 DEF Ended
<1>16. Std!Flush(s)
  BY <1>2, <1>4, <1>5, <1>12, <1>13, <1>14, <1>15, FlushIf
<1>17. QED
  BY <1>2, <1>5, <1>16, StepOf, NotReading DEF RInv

(* g_seek() is a Seek. *)
LEMMA RefSeek ==
  ASSUME IInv, RInv, NEW s \in Slots, NEW o \in Offsets, NEW w, Seek(s, o, w)
  PROVE  RInv' /\ StdStep
<1>1. PICK r \in g_seek(iob[s], o, w) : Do(s, r, NoSync)
  BY DEF Seek
<1>2. /\ StreamsOK /\ BufferInFile /\ Reads(s) /\ call.op = "idle" /\ call' = call
      /\ last' = last /\ o \in Int
  BY ConstantsAssumption DEF IInv, RInv, Seek, Ready
<1>3. /\ iob[s] \in Records /\ iob[s].name \in Names /\ file[iob[s].name] \in Seq(Nat)
      /\ ReaderOK(iob[s], file[iob[s].name]) /\ Place(s) = Pos(iob[s])
  BY <1>2, ReaderIs
<1>4. StreamOK(iob[s], file) /\ "READ" \in iob[s].flag
  BY <1>2 DEF StreamsOK, StreamsAre, Reads
<1>5. Becomes(iob[s], r, file)
  BY <1>2, <1>3, <1>4, SeekBecomes
<1>6. Sent(iob[s], r, file[iob[s].name])
  BY <1>2, <1>3, SeekSent
<1>7. InFile(iob[s], file[iob[s].name])
  BY <1>2 DEF BufferInFile
<1>8. Moves(iob[s], r, file[iob[s].name], o)
  BY <1>2, <1>3, <1>7, SeekMoves
<1>9. /\ r.out = <<>> /\ "READ" \in r.g.flag /\ r.g.name = iob[s].name
      /\ InFile(r.g, file[iob[s].name])
  BY <1>6, <1>8 DEF Sent, ReaderOK, InputFlags, Moves
<1>10. /\ Quiet(stdout, NoSync) /\ Becomes(iob[stdout], NoSync, file)
  <2>1. Quiet(stdout, NoSync)
    BY NothingIs DEF Quiet
  <2>2. QED
    BY <1>2, <2>1, NoSyncBecomes
<1>11. /\ StreamsOK' /\ BufferInFile' /\ iob'[s] = r.g
       /\ Std!Stays(s) /\ Std!Others(s, {})
       /\ Mode(s) = "r" /\ Place(s)' = Pos(r.g)
       /\ (s \in trouble' <=> s \in trouble \/ r.bad)
  BY <1>1, <1>2, <1>5, <1>9, <1>10, NotOver, ReaderStep
<1>12. Pos(r.g) >= 0
  <2>1. PICK g \in Records : g = r.g
    BY <1>6 DEF Sent
  <2>2. Filled(g)
    BY <1>6, <2>1 DEF Sent, ReaderOK
  <2>3. Pos(g) \in Nat
    BY <2>2, FieldsOf DEF Filled, Pos, Unread
  <2>4. QED
    BY <2>1, <2>3
<1>13. PICK from : from = IF Ended(s) THEN 0 ELSE Place(s)
  OBVIOUS
<1>14. From(iob[s]) = from
  BY <1>3, <1>13 DEF From, Ended
<1>15. "ERR" \in iob[s].flag => s \in trouble
  BY <1>2 DEF StreamsOK, StreamsAre
<1>16. \/ /\ \E k \in Offsets : Place(s)' = k \/ Place(s)' = from + k
          /\ Place(s)' >= 0 /\ ~Ended(s)' /\ (s \in trouble' <=> s \in trouble)
       \/ /\ \/ Place(s)' = Place(s) /\ Ended(s)' = Ended(s)
             \/ Place(s)' = from /\ ~Ended(s)'
          /\ s \in trouble'
  <2>1. (Ended(s) <=> "EOF" \in iob[s].flag) /\ (Ended(s)' <=> "EOF" \in r.g.flag)
    BY <1>11 DEF Ended
  <2>2. ("EOF" \in r.g.flag <=> "EOF" \in iob[s].flag) => (Ended(s)' = Ended(s))
    BY <1>11 DEF Ended
  <2>3. CASE /\ Pos(r.g) = o \/ Pos(r.g) = From(iob[s]) + o
             /\ "EOF" \notin r.g.flag /\ ~r.bad
    BY <1>11, <1>12, <1>14, <2>1, <2>3
  <2>4. CASE /\ Pos(r.g) = Pos(iob[s]) /\ ("EOF" \in r.g.flag <=> "EOF" \in iob[s].flag)
             /\ r.bad \/ "ERR" \in iob[s].flag
    BY <1>3, <1>11, <1>15, <2>2, <2>4
  <2>5. CASE /\ Pos(r.g) = From(iob[s]) /\ "EOF" \notin r.g.flag
             /\ r.bad \/ "ERR" \in iob[s].flag
    BY <1>11, <1>14, <1>15, <2>1, <2>5
  <2>6. QED
    BY <1>8, <2>3, <2>4, <2>5 DEF Moves
<1>17. Std!Seek(s) \/ SeekFromStart(s)
  BY <1>2, <1>11, <1>13, <1>16, SeekIf
<1>18. StdStep
  BY <1>17, StepOf, Zenon DEF StdStep
<1>19. QED
  BY <1>2, <1>11, <1>18, NotReading DEF RInv

-----------------------------------------------------------------------------
(* A step in which every stream is left to itself. *)
LEMMA AllQuiet ==
  ASSUME StreamsOK, BufferInFile, NEW s \in Slots, NEW r, NEW f,
         Becomes(iob[s], r, file), Quiet(s, r),
         Becomes(iob[stdout], f, file), Quiet(stdout, f),
         f = NoSync \/ (s = stdin /\ r.out = <<>>), Do(s, r, f), last' = last
  PROVE  BufferInFile' /\ Std!Others(Std!Nobody, {}) /\ (s # stdout => iob'[stdout] = f.g)
<1>1. /\ StreamsOK' /\ Became(s, r)
      /\ s # stdout => Became(stdout, f)
      /\ \A t \in Slots \ {s, stdout} : Became(t, Nothing(t))
      /\ \A n \in Names : (\A t \in Slots : iob[t].name # n) => file'[n] = file[n]
  BY DoIs
<1>2. Std!Nobody \notin Slots
  BY DEF Std!Nobody, Slots
<1>3. \A t \in Slots \ {Std!Nobody} : \E q : Became(t, q) /\ Quiet(t, q)
  <2>1. \A t \in Slots \ {s} : \E q : Became(t, q) /\ Quiet(t, q)
    BY <1>1, OthersQuiet
  <2>2. QED
    BY <1>1, <2>1
<1>4. Std!Others(Std!Nobody, {})
  <2>1. \A n \in Names : (\A t \in Slots : iob[t].name # n) => n \in {} \/ file'[n] = file[n]
    BY <1>1
  <2>2. PICK z : z = Std!Nobody
    OBVIOUS
  <2>3. Std!Others(z, {})
    BY <1>1, <1>2, <1>3, <2>1, <2>2, OthersAre
  <2>4. QED
    BY <2>2, <2>3, Zenon DEF Std!Others
<1>5. BufferInFile'
  BY <1>1, <1>2, <1>3, StillInFile
<1>6. QED
  BY <1>1, <1>4, <1>5 DEF Became

(* Such a step before the program is over is a Write. *)
LEMMA QuietIsWrite ==
  ASSUME Std!Others(Std!Nobody, {}), last' = last, KeepsOver
  PROVE  Std!Next
BY Zenon DEF Std!Next, Std!Write, KeepsOver, Std!Others

(* g_gets() and g_read() begin: stdout is flushed for stdin. *)
LEMMA BeginRefines ==
  ASSUME IInv, RInv, NEW s \in Slots, NEW f \in Sync(s), Do(s, Nothing(s), f), last' = last, KeepsOver
  PROVE  /\ BufferInFile' /\ Std!Next
         /\ s = stdin /\ Writes(stdout)' => Held(iob'[stdout]) = <<>>
<1>1. StreamsOK /\ BufferInFile
  BY DEF IInv, RInv
<1>2. /\ Quiet(stdout, f) /\ Becomes(iob[stdout], f, file)
      /\ f = NoSync \/ s = stdin
      /\ s = stdin /\ Writes(stdout) => Held(f.g) = <<>>
  BY <1>1, SyncIs
<1>3. Nothing(s).g = iob[s] /\ Nothing(s).out = <<>> /\ ~Nothing(s).bad
  BY NothingIs
<1>4. Quiet(s, Nothing(s))
  BY <1>3 DEF Quiet
<1>5. Becomes(iob[s], Nothing(s), file)
  <2>1. iob[s] \in Records /\ StreamOK(iob[s], file)
    BY <1>1 DEF StreamsOK, StreamsAre
  <2>2. QED
    BY <1>3, <2>1, SameBecomes
<1>6. /\ BufferInFile' /\ Std!Others(Std!Nobody, {})
      /\ s # stdout => iob'[stdout] = f.g
  BY <1>1, <1>2, <1>3, <1>4, <1>5, AllQuiet
<1>a. Std!Next
  BY <1>6, QuietIsWrite
<1>7. ASSUME s = stdin, Writes(stdout)' PROVE Held(iob'[stdout]) = <<>>
  <2>1. iob'[stdout] = f.g
    BY <1>6, <1>7, Bounds
  <2>2. Writes(stdout)
    BY <1>2, <1>7, <2>1 DEF Quiet, Writes
  <2>3. QED
    BY <1>2, <1>7, <2>1, <2>2
<1>8. QED
  BY <1>6, <1>a, <1>7

(* g_gets() begins by writing out stdout, if it reads stdin. *)
LEMMA RefGets ==
  ASSUME IInv, RInv, NEW s \in Slots, NEW max, Gets(s, max)
  PROVE  RInv' /\ Std!Next
<1>1. PICK f \in Sync(s) : Do(s, Nothing(s), f)
  BY DEF Gets
<1>2. last' = last /\ call'.op = "gets" /\ call.op = "idle"
  BY DEF Gets, Begin, Ready
<1>3. QED
  BY <1>1, <1>2, NotOver, BeginRefines, NotReading DEF RInv

(* g_read() begins by writing out stdout, if it reads stdin, and no turn
   of it does so again. *)
LEMMA RefRead ==
  ASSUME IInv, RInv, NEW s \in Slots, NEW z, NEW n, Read(s, z, n)
  PROVE  RInv' /\ Std!Next
<1>1. PICK f \in Sync(s) : Do(s, Nothing(s), f)
  BY DEF Read
<1>2. last' = last /\ call'.slot = s /\ call'.op = "read" /\ call.op = "idle"
  BY DEF Read, Begin, Ready
<1>3. /\ BufferInFile' /\ Std!Next
      /\ s = stdin /\ Writes(stdout)' => Held(iob'[stdout]) = <<>>
  BY <1>1, <1>2, NotOver, BeginRefines
<1>4. ReadShown' /\ WrittenBelow'
  BY <1>2, <1>3 DEF ReadShown, WrittenBelow, Writes
<1>5. QED
  BY <1>3, <1>4 DEF RInv

(* A turn of g_profflush() leaves its stream written out, or given up, or   *)
(* passes over it, full as it is; the other streams it leaves alone.        *)
LEMMA TurnFlushes ==
  ASSUME IInv, NEW s \in Slots, s = call.slot,
         NEW r \in IF ToBeFlushed(iob[s]) THEN g_flushbuf(-1, iob[s]) ELSE {Nothing(s)},
         Do(s, r, NoSync)
  PROVE  /\ iob'[s] = r.g /\ \A t \in Slots \ {s} : iob'[t] = iob[t]
         /\ "WRITE" \in r.g.flag =>
              Held(r.g) = <<>> \/ (r.g = iob[s] /\ FullBuffer(iob[s]))
<1>1. StreamsOK /\ iob \in [Slots -> Records] /\ StreamOK(iob[s], file)
  BY DEF IInv, StreamsOK, StreamsAre
<1>2. iob' = [[iob EXCEPT ![stdout] = NoSync.g] EXCEPT ![s] = r.g] /\ NoSync.g = iob[stdout]
  BY NothingIs DEF Do
<1>3. iob'[s] = r.g /\ \A t \in Slots \ {s} : iob'[t] = iob[t]
  BY <1>1, <1>2
<1>4. ASSUME "WRITE" \in r.g.flag
      PROVE  Held(r.g) = <<>> \/ (r.g = iob[s] /\ FullBuffer(iob[s]))
  <2>1. CASE ToBeFlushed(iob[s])
    <3>1. r \in g_flushbuf(-1, iob[s]) /\ Writes(s)
      BY <2>1 DEF ToBeFlushed, Writes
    <3>2. QED
      BY <1>1, <3>1, FlushIsQuiet
  <2>2. CASE ~ToBeFlushed(iob[s])
    <3>1. r.g = iob[s]
      BY <2>2, NothingIs
    <3>2. CASE "ERR" \in iob[s].flag
      BY <3>1, <3>2 DEF Held
    <3>3. CASE "ERR" \notin iob[s].flag
      <4>1. PICK g \in Records : g = iob[s]
        BY <1>1
      <4>2. WriterOK(g, file[g.name])
        BY <1>1, <1>4, <3>1, <4>1, OutputIs
      <4>3. g.cnt = 0 /\ Len(g.buf) = g.ptr
        <5>1. g.cnt >= 0 /\ Len(g.buf) = g.ptr /\ g.cnt \in Int
          BY <4>2, FieldsOf DEF WriterOK, Room
        <5>2. g.flag \cap {"WRITE", "ERR"} = {"WRITE"}
          BY <1>4, <3>1, <3>3, <4>1
        <5>3. ~(g.cnt > 0)
          BY <2>2, <4>1, <5>2 DEF ToBeFlushed, HasRoom
        <5>4. QED
          BY <5>1, <5>3
      <4>4. CASE g.base
        BY <3>1, <4>1, <4>3, <4>4 DEF FullBuffer
      <4>5. CASE ~g.base
        <5>1. g.ptr = 0
          BY <4>2, <4>5, Zenon DEF WriterOK, BaseOK
        <5>2. g.buf = <<>>
          BY <4>3, <5>1, FieldsOf, EmptySeq
        <5>3. QED
          BY <3>1, <4>1, <5>2 DEF Held
      <4>6. QED
        BY <4>4, <4>5
    <3>4. QED
      BY <3>2, <3>3
  <2>3. QED
    BY <2>1, <2>2
<1>5. QED
  BY <1>3, <1>4

(* Stopping at the last slot: every stream is written out but the full ones. *)
LEMMA FinishIf ==
  ASSUME StreamsOK, StreamsOK', Std!Others(Std!Nobody, {}), last' = last,
         call.op # "flushed", call'.op = "flushed",
         \A t \in Slots : /\ iob'[t].name = iob[t].name
                          /\ "WRITE" \in iob[t].flag <=> "WRITE" \in iob'[t].flag
                          /\ "WRITE" \in iob'[t].flag =>
                               Held(iob'[t]) = <<>> \/ FullBuffer(iob[t])
  PROVE  ExitWithFull
<1> DEFINE kept == {s \in Slots : FullBuffer(iob[s])}
<1>1. ASSUME NEW s \in Slots \ kept, [u \in Slots |-> Mode(u)][s] = "w"
      PROVE  file'[[u \in Slots |-> iob[u].name][s]]
               = ([m \in Names |-> View(m)]')[[u \in Slots |-> iob[u].name][s]]
  <2>1. Mode(s) = "w" /\ [u \in Slots |-> iob[u].name][s] = iob[s].name
    BY <1>1, SlotIs
  <2>2. Writes(s)
    BY <2>1 DEF Mode
  <2>3. PICK n \in Names : n = iob[s].name
    BY <2>2, WriterIs
  <2>4. Writes(s)' /\ n = iob'[s].name /\ Held(iob'[s]) = <<>>
    BY <1>1, <2>2, <2>3 DEF Writes
  <2>5. View(n)' = file'[n] \o <<>> /\ file'[n] \in Seq(Nat)
    BY <2>4, WriterBecomes
  <2>6. View(n)' = file'[n]
    BY <2>5, ConcatEmptySeq
  <2>7. ([m \in Names |-> View(m)]')[n] = View(n)'
    BY FileIs
  <2>8. QED
    BY <2>1, <2>3, <2>6, <2>7
<1> HIDE DEF kept
<1>2. ~(call.op = "flushed") /\ (call.op = "flushed")'
  OBVIOUS
<1>3. Std!FinishBut(kept)
  BY <1>1, <1>2, Zenon DEF Std!FinishBut, Std!Others
<1>4. QED
  BY <1>3, Zenon DEF ExitWithFull, kept, Std!FinishBut, Std!Others

(* A turn of g_profflush() is a Write, and the last one ends the program. *)
LEMMA RefProfflush ==
  ASSUME IInv, RInv, ProfflushTurn
  PROVE  RInv' /\ StdStep
<1>1. /\ StreamsOK /\ BufferInFile /\ CallOK /\ WrittenBelow
      /\ call.op = "profflush" /\ last' = last
      /\ call' = IF call.slot = OpenMax - 1 THEN [call EXCEPT !.op = "flushed"]
                                            ELSE [call EXCEPT !.slot = call.slot + 1]
  BY DEF IInv, RInv, ProfflushTurn
<1>2. call \in Calls
  BY <1>1 DEF CallOK
<1>3. PICK s \in Slots : s = call.slot
  BY <1>2, CallIs
<1>4. PICK r \in IF ToBeFlushed(iob[s]) THEN g_flushbuf(-1, iob[s]) ELSE {Nothing(s)} :
        Do(s, r, NoSync)
  BY <1>3 DEF ProfflushTurn
<1>5. Quiet(s, r) /\ Becomes(iob[s], r, file)
  <2>1. CASE r \in g_flushbuf(-1, iob[s])
    BY <1>1, <2>1, FlushIsQuiet
  <2>2. CASE r = Nothing(s)
    <3>1. r.g = iob[s] /\ r.out = <<>> /\ ~r.bad
      BY <2>2, NothingIs
    <3>2. iob[s] \in Records /\ StreamOK(iob[s], file)
      BY <1>1 DEF StreamsOK, StreamsAre
    <3>3. QED
      BY <3>1, <3>2, SameBecomes DEF Quiet
  <2>3. QED
    BY <1>4, <2>1, <2>2
<1>6. Quiet(stdout, NoSync) /\ Becomes(iob[stdout], NoSync, file)
  <2>1. Quiet(stdout, NoSync)
    BY NothingIs DEF Quiet
  <2>2. QED
    BY <1>1, <2>1, NoSyncBecomes
<1>7. BufferInFile' /\ Std!Others(Std!Nobody, {}) /\ StreamsOK'
  BY <1>1, <1>4, <1>5, <1>6, AllQuiet, AloneKeeps
<1>8. /\ iob'[s] = r.g /\ \A t \in Slots \ {s} : iob'[t] = iob[t]
      /\ "WRITE" \in r.g.flag =>
           Held(r.g) = <<>> \/ (r.g = iob[s] /\ FullBuffer(iob[s]))
  BY <1>3, <1>4, TurnFlushes
<1>9. ASSUME NEW t \in Slots, t < call.slot + 1
      PROVE  Behind(iob'[t])
  <2>1. CASE t = s
    BY <1>8, <2>1, Zenon DEF Behind
  <2>2. CASE t # s
    <3>1. t < call.slot
      BY <1>3, <1>9, <2>2 DEF Slots
    <3>2. Behind(iob[t]) /\ iob'[t] = iob[t]
      BY <1>1, <1>8, <2>2, <3>1 DEF WrittenBelow
    <3>3. QED
      BY <3>2
  <2>3. QED
    BY <2>1, <2>2
<1>10. CASE call.slot = OpenMax - 1
  <2>1. call' = [call EXCEPT !.op = "flushed"]
    BY <1>1, <1>10
  <2>2. call'.op = "flushed"
    BY <1>2, <2>1 DEF Calls
  <2>3. ASSUME NEW t \in Slots
        PROVE  /\ iob'[t].name = iob[t].name
               /\ "WRITE" \in iob[t].flag <=> "WRITE" \in iob'[t].flag
               /\ "WRITE" \in iob'[t].flag => Held(iob'[t]) = <<>> \/ FullBuffer(iob[t])
    <3>1. CASE t = s
      <4>1. r.g.name = iob[s].name /\ ("WRITE" \in iob[s].flag <=> "WRITE" \in r.g.flag)
        BY <1>5, Zenon DEF Quiet, Writes
      <4>2. QED
        BY <1>8, <3>1, <4>1, Zenon
    <3>2. CASE t # s
      <4>1. iob'[t] = iob[t]
        BY <1>8, <3>2
      <4>2. t < call.slot + 1
        BY <1>10, ConstantsAssumption DEF Slots
      <4>3. Behind(iob'[t])
        BY <1>9, <4>2
      <4>4. QED
        BY <4>1, <4>3, Zenon DEF Behind
    <3>3. QED
      BY <3>1, <3>2
  <2>4. call.op # "flushed"
    BY <1>1
  <2>5. ExitWithFull
    BY <1>1, <1>7, <2>2, <2>3, <2>4, FinishIf
  <2>6. ReadShown' /\ WrittenBelow'
    BY <2>2, NotReading
  <2>7. QED
    BY <1>7, <2>5, <2>6, Zenon DEF RInv, StdStep
<1>11. CASE call.slot # OpenMax - 1
  <2>1. call' = [call EXCEPT !.slot = call.slot + 1]
    BY <1>1, <1>11
  <2>2. call'.op = "profflush" /\ call'.slot = call.slot + 1
    BY <1>1, <1>2, <2>1 DEF Calls
  <2>3. KeepsOver
    BY <1>1, <2>2, NotOver
  <2>4. Std!Next
    BY <1>1, <1>7, <2>3, QuietIsWrite
  <2>5. WrittenBelow'
    BY <1>9, <2>2 DEF WrittenBelow
  <2>6. ReadShown'
    BY <2>2 DEF ReadShown
  <2>7. QED
    BY <1>7, <2>4, <2>5, <2>6, Zenon DEF RInv, StdStep
<1>12. QED
  BY <1>10, <1>11

(* The turns of the loops that read. *)
LEMMA RefGetsTurn ==
  ASSUME IInv, RInv, GetsTurn, OneMore(call.left)
  PROVE  RInv' /\ Std!Next
<1>1. /\ StreamsOK /\ BufferInFile /\ CallOK /\ call.op = "gets"
  BY DEF IInv, RInv, GetsTurn
<1>2. call \in Calls /\ Reads(call.slot)
  BY <1>1 DEF CallOK, GetsOK, Taken
<1>3. PICK s \in Slots : s = call.slot
  BY <1>2, CallIs
<1>4. PICK r \in g_getc(iob[s]), f \in Sync(s) :
        /\ Do(s, r, f) /\ last' = <<s, r.ret>>
        /\ call' = IF r.ret \in {EOF, Newline}
                   THEN [call EXCEPT !.op = "line", !.left = @ - 1]
                   ELSE [call EXCEPT !.left = @ - 1, !.str = Append(@, r.ret)]
  BY <1>3 DEF GetsTurn
<1>5. /\ Quiet(stdout, f) /\ Becomes(iob[stdout], f, file)
      /\ f = NoSync \/ s = stdin
      /\ s = stdin /\ Writes(stdout) => Held(f.g) = <<>>
  BY <1>1, SyncIs
<1>7. call'.op \notin {"read", "profflush", "flushed"}
  BY <1>1, <1>2, <1>4 DEF Calls
<1>6. BufferInFile' /\ Std!Get(s)
  BY <1>1, <1>2, <1>3, <1>4, <1>5, <1>7, NotOver, GetcGets
<1>8. QED
  BY <1>6, <1>7, StepOf, NotReading DEF RInv

(* A turn of g_read() that takes a character is a Get: stdout is still shown. *)
LEMMA RefReadTurn ==
  ASSUME IInv, RInv, ReadTurn, call.left # 0
  PROVE  RInv' /\ Std!Next
<1>1. /\ StreamsOK /\ BufferInFile /\ ReadShown /\ CallOK /\ call.op = "read"
  BY DEF IInv, RInv, ReadTurn
<1>2. call \in Calls /\ Reads(call.slot)
  BY <1>1 DEF CallOK, ReadOK, Taken
<1>3. PICK s \in Slots : s = call.slot
  BY <1>2, CallIs
<1>4. PICK r \in g_getc(iob[s]) :
        /\ Do(s, r, NoSync) /\ last' = <<s, r.ret>>
        /\ call' = IF r.ret = EOF
                   THEN [call EXCEPT !.op = "items", !.left = 0]
                   ELSE [call EXCEPT !.left = @ - 1, !.str = Append(@, r.ret)]
  BY <1>3 DEF ReadTurn
<1>5. /\ Quiet(stdout, NoSync) /\ Becomes(iob[stdout], NoSync, file)
      /\ NoSync.g = iob[stdout]
  <2>1. Quiet(stdout, NoSync)
    BY NothingIs DEF Quiet
  <2>2. QED
    BY <1>1, <2>1, NoSyncBecomes
<1>6. s = stdin /\ Writes(stdout) => Held(iob[stdout]) = <<>>
  BY <1>1, <1>3 DEF ReadShown
<1>8. call'.slot = s /\ call'.op \notin {"profflush", "flushed"}
  BY <1>1, <1>2, <1>3, <1>4 DEF Calls
<1>7. BufferInFile' /\ Std!Get(s) /\ (s # stdout => iob'[stdout] = iob[stdout])
  BY <1>1, <1>2, <1>3, <1>4, <1>5, <1>6, <1>8, NotOver, GetcGets
<1>9. ReadShown' /\ WrittenBelow'
  BY <1>6, <1>7, <1>8, Bounds DEF ReadShown, WrittenBelow, Writes
<1>10. QED
  BY <1>7, <1>9, StepOf DEF RInv

(* g_close(): the stream is no more; what it held back is written or lost.  *)
LEMMA RefClose ==
  ASSUME IInv, RInv, NEW s \in Slots, Close(s)
  PROVE  RInv' /\ Std!Next
<1>1. PICK r \in g_close(iob[s]) : Do(s, r, NoSync)
  BY DEF Close
<1>2. /\ StreamsOK /\ BufferInFile /\ (Reads(s) \/ Writes(s)) /\ call.op = "idle"
      /\ call' = call /\ last' = last
  BY DEF IInv, RInv, Close, Ready
<1>3. iob[s] \in Records /\ StreamOK(iob[s], file)
  BY <1>2 DEF StreamsOK, StreamsAre
<1>4. Becomes(iob[s], r, file)
  BY <1>3, CloseBecomes
<1>5. Quiet(stdout, NoSync) /\ Becomes(iob[stdout], NoSync, file)
  <2>1. Quiet(stdout, NoSync)
    BY NothingIs DEF Quiet
  <2>2. QED
    BY <1>2, <2>1, NoSyncBecomes
<1>6. /\ StreamsOK' /\ Became(s, r)
      /\ s # stdout => Became(stdout, NoSync)
      /\ \A t \in Slots \ {s, stdout} : Became(t, Nothing(t))
      /\ \A n \in Names : (\A t \in Slots : iob[t].name # n) => file'[n] = file[n]
  BY <1>1, <1>2, <1>4, <1>5, DoIs
<1>7. PICK n \in Names : n = iob[s].name /\ file[n] \in Seq(Nat)
  BY <1>3, InputIs, OutputIs, <1>2 DEF Reads, Writes
<1>8. /\ r.g = Free
      /\ Writes(s) => \/ ~r.bad /\ r.out = Held(iob[s])
                      \/ /\ \E k \in 0 .. Len(Held(iob[s])) : r.out = SubSeq(Held(iob[s]), 1, k)
                         /\ r.bad \/ "ERR" \in iob[s].flag
      /\ ~Writes(s) => r.out = <<>> /\ ~r.bad
  <2>1. CASE Writes(s)
    <3>1. WriterOK(iob[s], file[n])
      BY <1>3, <1>7, <2>1, OutputIs DEF Writes
    <3>2. QED
      BY <1>3, <1>7, <2>1, <3>1, CloseWrites
  <2>2. CASE ~Writes(s)
    <3>1. r = [Result(iob[s], <<>>, 0, FALSE) EXCEPT !.g = Free]
      BY <2>2 DEF g_close, NotFlushed, Writes
    <3>2. QED
      BY <2>2, <3>1 DEF Result
  <2>3. QED
    BY <2>1, <2>2
<1>9. /\ iob'[s] = Free /\ (s \in trouble' <=> s \in trouble \/ r.bad)
      /\ file'[n] = file[n] \o r.out
  BY <1>6, <1>7, <1>8 DEF Became
<1>10. /\ Mode(s)' = "closed" /\ iob'[s].name = NoFile /\ Place(s)' = 0 /\ ~Ended(s)'
       /\ ~Reads(s)'
  BY <1>9, FreeIs DEF Mode, Place, Ended, Reads, Writes
<1>11. \A t \in Slots \ {s} : \E q : Became(t, q) /\ Quiet(t, q)
  BY <1>5, <1>6, OthersQuiet
<1>12. Std!Others(s, {n})
  <2>1. \A m \in Names : (\A t \in Slots : iob[t].name # m) => m \in {n} \/ file'[m] = file[m]
    BY <1>6
  <2>2. s \in Slots => \/ iob'[s].name \in {n} \cup {NoFile}
                       \/ iob'[s].name = iob[s].name
    BY <1>10
  <2>3. s \in Slots => \/ iob[s].name \in {n} \cup {NoFile}
                       \/ /\ iob'[s].name = iob[s].name /\ ~Writes(s) /\ ~Writes(s)'
                          /\ file'[iob[s].name] = file[iob[s].name]
    BY <1>7
  <2>4. QED
    BY <1>2, <1>6, <1>11, <2>1, <2>2, <2>3, OthersAre
<1>13. BufferInFile'
  BY <1>2, <1>6, <1>10, <1>11, StillInFile
<1>14. \A t \in Slots : ~WritesOn(iob', t, n)
  <2>1. ASSUME NEW t \in Slots, t # s PROVE iob'[t].name # n
    <3>1. PICK q : Became(t, q) /\ Quiet(t, q)
      BY <1>11, <2>1
    <3>2. iob'[t].name = iob[t].name
      BY <3>1 DEF Became, Quiet
    <3>3. iob[s].name = NoFile \/ iob[s].name # iob[t].name
      BY <1>2, <2>1 DEF StreamsOK, StreamsAre
    <3>4. QED
      BY <1>7, <3>2, <3>3, ConstantsAssumption
  <2>2. NoFile # n
    BY ConstantsAssumption
  <2>3. QED
    BY <1>10, <2>1, <2>2 DEF WritesOn
<1>15. View(n)' = file'[n]
  BY <1>14, OtherView, ViewBecomes
<1>16. CASE Writes(s)
  <2>1. Mode(s) = "w" /\ View(n) = file[n] \o Held(iob[s])
    BY <1>2, <1>7, <1>16, WriterIs
  <2>2. PICK f \in Seq(Nat), q \in Seq(Nat) : f = file[n] /\ q = Held(iob[s])
    BY <1>3, <1>7, HeldIs
  <2>3. PICK j \in 0 .. Len(q) :
          /\ r.out = SubSeq(q, 1, j)
          /\ (r.out = q /\ ~r.bad) \/ r.bad \/ "ERR" \in iob[s].flag
    <3>1. Len(q) \in 0 .. Len(q) /\ q = SubSeq(q, 1, Len(q))
      BY <1>3, <2>2, HeldIs
    <3>2. QED
      BY <1>8, <1>16, <2>2, <3>1
  <2>4. /\ Len(f) + j \in Len(f) .. Len(f \o q)
        /\ SubSeq(f \o q, 1, Len(f) + j) = f \o SubSeq(q, 1, j)
    BY PrefixIs
  <2>5. \E k \in Len(file[n]) .. Len(View(n)) : file'[n] = SubSeq(View(n), 1, k)
    BY <1>9, <2>1, <2>2, <2>3, <2>4
  <2>6. \/ file'[n] = View(n) /\ (s \in trouble' <=> s \in trouble)
        \/ s \in trouble'
    <3>1. CASE r.out = q /\ ~r.bad
      BY <1>9, <2>1, <2>2, <3>1
    <3>2. CASE r.bad
      BY <1>9, <3>2
    <3>3. CASE "ERR" \in iob[s].flag
      BY <1>2, <1>9, <3>3 DEF StreamsOK, StreamsAre
    <3>4. QED
      BY <2>3, <3>1, <3>2, <3>3
  <2>7. Mode(s) # "closed"
    BY <2>1
  <2>8. Std!Close(s)
    BY <1>2, <1>7, <1>10, <1>12, <1>15, <2>1, <2>5, <2>6, <2>7, NotOver, CloseIf
  <2>9. QED
    BY <1>2, <1>13, <2>8, StepOf, NotReading DEF RInv
<1>17. CASE ~Writes(s)
  <2>1. Mode(s) = "r" /\ View(n) = file[n]
    BY <1>2, <1>7, <1>17, ReaderIs
  <2>2. file'[n] = file[n]
    <3>1. file'[n] = file[n] \o <<>>
      BY <1>8, <1>9, <1>17
    <3>2. QED
      BY <1>7, <3>1, ConcatEmptySeq
  <2>3. Mode(s) # "w" /\ Mode(s) # "closed" /\ View(n)' = View(n)
    BY <1>15, <2>1, <2>2
  <2>4. s \in trouble' <=> s \in trouble
    BY <1>8, <1>9, <1>17
  <2>5. Std!Close(s)
    BY <1>2, <1>7, <1>10, <1>12, <1>15, <2>2, <2>3, <2>4, NotOver, CloseIf
  <2>6. QED
    BY <1>2, <1>13, <2>5, StepOf, NotReading DEF RInv
<1>18. QED
  BY <1>16, <1>17

(* g_open(): a stream at the start of its file, or one that adds to it.     *)
LEMMA RefOpen ==
  ASSUME IInv, RInv, NEW s \in Slots, NEW n \in Files, NEW m \in {"r", "w", "a"},
         Open(s, n, m)
  PROVE  RInv' /\ Std!Next
<1> DEFINE fl == IF m = "r" THEN {"READ"} ELSE {"WRITE"}
           at == IF m = "a" THEN Len(file'[n]) ELSE 0
           c == IF m = "w" \/ file[n] = NoFile THEN <<>> ELSE file[n]
<1>1. /\ StreamsOK /\ BufferInFile /\ FreeSlot(s)
      /\ \A t \in Slots : iob[t].name # n
      /\ m = "r" => file[n] # NoFile
      /\ file' = [file EXCEPT ![n] = c]
      /\ iob' = [iob EXCEPT ![s] = Opened(n, fl, at)]
      /\ trouble' = trouble \ {s}
      /\ call.op = "idle" /\ call' = call /\ last' = last
  BY DEF IInv, RInv, Open, Ready
<1>2. StreamsOK'
  BY StepOpen DEF IInv
<1>3. n \in Names /\ NoFile # n
  BY ConstantsAssumption
<1>4. /\ iob \in [Slots -> Records] /\ file \in Contents
      /\ \A t \in Slots : StreamOK(iob[t], file)
  BY <1>1 DEF StreamsOK, StreamsAre
<1>5. c \in Seq(Nat)
  BY <1>3, <1>4, EmptySeq DEF Contents
<1>6. file'[n] = c /\ \A k \in Names : k # n => file'[k] = file[k]
  BY <1>1, <1>3, <1>4 DEF Contents
<1>7. fl \in SUBSET {"READ", "WRITE", "UNBUF", "EOF", "ERR"} /\ at \in Nat
  BY <1>5, <1>6, LenProperties
<1>8. PICK g : g = Opened(n, fl, at)
  OBVIOUS
<1>9. /\ m = "r" => fl = {"READ"} /\ at = 0
      /\ m # "r" => fl = {"WRITE"}
  OBVIOUS
<1>10. c # NoFile /\ (c = file[n] \/ (m # "r" /\ c = <<>>))
  BY <1>1, ConstantsAssumption
<1> HIDE DEF fl, at, c
<1>11. g \in Records /\ g.flag = fl /\ g.buf = <<>> /\ g.name = n /\ g.cnt = 0 /\ g.off = at
  BY <1>3, <1>7, <1>8, OpenedIs
<1>12. iob'[s] = g /\ \A t \in Slots : t # s => iob'[t] = iob[t]
  BY <1>1, <1>4, <1>8
<1>13. Mode(s)' = (IF m = "r" THEN "r" ELSE "w") /\ ~Ended(s)' /\ Place(s)' = 0
  <2>1. CASE m = "r"
    <3>1. Reads(s)' /\ ~Ended(s)'
      BY <1>9, <1>11, <1>12, <2>1 DEF Reads, Ended
    <3>2. Place(s)' = iob'[s].off - 0
      BY <1>11, <1>12, <3>1 DEF Place, Tell
    <3>3. QED
      BY <1>9, <1>11, <1>12, <2>1, <3>1, <3>2 DEF Mode
  <2>2. CASE m # "r"
    <3>1. ~Reads(s)' /\ Writes(s)' /\ ~Ended(s)'
      BY <1>9, <1>11, <1>12, <2>2 DEF Reads, Writes, Ended
    <3>2. QED
      BY <2>2, <3>1 DEF Mode, Place
  <2>3. QED
    BY <2>1, <2>2
<1>14. /\ Mode(s) = "closed" /\ iob[s].name = NoFile
       /\ \A t \in Slots : t < s => Mode(t) # "closed"
  <2>1. ~Reads(s) /\ ~Writes(s) /\ \A t \in Slots : t < s => Reads(t) \/ Writes(t)
    BY <1>1 DEF FreeSlot
  <2>2. iob[s].name = NoFile
    <3>1. StreamOK(iob[s], file)
      BY <1>4
    <3>2. ~ReaderOK(iob[s], file[iob[s].name]) /\ ~WriterOK(iob[s], file[iob[s].name])
      BY <2>1 DEF ReaderOK, InputFlags, WriterOK, OutputFlags, Reads, Writes
    <3>3. QED
      BY <3>1, <3>2, FreeIs DEF StreamOK
  <2>3. QED
    BY <2>1, <2>2 DEF Mode
<1>15. ASSUME NEW t \in Slots \ {s} PROVE \E q : Became(t, q) /\ Quiet(t, q)
  <2>1. Nothing(t).g = iob[t] /\ Nothing(t).out = <<>> /\ ~Nothing(t).bad
    BY NothingIs
  <2>2. t \in trouble' <=> t \in trouble
    BY <1>1
  <2>3. iob[t].name \in Names => file'[iob[t].name] = file[iob[t].name]
    BY <1>1, <1>6
  <2>4. iob'[t] = iob[t]
    BY <1>12
  <2>5. PICK q : q.g = iob[t] /\ q.out = <<>> /\ ~q.bad
    BY <2>1
  <2>6. Became(t, q)
    BY <2>2, <2>3, <2>4, <2>5, NothingBecame
  <2>7. Quiet(t, q)
    BY <2>5 DEF Quiet
  <2>8. QED
    BY <2>6, <2>7
<1>16. Std!Others(s, {n})
  <2>1. \A k \in Names : (\A t \in Slots : iob[t].name # k) => k \in {n} \/ file'[k] = file[k]
    BY <1>6
  <2>2. s \in Slots => \/ iob'[s].name \in {n} \cup {NoFile}
                       \/ iob'[s].name = iob[s].name
    BY <1>11, <1>12
  <2>3. s \in Slots => \/ iob[s].name \in {n} \cup {NoFile}
                       \/ /\ iob'[s].name = iob[s].name /\ ~Writes(s) /\ ~Writes(s)'
                          /\ file'[iob[s].name] = file[iob[s].name]
    BY <1>14
  <2>4. \A t \in Slots \ {s} : \E q : Became(t, q) /\ Quiet(t, q)
    BY <1>15
  <2>5. QED
    BY <1>1, <1>2, <2>1, <2>2, <2>3, <2>4, OthersAre
<1>17. BufferInFile'
  <2>1. \A k \in Names : InFile(iob'[s], file'[k])
    BY <1>11, <1>12 DEF InFile
  <2>2. \A t \in Slots \ {s} : \E q : Became(t, q) /\ Quiet(t, q)
    BY <1>15
  <2>3. QED
    BY <1>1, <1>2, <2>1, <2>2, StillInFile
<1>18. View(n)' = file'[n]
  <2>1. CASE m = "r"
    <3>1. \A t \in Slots : ~WritesOn(iob', t, n)
      BY <1>1, <1>9, <1>11, <1>12, <2>1 DEF WritesOn
    <3>2. QED
      BY <3>1, OtherView, ViewBecomes
  <2>2. CASE m # "r"
    <3>1. Writes(s)' /\ n = iob'[s].name
      BY <1>9, <1>11, <1>12, <2>2 DEF Writes
    <3>2. View(n)' = file'[n] \o Held(iob'[s])
      BY <1>2, <1>3, <3>1, WriterBecomes
    <3>3. Held(iob'[s]) = <<>>
      BY <1>11, <1>12 DEF Held
    <3>4. QED
      BY <1>5, <1>6, <3>2, <3>3, ConcatEmptySeq
  <2>3. QED
    BY <2>1, <2>2
<1>19. file'[n] # NoFile /\ (file'[n] = file[n] \/ (Mode(s)' = "w" /\ file'[n] = <<>>))
  BY <1>6, <1>10, <1>13
<1>20. Mode(s)' \in {"r", "w"} /\ iob'[s].name = n /\ s \notin trouble'
  BY <1>1, <1>11, <1>12, <1>13
<1>21. Std!Open(s, n)
  BY <1>1, <1>3, <1>13, <1>14, <1>16, <1>18, <1>19, <1>20, NotOver, OpenIf
<1>22. QED
  BY <1>1, <1>3, <1>17, <1>21, StepOf, NotReading DEF RInv

(* The steps that only concern the record of a loop. *)
LEMMA RefStutter ==
  ASSUME RInv, UNCHANGED <<iob, file, last, trouble>>, 
         call'.op \notin {"read", "profflush"} \/ (call'.op = "profflush" /\ call'.slot = 0)
           \/ call' = call,
         KeepsOver
  PROVE  RInv' /\ UNCHANGED Std!vars
<1>1. BufferInFile'
  BY DEF RInv, BufferInFile, Reads
<1>2. ReadShown'
  BY DEF RInv, ReadShown, Writes
<1>a. WrittenBelow'
  <2>1. CASE call'.op = "profflush" /\ call'.slot = 0
    BY <2>1 DEF WrittenBelow, Slots
  <2>2. CASE call'.op # "profflush"
    BY <2>2 DEF WrittenBelow
  <2>3. CASE call' = call
    BY <2>3 DEF RInv, WrittenBelow
  <2>4. QED
    BY <2>1, <2>2, <2>3
<1>3. \A s : /\ Mode(s)' = Mode(s) /\ iob'[s].name = iob[s].name
             /\ Place(s)' = Place(s) /\ Ended(s)' = Ended(s)
             /\ (s \in trouble') = (s \in trouble)
  BY DEF Mode, Place, Ended, Tell, Reads, Writes
<1>4. \A n : View(n)' = View(n)
  BY ViewIs, ViewBecomes
<1>5. /\ [s \in Slots |-> Mode(s)]' = [s \in Slots |-> Mode(s)]
      /\ [s \in Slots |-> iob[s].name]' = [s \in Slots |-> iob[s].name]
      /\ [s \in Slots |-> Place(s)]' = [s \in Slots |-> Place(s)]
  BY <1>3
<1>6. [s \in Slots |-> Ended(s)]' = [s \in Slots |-> Ended(s)]
  BY DEF Ended
<1>7. [s \in Slots |-> s \in trouble]' = [s \in Slots |-> s \in trouble]
  OBVIOUS
<1>8. [n \in Names |-> View(n)]' = [n \in Names |-> View(n)]
  BY <1>4
<1>9. QED
  BY <1>1, <1>2, <1>a, <1>5, <1>6, <1>7, <1>8, Zenon DEF RInv, Std!vars, KeepsOver

(* Every step of the model is a step of Streams or none. *)
LEMMA RefNext ==
  ASSUME IInv, RInv, [Next]_vars
  PROVE  RInv' /\ [StdStep]_Std!vars
<1>1. /\ program.slots \subseteq Slots /\ program.modes \subseteq {"r", "w", "a"}
  BY ConstantsAssumption DEF IInv, RestOK, Slots
<1>2. ASSUME NEW s \in program.slots,
             \/ Getc(s) \/ Putc(s) \/ Flush(s) \/ Close(s)
             \/ \E n \in Files, m \in program.modes : Open(s, n, m)
             \/ \E o \in Offsets, w \in {"SET", "CUR"} : Seek(s, o, w)
             \/ \E max \in 1 .. MaxGets : Gets(s, max)
             \/ \E z, n \in 1 .. MaxRead : z * n <= MaxRead /\ Read(s, z, n)
      PROVE  RInv' /\ StdStep
  <2>1. s \in Slots
    BY <1>1, <1>2
  <2>2. CASE Getc(s)
    BY <2>1, <2>2, RefGetc DEF StdStep
  <2>3. CASE Putc(s)
    BY <2>1, <2>3, RefPutc DEF StdStep
  <2>4. CASE Flush(s)
    BY <2>1, <2>4, RefFlush DEF StdStep
  <2>5. CASE Close(s)
    BY <2>1, <2>5, RefClose DEF StdStep
  <2>6. ASSUME NEW n \in Files, NEW m \in program.modes, Open(s, n, m)
        PROVE  RInv' /\ Std!Next
    BY <1>1, <2>1, <2>6, RefOpen
  <2>7. ASSUME NEW o \in Offsets, NEW w \in {"SET", "CUR"}, Seek(s, o, w)
        PROVE  RInv' /\ StdStep
    BY <2>1, <2>7, RefSeek
  <2>8. ASSUME NEW max \in 1 .. MaxGets, Gets(s, max) PROVE RInv' /\ Std!Next
    BY <2>1, <2>8, RefGets
  <2>9. ASSUME NEW z \in 1 .. MaxRead, NEW n \in 1 .. MaxRead, Read(s, z, n)
        PROVE  RInv' /\ Std!Next
    BY <2>1, <2>9, RefRead
  <2>10. QED
    BY <1>2, <2>2, <2>3, <2>4, <2>5, <2>6, <2>7, <2>8, <2>9, Zenon DEF StdStep
<1>3. ASSUME NEW s, NEW len, Puts(s, len) PROVE RInv' /\ UNCHANGED Std!vars
  <2>1. /\ UNCHANGED <<iob, file, last, trouble>>
        /\ call' = [Idle EXCEPT !.op = "puts", !.slot = s, !.left = len]
        /\ call.op = "idle"
    BY <1>3 DEF Puts, Ready
  <2>2. call'.op = "puts"
    BY <2>1 DEF Idle
  <2>3. QED
    BY <2>1, <2>2, NotOver, RefStutter
<1>4. call \in Calls
  BY DEF IInv, CallOK
<1>5. CASE GetsTurn /\ ~OneMore(call.left)
  <2>1. /\ UNCHANGED <<iob, file, last, trouble>>
        /\ call' = [call EXCEPT !.op = "line", !.left = @ - 1]
        /\ call.op = "gets"
    BY <1>5 DEF GetsTurn
  <2>2. call'.op = "line"
    BY <1>4, <2>1 DEF Calls
  <2>3. QED
    BY <2>1, <2>2, NotOver, RefStutter
<1>6. CASE ReadTurn /\ call.left = 0
  <2>1. /\ UNCHANGED <<iob, file, last, trouble>>
        /\ call' = [call EXCEPT !.op = "items", !.left = Items(call.str, call.size)]
        /\ call.op = "read"
    BY <1>6 DEF ReadTurn
  <2>2. call'.op = "items"
    BY <1>4, <2>1 DEF Calls
  <2>3. QED
    BY <2>1, <2>2, NotOver, RefStutter
<1>7. CASE Returns \/ Exit
  <2>1. UNCHANGED <<iob, file, last, trouble>>
    BY <1>7 DEF Returns, Exit
  <2>2. call.op # "flushed" /\ call'.op \in {"idle", "profflush", "exited"} /\ call'.slot = 0
    BY <1>7 DEF Returns, Exit, Idle, Ready
  <2>3. QED
    BY <2>1, <2>2, NotOver, RefStutter
<1>8. CASE UNCHANGED vars
  <2>1. UNCHANGED <<iob, file, last, trouble>> /\ call' = call
    BY <1>8 DEF vars
  <2>2. KeepsOver
    BY <2>1 DEF KeepsOver
  <2>3. QED
    BY <2>1, <2>2, RefStutter
<1>9. CASE GetsTurn /\ OneMore(call.left)
  BY <1>9, RefGetsTurn DEF StdStep
<1>10. CASE ReadTurn /\ call.left # 0
  BY <1>10, RefReadTurn DEF StdStep
<1>11. CASE PutsTurn
  BY <1>11, RefPutsTurn DEF StdStep
<1>12. CASE ProfflushTurn
  BY <1>12, RefProfflush
<1>13. CASE Next
  BY <1>2, <1>3, <1>5, <1>6, <1>7, <1>9, <1>10, <1>11, <1>12, <1>13, Zenon DEF Next, StdStep
<1>14. QED
  BY <1>8, <1>13, Zenon

-----------------------------------------------------------------------------
(* Every stream begins with an empty buffer at the start of its file.       *)
LEMMA StartsEmpty ==
  ASSUME Init, NEW s \in Slots
  PROVE  iob[s].buf = <<>> /\ iob[s].cnt = 0 /\ iob[s].off = 0 /\ "EOF" \notin iob[s].flag
<1> DEFINE E(g) == g.buf = <<>> /\ g.cnt = 0 /\ g.off = 0 /\ "EOF" \notin g.flag
<1>1. E(Free)
  BY FreeIs
<1>2. ASSUME NEW n \in Names, NEW fl \in SUBSET {"READ", "WRITE", "UNBUF"}
      PROVE  E(Opened(n, fl, 0))
  <2>0. PICK at \in Nat : at = 0
    OBVIOUS
  <2>1. PICK g : g = Opened(n, fl, at)
    OBVIOUS
  <2>2. fl \in SUBSET {"READ", "WRITE", "UNBUF", "EOF", "ERR"} /\ "EOF" \notin fl
    OBVIOUS
  <2>3. g.flag = fl /\ g.buf = <<>> /\ g.cnt = 0 /\ g.off = at
    BY <2>1, <2>2, OpenedIs
  <2>4. E(g)
    BY <2>0, <2>2, <2>3
  <2>5. QED
    BY <2>0, <2>1, <2>4
<1>3. /\ E(Opened(In, {"READ"}, 0)) /\ E(Opened(Out, {"WRITE"}, 0))
      /\ E(Opened(Err, {"WRITE", "UNBUF"}, 0))
  <2>1. In \in Names /\ Out \in Names /\ Err \in Names
    BY ConstantsAssumption
  <2>2. /\ {"READ"} \in SUBSET {"READ", "WRITE", "UNBUF"}
        /\ {"WRITE"} \in SUBSET {"READ", "WRITE", "UNBUF"}
        /\ {"WRITE", "UNBUF"} \in SUBSET {"READ", "WRITE", "UNBUF"}
    OBVIOUS
  <2>3. QED
    BY <1>2, <2>1, <2>2, Zenon
<1> HIDE DEF E
<1>4. iob[s] \in {Opened(In, {"READ"}, 0), Opened(Out, {"WRITE"}, 0),
                  Opened(Err, {"WRITE", "UNBUF"}, 0), Free}
  BY DEF Init
<1>5. E(iob[s])
  BY <1>1, <1>3, <1>4
<1>6. QED
  BY <1>5 DEF E

(* The streams begin as Streams says. *)
LEMMA RefInit ==
  ASSUME Init
  PROVE  RInv /\ Std!Init
<1>1. StreamsOK
  BY InitIInv DEF IInv
<1>2. BufferInFile
  BY StartsEmpty DEF BufferInFile, InFile
<1>3. ReadShown /\ WrittenBelow /\ (call.op = "flushed") = FALSE
  BY DEF Init, ReadShown, WrittenBelow, Idle
<1>4. ASSUME NEW s \in Slots
      PROVE  /\ Mode(s) \in {"closed", "r", "w"} /\ iob[s].name \in Names \cup {NoFile}
             /\ Place(s) = 0 /\ ~Ended(s) /\ s \notin trouble
  <2>1. iob[s].cnt = 0 /\ iob[s].off = 0 /\ "EOF" \notin iob[s].flag
    BY StartsEmpty
  <2>2. Place(s) = 0
    BY <2>1 DEF Place, Tell
  <2>3. iob[s].name \in Names \cup {NoFile}
    <3>1. iob[s] \in Records
      BY <1>1 DEF StreamsOK, StreamsAre
    <3>2. QED
      BY <3>1 DEF Records
  <2>4. s \notin trouble
    BY DEF Init
  <2>5. QED
    BY <2>1, <2>2, <2>3, <2>4 DEF Mode, Ended
<1>5. ASSUME NEW n \in Names PROVE View(n) = file[n]
  <2>1. CASE \E s \in Slots : WritesOn(iob, s, n)
    <3>1. PICK s \in Slots : WritesOn(iob, s, n)
      BY <2>1
    <3>2. Writes(s) /\ n = iob[s].name
      BY <3>1 DEF WritesOn, Writes
    <3>3. file[n] \in Seq(Nat) /\ View(n) = file[n] \o Held(iob[s])
      BY <1>1, <3>2, WriterIs
    <3>4. Held(iob[s]) = <<>>
      BY StartsEmpty DEF Held
    <3>5. QED
      BY <3>3, <3>4, ConcatEmptySeq
  <2>2. CASE \A s \in Slots : ~WritesOn(iob, s, n)
    BY <2>2, OtherView, ViewIs
  <2>3. QED
    BY <2>1, <2>2
<1>6. [s \in Slots |-> Mode(s)] \in [Slots -> {"closed", "r", "w"}]
  BY <1>4
<1>7. [s \in Slots |-> iob[s].name] \in [Slots -> Names \cup {NoFile}]
  BY <1>4
<1>8. [s \in Slots |-> Place(s)] = [s \in Slots |-> 0]
  BY <1>4
<1>9. [s \in Slots |-> Ended(s)] = [s \in Slots |-> FALSE]
  <2>1. \A s \in Slots : Ended(s) = FALSE
    BY <1>4 DEF Ended
  <2>2. QED
    BY <2>1, Zenon
<1>10. [s \in Slots |-> s \in trouble] = [s \in Slots |-> FALSE]
  <2>1. \A s \in Slots : (s \in trouble) = FALSE
    BY <1>4
  <2>2. QED
    BY <2>1, Zenon
<1>11. [n \in Names |-> View(n)] = file
  <2>1. file \in Contents
    BY <1>1 DEF StreamsOK, StreamsAre
  <2>2. QED
    BY <1>5, <2>1 DEF Contents
<1>12. last = <<stdin, 0>>
  BY DEF Init
<1>13. QED
  BY <1>2, <1>3, <1>6, <1>7, <1>8, <1>9, <1>10, <1>11, <1>12, Zenon DEF RInv, Std!Init

(* The buffered streams of g_stdio.c do what module Streams says of them,
   for every size of the buffer, every number of slots, every content of the
   files and every order of calls, short reads and refusals of the kernel
   (g_stdio.c:310-970): what is read comes in order and from the
   right place, what is put arrives in order, stdout is shown before stdin is
   read, and bytes are lost only after the kernel has refused something.  The
   two exceptions are a seek at the end of a file, and buffers that are exactly
   full at the exit. *)
THEOREM StreamsRefined == Spec => StreamsImplemented
<1>1. Init => IInv /\ RInv /\ Std!Init
  BY InitIInv, RefInit
<1>2. IInv /\ RInv /\ [Next]_vars => IInv' /\ RInv' /\ [StdStep]_Std!vars
  BY NextIInv, RefNext
<1>3. QED
  BY <1>1, <1>2, PTL DEF Spec, StreamsImplemented, StdStep
================================================================================
