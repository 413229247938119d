------------------------------ MODULE LineProofs -------------------------------
(***************************************************************************)
(* What is proved of the programs that carry typed lines, for any length   *)
(* and number of lines.                                                    *)
(*                                                                         *)
(* LineTransfer (vcsend and vcrec, client.c and server.c, pipesend.c), for *)
(* any size of what is read at once and any way TCP cuts it: texts are     *)
(* shown as runs of lines in order, uncut lines are exchanged whole and in *)
(* turn, and neither side waits for the other.                             *)
(*                                                                         *)
(* NetSession (sesssend, sessrecv), for any size of the history buffer and *)
(* any number of starts and commands: the receiver always has a receive    *)
(* posted or a completion to look at, and no acknowledged line is lost or  *)
(* shown out of order.                                                     *)
(***************************************************************************)
EXTENDS LineTransfer, NetSession, SequenceTheorems, WellFoundedInduction, TLAPS

(***************************************************************************)
(* Bytes on their way                                                      *)
(***************************************************************************)
Bytes == Nat \X Nat

\* A byte of a text, one of the lines with these lengths.
IsText(b) == b[1] # 0
OfLines(b, lens) == b[1] \in 1 .. Len(lens) /\ b[2] \in 1 .. lens[b[1]]

\* What is on its way are bytes of lines in their order, one after the other
\* where nothing separates them.
Flow(w, lens) ==
  /\ \A i \in 1 .. Len(w) : w[i] \in {NUL, SENTINEL} \/ OfLines(w[i], lens)
  /\ \A i, j \in 1 .. Len(w) : i < j /\ IsText(w[i]) /\ IsText(w[j]) => Before(w[i], w[j])
  /\ \A i, j \in 1 .. Len(w) :
       i <= j /\ (\A h \in i .. j : IsText(w[h])) =>
         w[j][1] = w[i][1] /\ w[j][2] = w[i][2] + (j - i)

\* Texts printed are runs of lines, in their order.
RunOf(t, lens) ==
  \E k \in DOMAIN lens : \E a \in 1 .. Len(t) + lens[k] :
    /\ a + Len(t) - 1 <= lens[k]
    /\ t = [j \in 1 .. Len(t) |-> <<k, a + j - 1>>]
Told(texts, lens) ==
  \A i \in 1 .. Len(texts) : texts[i] # <<>> =>
    /\ RunOf(texts[i], lens)
    /\ \A h \in 1 .. i - 1 : texts[h] # <<>> =>
         Before(texts[h][Len(texts[h])], texts[i][1])

\* What is on its way comes after what has been printed.
Follows(texts, w) ==
  \A i \in 1 .. Len(texts), j \in 1 .. Len(w) :
    texts[i] # <<>> /\ IsText(w[j]) => Before(texts[i][Len(texts[i])], w[j])

Whole(w) == w # <<>> => w[Len(w)] = NUL

(***************************************************************************)
(* The invariant                                                           *)
(***************************************************************************)
Texts == Seq(Bytes)
Where == {"start", "watch", "hand", "type", "reply", "wait", "ended",
          "accept", "greet", "recv", "read"}

LineTypes ==
  /\ scene \in Scenarios
  /\ pc["S"] \in {"start", "watch", "hand", "type", "reply", "wait", "ended"}
  /\ pc["R"] \in {"start", "accept", "watch", "greet", "recv", "type", "read", "ended"}
  /\ pc \in [Sides -> Where]
  /\ sent \in [Sides -> Seq(0 .. MAX_LINE)]
  /\ \A s \in Sides : Len(sent[s]) <= scene.lines
  /\ wire \in [Sides -> Texts] /\ buf \in [Sides -> Texts]
  /\ shown \in [Sides -> Seq(Texts)]
  /\ cut \in BOOLEAN /\ made \in BOOLEAN
  /\ last \in [Sides -> {"open", "fin", "rst", "dead"}]
  /\ stray \in [Sides -> BOOLEAN]
  /\ term \in {"nobody", "child", "all"} /\ asked \in BOOLEAN

\* Who has connected, who has left, and what TCP tells of it.
Places ==
  /\ \A s \in Sides : (last[s] # "open") = (TCP /\ made /\ Left(s))
  /\ \A s \in Sides : stray[s] => made /\ Left(Other(s))
  /\ made => TCP
  /\ TCP => /\ made <=> pc["S"] \notin {"start", "ended"} \/ last["S"] # "open"
            /\ made => pc["R"] # "start"
            /\ ~made => pc["R"] \in {"start", "accept", "ended"}
            /\ pc["S"] # "wait" /\ pc["R"] # "read"
            /\ pc["S"] \in {"watch", "hand"} => pc["R"] # "type"
            /\ pc["S"] \in {"type", "reply"} => pc["R"] \in {"recv", "type", "ended"}
            /\ pc["S"] = "reply" => TwoWay
            /\ OneWay => pc["R"] # "type"
  /\ ~TCP => /\ pc["S"] \in {"start", "type", "wait", "ended"}
             /\ pc["R"] \in {"start", "read", "ended"}
             /\ pc["R"] = "start" => pc["S"] = "start"
             /\ pc["R"] = "read" => pc["S"] \in {"type", "wait"}

\* The ends of what is on its way over TCP.
Ends ==
  TCP =>
    /\ ~made => \A s \in Sides : wire[s] = <<>> /\ sent[s] = <<>> /\ shown[s] = <<>>
    /\ \A s \in Sides : Left(s) => wire[Other(s)] = <<>>
    /\ pc["R"] \in {"accept", "watch", "greet"} =>
         wire["R"] = <<>> /\ sent["R"] = <<>> /\ shown["R"] = <<>>
    /\ pc["S"] \in {"watch", "hand"} =>
         /\ sent["S"] = <<>> /\ wire["S"] = <<>> /\ shown["S"] = <<>>
         /\ sent["R"] = <<>> /\ shown["R"] = <<>>
         /\ wire["R"] \in {<<>>, Greeting}
         /\ pc["R"] = "recv" => wire["R"] # <<>>
    /\ \A i \in 1 .. Len(wire["S"]) : wire["S"][i] # SENTINEL
    /\ pc["S"] \in {"type", "reply"} => Whole(wire["S"])
    /\ pc["S"] \in {"type", "reply", "ended"} =>
         \A i \in 1 .. Len(wire["R"]) : wire["R"][i] # SENTINEL
    /\ pc["S"] \in {"type", "reply"} /\ pc["R"] \in {"recv", "type"} => Whole(wire["R"])
    /\ pc["S"] = "reply" /\ pc["R"] = "recv" => wire["S"] # <<>> \/ wire["R"] # <<>>

\* What is in the pipe, and how its child is told to end.
PipeEnds ==
  ~TCP =>
    /\ sent["R"] = <<>> /\ wire["R"] = <<>> /\ shown["S"] = <<>>
    /\ pc["S"] = "start" => sent["S"] = <<>> /\ wire["S"] = <<>> /\ shown["R"] = <<>>
    /\ pc["S"] = "type" => Whole(wire["S"])
    /\ pc["S"] \in {"start", "type"} => term = "nobody"
    /\ Unix => \A i \in 1 .. Len(wire["S"]) : wire["S"][i] # SENTINEL
    /\ ~Unix => term = "nobody"
    /\ pc["S"] = "wait" /\ pc["R"] = "read" =>
         IF Unix THEN term = "child"
         ELSE wire["S"] # <<>> /\ wire["S"][Len(wire["S"])] = SENTINEL

Streams ==
  \A s \in Sides : /\ Flow(wire[s], sent[s])
                   /\ Told(shown[Other(s)], sent[s])
                   /\ Follows(shown[Other(s)], wire[s])

Asked == term # "nobody" => asked

\* Where the two sides of an uncut exchange are: how many lines each has
\* sent, how many the other has shown of them, and what is between them.
Shown(s, n) == Len(shown[s]) = n /\ \A k \in 1 .. n : shown[s][k] = Text(k, sent[Other(s)][k])
OneLine(s) ==
  LET n == Len(sent[s]) IN n > 0 /\ wire[s] = Line(n, sent[s][n]) /\ Shown(Other(s), n - 1)
AllShown(s) == Shown(Other(s), Len(sent[s])) /\ wire[s] = <<>>
Turns ==
  TwoWay /\ ~cut /\ ~Left("S") /\ ~Left("R") /\ pc["S"] \in {"type", "reply"} =>
    \/ /\ pc["S"] = "type" /\ pc["R"] = "recv"
       /\ AllShown("S") /\ AllShown("R") /\ Len(sent["S"]) = Len(sent["R"])
    \/ /\ pc["S"] = "reply" /\ pc["R"] = "recv"
       /\ OneLine("S") /\ AllShown("R") /\ Len(sent["S"]) = Len(sent["R"]) + 1
    \/ /\ pc["S"] = "reply" /\ pc["R"] = "type"
       /\ AllShown("S") /\ AllShown("R") /\ Len(sent["S"]) = Len(sent["R"]) + 1
    \/ /\ pc["S"] = "reply" /\ pc["R"] = "recv"
       /\ AllShown("S") /\ OneLine("R") /\ Len(sent["S"]) = Len(sent["R"])

LineInv == LineTypes /\ Places /\ Ends /\ PipeEnds /\ Streams /\ Asked /\ Turns

(***************************************************************************)
(* Sequences of bytes                                                      *)
(***************************************************************************)
\* A set of places has a first one.
LEMMA FirstPlace ==
  ASSUME NEW P, P \subseteq Nat, P # {}
  PROVE  \E i \in P : \A j \in P : i <= j
<1>1. PICK x \in P : \A y \in P : <<y, x>> \notin OpToRel(<, Nat)
  BY WFMin, NatLessThanWellFounded
<1>2. \A y \in P : ~(y < x)
  BY <1>1 DEF OpToRel
<1>3. QED
  BY <1>2

\* The bytes that are no bytes of a text.
LEMMA Marks ==
  /\ NUL \in Bytes /\ SENTINEL \in Bytes /\ NUL # SENTINEL
  /\ ~IsText(NUL) /\ ~IsText(SENTINEL)
  /\ \A b : b \in {NUL, SENTINEL} => ~IsText(b)
  /\ \A lens, b : OfLines(b, lens) => IsText(b)
BY DEF NUL, SENTINEL, Bytes, IsText, OfLines

\* A piece of what is on its way.
LEMMA PieceIs ==
  ASSUME NEW w \in Texts, NEW m \in Nat \ {0}, NEW n \in Nat, n <= Len(w), m <= n + 1
  PROVE  /\ SubSeq(w, m, n) \in Texts /\ Len(SubSeq(w, m, n)) = n - m + 1
         /\ \A i \in 1 .. n - m + 1 : SubSeq(w, m, n)[i] = w[m + i - 1]
<1>1. Len(w) \in Nat /\ \A i \in m .. n : w[i] \in Bytes
  BY ElementOfSeq, LenProperties DEF Texts
<1>2. QED
  BY <1>1, SubSeqProperties DEF Texts

LEMMA FlowPiece ==
  ASSUME NEW w \in Texts, NEW m \in Nat \ {0}, NEW n \in Nat, n <= Len(w), m <= n + 1,
         NEW lens, Flow(w, lens)
  PROVE  Flow(SubSeq(w, m, n), lens)
<1> DEFINE v == SubSeq(w, m, n)
<1>1. Len(w) \in Nat
  BY LenProperties DEF Texts
<1>2. Len(v) = n - m + 1 /\ \A i \in 1 .. Len(v) : v[i] = w[m + i - 1]
  BY PieceIs
<1> HIDE DEF v
<1>3. ASSUME NEW i \in 1 .. Len(v) PROVE v[i] \in {NUL, SENTINEL} \/ OfLines(v[i], lens)
  <2>1. m + i - 1 \in 1 .. Len(w) /\ v[i] = w[m + i - 1]
    BY <1>1, <1>2
  <2>2. QED
    BY <2>1 DEF Flow
<1>4. ASSUME NEW i \in 1 .. Len(v), NEW j \in 1 .. Len(v), i < j, IsText(v[i]), IsText(v[j])
      PROVE  Before(v[i], v[j])
  <2>1. m + i - 1 \in 1 .. Len(w) /\ m + j - 1 \in 1 .. Len(w) /\ m + i - 1 < m + j - 1
    BY <1>1, <1>2, <1>4
  <2>2. v[i] = w[m + i - 1] /\ v[j] = w[m + j - 1]
    BY <1>2
  <2>3. QED
    BY <1>4, <2>1, <2>2 DEF Flow
<1>5. ASSUME NEW i \in 1 .. Len(v), NEW j \in 1 .. Len(v), i <= j,
             \A h \in i .. j : IsText(v[h])
      PROVE  v[j][1] = v[i][1] /\ v[j][2] = v[i][2] + (j - i)
  <2> DEFINE x == m + i - 1
             y == m + j - 1
  <2>1. x \in 1 .. Len(w) /\ y \in 1 .. Len(w) /\ x <= y /\ y - x = j - i
    BY <1>1, <1>2, <1>5
  <2>2. ASSUME NEW h \in x .. y PROVE IsText(w[h])
    <3>1. h - m + 1 \in i .. j /\ h - m + 1 \in 1 .. Len(v) /\ m + (h - m + 1) - 1 = h
      BY <1>1, <1>2
    <3>2. QED
      BY <1>2, <1>5, <3>1
  <2>3. w[y][1] = w[x][1] /\ w[y][2] = w[x][2] + (y - x)
    BY <2>1, <2>2 DEF Flow
  <2>4. QED
    BY <1>2, <2>1, <2>3
<1>6. QED
  BY <1>3, <1>4, <1>5 DEF Flow, v

LEMMA FlowNothing == \A lens : Flow(<<>>, lens)
BY DEF Flow

\* One line more.
LEMMA LinesMore ==
  ASSUME NEW lens \in Seq(Nat), NEW len \in Nat
  PROVE  /\ Append(lens, len) \in Seq(Nat) /\ Len(Append(lens, len)) = Len(lens) + 1
         /\ Len(lens) \in Nat
         /\ Append(lens, len)[Len(lens) + 1] = len
         /\ \A k \in 1 .. Len(lens) : Append(lens, len)[k] = lens[k]
         /\ \A b : OfLines(b, lens) => OfLines(b, Append(lens, len))
<1>1. /\ Append(lens, len) \in Seq(Nat) /\ Len(Append(lens, len)) = Len(lens) + 1
      /\ Len(lens) \in Nat
      /\ Append(lens, len)[Len(lens) + 1] = len
      /\ \A k \in 1 .. Len(lens) : Append(lens, len)[k] = lens[k]
  BY LenProperties, AppendProperties
<1>2. QED
  BY <1>1 DEF OfLines

LEMMA FlowMore ==
  ASSUME NEW w, NEW lens \in Seq(Nat), NEW len \in Nat, Flow(w, lens)
  PROVE  Flow(w, Append(lens, len))
BY LinesMore DEF Flow

\* The bytes of a line.
LEMMA LineIs ==
  ASSUME NEW k \in Nat, NEW len \in Nat
  PROVE  /\ Text(k, len) \in Texts /\ Len(Text(k, len)) = len
         /\ Line(k, len) \in Texts /\ Len(Line(k, len)) = len + 1
         /\ Line(k, len)[len + 1] = NUL
         /\ \A j \in 1 .. len : Text(k, len)[j] = <<k, j>> /\ Line(k, len)[j] = <<k, j>>
<1>1. Text(k, len) \in Texts /\ Len(Text(k, len)) = len
  BY DEF Text, Texts, Bytes
<1>2. \A j \in 1 .. len : Text(k, len)[j] = <<k, j>>
  BY DEF Text
<1>3. /\ Line(k, len) \in Texts /\ Len(Line(k, len)) = len + 1
      /\ Line(k, len)[len + 1] = NUL
      /\ \A j \in 1 .. len : Line(k, len)[j] = Text(k, len)[j]
  BY <1>1, Marks, AppendProperties DEF Line, Texts
<1>4. QED
  BY <1>1, <1>2, <1>3

\* A line is sent behind whole lines.
LEMMA FlowPut ==
  ASSUME NEW w \in Texts, NEW lens \in Seq(Nat), NEW len \in Nat, Flow(w, lens), Whole(w)
  PROVE  LET v == w \o Line(Len(lens) + 1, len)
         IN  /\ Flow(v, Append(lens, len)) /\ Whole(v) /\ v \in Texts /\ v # <<>>
             /\ (\A i \in 1 .. Len(w) : w[i] # SENTINEL) =>
                  \A i \in 1 .. Len(v) : v[i] # SENTINEL
<1> DEFINE n == Len(lens) + 1
           l == Line(n, len)
           more == Append(lens, len)
           v == w \o l
           c == Len(w)
<1>1. n \in Nat /\ n > 0 /\ c \in Nat
  BY LenProperties DEF Texts
<1>2. l \in Texts /\ Len(l) = len + 1 /\ l[len + 1] = NUL /\ \A j \in 1 .. len : l[j] = <<n, j>>
  BY <1>1, LineIs
<1>3. v \in Texts /\ Len(v) = c + len + 1
      /\ \A i \in 1 .. c + len + 1 : v[i] = IF i <= c THEN w[i] ELSE l[i - c]
  <2> HIDE DEF l
  <2>1. w \in Seq(Bytes) /\ l \in Seq(Bytes)
    BY <1>2 DEF Texts
  <2>2. /\ w \o l \in Seq(Bytes) /\ Len(w \o l) = Len(w) + Len(l)
        /\ \A i \in 1 .. Len(w) + Len(l) : (w \o l)[i] = IF i <= Len(w) THEN w[i] ELSE l[i - Len(w)]
    BY <2>1, ConcatProperties
  <2>3. Len(w) + Len(l) = c + len + 1
    BY <1>1, <1>2
  <2>4. QED
    BY <2>2, <2>3 DEF Texts
<1>4. Len(more) = n /\ more[n] = len /\ \A b : OfLines(b, lens) => OfLines(b, more)
  BY LinesMore
<1>5. \A i \in 1 .. c : v[i] = w[i]
  BY <1>1, <1>3
<1>6. \A j \in 1 .. len : v[c + j] = <<n, j>>
  BY <1>1, <1>2, <1>3
<1>7. v[c + len + 1] = NUL
  BY <1>1, <1>2, <1>3
<1>8. c > 0 => v[c] = NUL
  <2>1. c > 0 => w # <<>>
    BY EmptySeq
  <2>2. QED
    BY <1>1, <1>5, <2>1 DEF Whole
<1>9. \A i \in 1 .. Len(v) : i \in 1 .. c \/ i = c + len + 1 \/ \E j \in 1 .. len : i = c + j
  <2>1. ASSUME NEW i \in 1 .. Len(v), i \notin 1 .. c, i # c + len + 1
        PROVE  i - c \in 1 .. len /\ i = c + (i - c)
    <3>1. i \in Nat /\ i > c /\ i < c + len + 1
      BY <1>1, <1>3, <2>1
    <3> HIDE DEF v, c
    <3>2. QED
      BY <1>1, <3>1
  <2>2. QED
    BY <2>1
<1> HIDE DEF v, l, more, n, c
<1>10. \A j \in 1 .. len : OfLines(<<n, j>>, more) /\ <<n, j>> # SENTINEL
  BY <1>1, <1>4 DEF OfLines, SENTINEL
<1>11. \A i \in 1 .. c : w[i] \in {NUL, SENTINEL} \/ OfLines(w[i], lens)
  BY DEF Flow, c
<1>12. \A i \in 1 .. Len(v) : v[i] \in {NUL, SENTINEL} \/ OfLines(v[i], more)
  <2>1. \A i \in 1 .. c : v[i] \in {NUL, SENTINEL} \/ OfLines(v[i], more)
    BY <1>4, <1>5, <1>11
  <2>2. QED
    BY <1>6, <1>7, <1>9, <1>10, <2>1
<1>13. ASSUME NEW i \in 1 .. Len(v), NEW j \in 1 .. Len(v), i < j, IsText(v[i]), IsText(v[j])
       PROVE  Before(v[i], v[j])
  <2>1. i # c + len + 1 /\ j # c + len + 1
    BY <1>7, <1>13, Marks
  <2>2. CASE j \in 1 .. c
    <3>1. i \in 1 .. c
      BY <1>1, <1>13, <2>2
    <3>2. QED
      BY <1>5, <1>13, <2>2, <3>1 DEF Flow, c
  <2>3. CASE i \in 1 .. c /\ j \notin 1 .. c
    <3>1. PICK y \in 1 .. len : j = c + y
      BY <1>9, <2>1, <2>3
    <3>2. OfLines(w[i], lens)
      BY <1>5, <1>11, <1>13, <2>3, Marks
    <3>3. v[i][1] < n
      BY <1>1, <1>5, <2>3, <3>2, LenProperties DEF OfLines, n
    <3>4. v[j] = <<n, y>>
      BY <1>6, <3>1
    <3>5. QED
      BY <3>3, <3>4 DEF Before
  <2>4. CASE i \notin 1 .. c /\ j \notin 1 .. c
    <3>1. PICK x \in 1 .. len : i = c + x
      BY <1>9, <2>1, <2>4
    <3>2. PICK y \in 1 .. len : j = c + y
      BY <1>9, <2>1, <2>4
    <3>3. v[i] = <<n, x>> /\ v[j] = <<n, y>>
      BY <1>6, <3>1, <3>2
    <3>4. x < y
      BY <1>1, <1>13, <3>1, <3>2
    <3>5. QED
      BY <3>3, <3>4 DEF Before
  <2>5. QED
    BY <2>2, <2>3, <2>4
<1>14. ASSUME NEW i \in 1 .. Len(v), NEW j \in 1 .. Len(v), i <= j,
              \A h \in i .. j : IsText(v[h])
       PROVE  v[j][1] = v[i][1] /\ v[j][2] = v[i][2] + (j - i)
  <2>1. IsText(v[i]) /\ IsText(v[j])
    BY <1>14
  <2>2. i # c + len + 1 /\ j # c + len + 1
    BY <1>7, <2>1, Marks
  <2>3. CASE j \in 1 .. c
    <3>1. i \in 1 .. c /\ \A h \in i .. j : h \in 1 .. c /\ IsText(w[h])
      BY <1>1, <1>5, <1>14, <2>3
    <3>2. w[j][1] = w[i][1] /\ w[j][2] = w[i][2] + (j - i)
      BY <1>14, <2>3, <3>1 DEF Flow, c
    <3>3. QED
      BY <1>5, <2>3, <3>1, <3>2
  <2>4. CASE i \in 1 .. c /\ j \notin 1 .. c
    <3>1. c \in i .. j /\ c > 0
      BY <1>1, <1>14, <2>4
    <3>2. QED
      BY <1>8, <1>14, <3>1, Marks
  <2>5. CASE i \notin 1 .. c /\ j \notin 1 .. c
    <3>1. PICK x \in 1 .. len : i = c + x
      BY <1>9, <2>2, <2>5
    <3>2. PICK y \in 1 .. len : j = c + y
      BY <1>9, <2>2, <2>5
    <3>3. v[i] = <<n, x>> /\ v[j] = <<n, y>>
      BY <1>6, <3>1, <3>2
    <3>4. y = x + (j - i)
      BY <1>1, <3>1, <3>2
    <3>5. QED
      BY <3>3, <3>4
  <2>6. QED
    BY <1>14, <2>3, <2>4, <2>5
<1>15. Flow(v, more)
  BY <1>12, <1>13, <1>14 DEF Flow
<1>16. v # <<>> /\ Whole(v)
  BY <1>1, <1>3, <1>7 DEF Whole
<1>17. ASSUME \A i \in 1 .. Len(w) : w[i] # SENTINEL
       PROVE  \A i \in 1 .. Len(v) : v[i] # SENTINEL
  <2>1. \A i \in 1 .. c : v[i] # SENTINEL
    BY <1>5, <1>17 DEF c
  <2>2. \A j \in 1 .. len : v[c + j] # SENTINEL
    BY <1>6, <1>10
  <2>3. v[c + len + 1] # SENTINEL
    BY <1>7, Marks
  <2>4. QED
    BY <1>9, <2>1, <2>2, <2>3
<1>18. QED
  BY <1>3, <1>15, <1>16, <1>17 DEF v, more, l, n

\* The marks of the Windows NT build.
LEMMA FlowMark ==
  ASSUME NEW w \in Texts, NEW lens, Flow(w, lens), NEW b \in {NUL, SENTINEL}
  PROVE  /\ Flow(Append(w, b), lens) /\ Append(w, b) \in Texts /\ Append(w, b) # <<>>
         /\ Append(w, b)[Len(Append(w, b))] = b
<1> DEFINE v == Append(w, b)
           c == Len(w)
<1>1. /\ v \in Texts /\ Len(v) = c + 1 /\ c \in Nat /\ v[c + 1] = b
      /\ \A i \in 1 .. c : v[i] = w[i]
  BY Marks, AppendProperties, LenProperties DEF Texts
<1> HIDE DEF v
<1>2. ~IsText(v[c + 1])
  BY <1>1, Marks
<1>3. \A i \in 1 .. Len(v) : v[i] \in {NUL, SENTINEL} \/ OfLines(v[i], lens)
  BY <1>1 DEF Flow
<1>4. \A i \in 1 .. Len(v) : IsText(v[i]) => i \in 1 .. c
  BY <1>1, <1>2
<1>5. \A i, j \in 1 .. Len(v) : i < j /\ IsText(v[i]) /\ IsText(v[j]) => Before(v[i], v[j])
  BY <1>1, <1>4 DEF Flow
<1>6. ASSUME NEW i \in 1 .. Len(v), NEW j \in 1 .. Len(v), i <= j,
             \A h \in i .. j : IsText(v[h])
      PROVE  v[j][1] = v[i][1] /\ v[j][2] = v[i][2] + (j - i)
  <2>1. i \in 1 .. c /\ j \in 1 .. c /\ \A h \in i .. j : IsText(w[h])
    BY <1>1, <1>4, <1>6
  <2>2. QED
    BY <1>1, <1>6, <2>1 DEF Flow
<1>7. Flow(v, lens)
  BY <1>3, <1>5, <1>6 DEF Flow
<1>8. v # <<>> /\ v[Len(v)] = b
  BY <1>1
<1>9. QED
  BY <1>1, <1>7, <1>8 DEF v
(***************************************************************************)
(* What is printed                                                         *)
(***************************************************************************)

\* printf() stops at the first NUL, or at the end.
LEMMA PrintedIs ==
  ASSUME NEW b \in Texts
  PROVE  \E m \in 0 .. Len(b) :
           /\ Printed(b) = SubSeq(b, 1, m)
           /\ \A i \in 1 .. m : b[i] # NUL
           /\ m < Len(b) => b[m + 1] = NUL
<1> DEFINE nuls == {k \in DOMAIN b : b[k] = NUL}
<1>1. Len(b) \in Nat /\ DOMAIN b = 1 .. Len(b)
  BY LenProperties DEF Texts
<1>2. CASE nuls = {}
  <2>1. Printed(b) = b
    BY <1>2 DEF Printed
  <2>2. SubSeq(b, 1, Len(b)) = b
    BY SubSeqFull DEF Texts
  <2>3. \A i \in 1 .. Len(b) : b[i] # NUL
    BY <1>1, <1>2
  <2> DEFINE m == Len(b)
  <2>4. m \in 0 .. Len(b) /\ ~(m < Len(b)) /\ Printed(b) = SubSeq(b, 1, m)
        /\ \A i \in 1 .. m : b[i] # NUL
    BY <1>1, <2>1, <2>2, <2>3
  <2> HIDE DEF m
  <2>5. QED
    BY <2>4
<1>3. CASE nuls # {}
  <2> DEFINE x == CHOOSE k \in nuls : \A j \in nuls : k <= j
  <2>1. nuls \subseteq Nat
    BY <1>1
  <2>2. \E i \in nuls : \A j \in nuls : i <= j
    BY <1>3, <2>1, FirstPlace
  <2>3. x \in nuls /\ \A j \in nuls : x <= j
    BY <2>2
  <2>4. Printed(b) = SubSeq(b, 1, x - 1)
    BY <1>3 DEF Printed
  <2> HIDE DEF x
  <2>5. x \in 1 .. Len(b) /\ b[x] = NUL
    BY <1>1, <2>3
  <2>6. x - 1 \in 0 .. Len(b) /\ x - 1 < Len(b) /\ (x - 1) + 1 = x
    BY <1>1, <2>5
  <2>7. ASSUME NEW i \in 1 .. x - 1 PROVE b[i] # NUL
    BY <1>1, <2>3, <2>5
  <2> DEFINE m == x - 1
  <2>8. m \in 0 .. Len(b) /\ Printed(b) = SubSeq(b, 1, m) /\ b[m + 1] = NUL
        /\ \A i \in 1 .. m : b[i] # NUL
    BY <2>4, <2>5, <2>6, <2>7
  <2> HIDE DEF m
  <2>9. QED
    BY <2>8
<1>4. QED
  BY <1>2, <1>3

\* What stands at the front of what is on its way is a run of a line.
LEMMA FrontIsRun ==
  ASSUME NEW w \in Texts, NEW lens \in Seq(Nat), Flow(w, lens),
         NEW m \in 1 .. Len(w), \A i \in 1 .. m : IsText(w[i])
  PROVE  RunOf(SubSeq(w, 1, m), lens)
<1> DEFINE t == SubSeq(w, 1, m)
           k == w[1][1]
           a == w[1][2]
<1>1. Len(w) \in Nat /\ m \in Nat /\ m > 0 /\ m <= Len(w)
  BY LenProperties DEF Texts
<1>2. Len(t) = m /\ \A i \in 1 .. m : t[i] = w[i]
  BY <1>1, PieceIs
<1>3. t \in Texts
  BY <1>1, PieceIs
<1>4. \A i \in 1 .. m : w[i] \in Bytes /\ OfLines(w[i], lens)
  <2>1. \A i \in 1 .. m : i \in 1 .. Len(w)
    BY <1>1
  <2>2. \A i \in 1 .. m : w[i] \in {NUL, SENTINEL} \/ OfLines(w[i], lens)
    BY <2>1 DEF Flow
  <2>3. QED
    BY <2>1, <2>2, Marks, ElementOfSeq DEF Texts
<1>5. k \in 1 .. Len(lens) /\ a \in 1 .. lens[k] /\ lens[k] \in Nat
  <2>1. 1 \in 1 .. m
    BY <1>1
  <2>2. OfLines(w[1], lens)
    BY <1>4, <2>1
  <2>3. QED
    BY <2>2, ElementOfSeq DEF OfLines
<1>6. ASSUME NEW i \in 1 .. m PROVE w[i] = <<k, a + i - 1>> /\ a + i - 1 <= lens[k]
  <2>1. 1 \in 1 .. Len(w) /\ i \in 1 .. Len(w) /\ 1 <= i /\ \A h \in 1 .. i : IsText(w[h])
    BY <1>1
  <2>2. w[i][1] = w[1][1] /\ w[i][2] = w[1][2] + (i - 1)
    BY <2>1 DEF Flow
  <2>3. w[i] = <<w[i][1], w[i][2]>> /\ w[i][2] \in 1 .. lens[w[i][1]]
    <3>1. w[i] \in Nat \X Nat
      BY <1>4 DEF Bytes
    <3>2. OfLines(w[i], lens)
      BY <1>4
    <3>3. QED
      BY <3>1, <3>2 DEF OfLines
  <2>4. w[1][2] + (i - 1) = a + i - 1
    BY <1>5
  <2>5. QED
    BY <1>5, <2>2, <2>3, <2>4
<1> HIDE DEF t, k, a
<1>7. a + m - 1 <= lens[k] /\ a \in 1 .. m + lens[k]
  BY <1>1, <1>5, <1>6
<1>8. t = [j \in 1 .. m |-> <<k, a + j - 1>>]
  BY <1>2, <1>3, <1>6, LenProperties DEF Texts
<1>9. DOMAIN lens = 1 .. Len(lens)
  BY LenProperties
<1>10. RunOf(t, lens)
  <2>1. k \in DOMAIN lens /\ a \in 1 .. Len(t) + lens[k] /\ a + Len(t) - 1 <= lens[k]
    BY <1>2, <1>5, <1>7, <1>9
  <2>2. t = [j \in 1 .. Len(t) |-> <<k, a + j - 1>>]
    BY <1>2, <1>8
  <2>3. QED
    BY <2>1, <2>2 DEF RunOf
<1>11. QED
  BY <1>10 DEF t

\* A text that is printed comes after those before it and before what is left.
LEMMA ToldFront ==
  ASSUME NEW w \in Texts, NEW lens \in Seq(Nat), NEW texts \in Seq(Texts),
         Flow(w, lens), Told(texts, lens), Follows(texts, w),
         NEW n \in 1 .. Len(w), NEW m \in 0 .. n, \A i \in 1 .. m : IsText(w[i])
  PROVE  LET more == Append(texts, SubSeq(w, 1, m))
         IN  /\ Told(more, lens) /\ Follows(more, SubSeq(w, n + 1, Len(w)))
             /\ more \in Seq(Texts)
<1> DEFINE t == SubSeq(w, 1, m)
           more == Append(texts, t)
           rest == SubSeq(w, n + 1, Len(w))
           c == Len(texts)
<1>1. Len(w) \in Nat /\ m \in Nat /\ n \in Nat /\ n > 0 /\ m <= n /\ n <= Len(w)
  BY LenProperties DEF Texts
<1>2. t \in Texts /\ Len(t) = m /\ \A i \in 1 .. m : t[i] = w[i]
  BY <1>1, PieceIs
<1>3. Len(rest) = Len(w) - n /\ \A j \in 1 .. Len(rest) : rest[j] = w[n + j]
  BY <1>1, PieceIs
<1>4. t # <<>> => m > 0 /\ t[1] = w[1] /\ t[m] = w[m] /\ RunOf(t, lens)
  <2>1. t # <<>> => m > 0
    BY <1>1, <1>2, EmptySeq DEF Texts
  <2>2. m > 0 => m \in 1 .. Len(w) /\ 1 \in 1 .. m /\ m \in 1 .. m
    BY <1>1
  <2>3. QED
    BY <1>2, <2>1, <2>2, FrontIsRun
<1> HIDE DEF t
<1>5. /\ more \in Seq(Texts) /\ Len(more) = c + 1 /\ c \in Nat
      /\ more[c + 1] = t /\ \A i \in 1 .. c : more[i] = texts[i]
  BY <1>2, AppendProperties, LenProperties
<1> HIDE DEF more, rest, c
<1>6. ASSUME NEW h \in 1 .. c, texts[h] # <<>>, t # <<>>
      PROVE  Before(texts[h][Len(texts[h])], t[1])
  <2>1. 1 \in 1 .. Len(w) /\ IsText(w[1])
    BY <1>1, <1>4, <1>6
  <2>2. QED
    BY <1>4, <1>6, <2>1 DEF Follows, c
<1>7. ASSUME NEW i \in 1 .. Len(more), more[i] # <<>>
      PROVE  /\ RunOf(more[i], lens)
             /\ \A h \in 1 .. i - 1 : more[h] # <<>> =>
                  Before(more[h][Len(more[h])], more[i][1])
  <2>1. CASE i \in 1 .. c
    <3>1. \A h \in 1 .. i - 1 : h \in 1 .. c
      BY <1>5, <2>1
    <3>2. QED
      BY <1>5, <1>7, <2>1, <3>1 DEF Told, c
  <2>2. CASE i = c + 1
    <3>1. \A h \in 1 .. i - 1 : h \in 1 .. c
      BY <1>5, <2>2
    <3>2. more[i] = t /\ t # <<>> /\ \A h \in 1 .. i - 1 : more[h] = texts[h]
      BY <1>5, <1>7, <2>2, <3>1
    <3>3. \A h \in 1 .. i - 1 : more[h] # <<>> => Before(more[h][Len(more[h])], t[1])
      BY <1>6, <3>1, <3>2
    <3>4. QED
      BY <1>4, <3>2, <3>3
  <2>3. i \in 1 .. c \/ i = c + 1
    BY <1>5
  <2>4. QED
    BY <2>1, <2>2, <2>3
<1>8. ASSUME NEW i \in 1 .. Len(more), NEW j \in 1 .. Len(rest), more[i] # <<>>, IsText(rest[j])
      PROVE  Before(more[i][Len(more[i])], rest[j])
  <2>1. n + j \in 1 .. Len(w) /\ rest[j] = w[n + j]
    BY <1>1, <1>3
  <2>2. CASE i \in 1 .. c
    BY <1>5, <1>8, <2>1, <2>2 DEF Follows, c
  <2>3. CASE i = c + 1
    <3>1. m > 0 /\ t[m] = w[m] /\ IsText(w[m]) /\ m \in 1 .. Len(w) /\ m < n + j
      BY <1>1, <1>3, <1>4, <1>5, <1>8, <2>3
    <3>2. Before(w[m], w[n + j])
      BY <1>8, <2>1, <3>1 DEF Flow
    <3>3. QED
      BY <1>2, <1>5, <2>1, <2>3, <3>1, <3>2
  <2>4. QED
    BY <1>5, <2>2, <2>3
<1>9. Told(more, lens) /\ Follows(more, rest)
  BY <1>7, <1>8 DEF Told, Follows
<1>10. QED
  BY <1>5, <1>9 DEF more, rest, t

\* The empty text is printed.
LEMMA ToldNothing ==
  ASSUME NEW w, NEW lens, NEW texts \in Seq(Texts), Told(texts, lens), Follows(texts, w)
  PROVE  LET more == Append(texts, <<>>)
         IN  Told(more, lens) /\ Follows(more, w) /\ more \in Seq(Texts)
<1> DEFINE more == Append(texts, <<>>)
           c == Len(texts)
<1>1. <<>> \in Texts
  BY EmptySeq DEF Texts
<1>2. /\ more \in Seq(Texts) /\ Len(more) = c + 1 /\ c \in Nat
      /\ more[c + 1] = <<>> /\ \A i \in 1 .. c : more[i] = texts[i]
  BY <1>1, AppendProperties, LenProperties
<1> HIDE DEF more, c
<1>3. \A i \in 1 .. Len(more) : more[i] # <<>> =>
        /\ i \in 1 .. c /\ more[i] = texts[i]
        /\ \A h \in 1 .. i - 1 : h \in 1 .. c /\ more[h] = texts[h]
  BY <1>2
<1>4. Told(more, lens) /\ Follows(more, w)
  BY <1>3 DEF Told, Follows, c
<1>5. QED
  BY <1>2, <1>4 DEF more

\* What has been printed is of the lines sent so far, and before a new one.
LEMMA ToldMore ==
  ASSUME NEW lens \in Seq(Nat), NEW texts, NEW len \in Nat, Told(texts, lens)
  PROVE  Told(texts, Append(lens, len))
<1>1. ASSUME NEW t, RunOf(t, lens) PROVE RunOf(t, Append(lens, len))
  <2>1. DOMAIN lens = 1 .. Len(lens) /\ DOMAIN Append(lens, len) = 1 .. Len(lens) + 1
    BY LinesMore, LenProperties
  <2>2. \A k \in DOMAIN lens : k \in DOMAIN Append(lens, len) /\ Append(lens, len)[k] = lens[k]
    BY <2>1, LinesMore
  <2>3. QED
    BY <1>1, <2>2 DEF RunOf
<1>2. QED
  BY <1>1 DEF Told

\* The last byte of a run is one of the line.
LEMMA RunEnds ==
  ASSUME NEW lens \in Seq(Nat), NEW t \in Texts, RunOf(t, lens), t # <<>>
  PROVE  t[Len(t)][1] \in 1 .. Len(lens)
<1>1. PICK k \in DOMAIN lens : \E a \in 1 .. Len(t) + lens[k] :
        t = [j \in 1 .. Len(t) |-> <<k, a + j - 1>>]
  BY DEF RunOf
<1>2. PICK a \in 1 .. Len(t) + lens[k] : t = [j \in 1 .. Len(t) |-> <<k, a + j - 1>>]
  BY <1>1
<1>3. Len(t) \in 1 .. Len(t)
  BY LenProperties, EmptySeq DEF Texts
<1>4. t[Len(t)] = <<k, a + Len(t) - 1>>
  BY <1>2, <1>3
<1>5. DOMAIN lens = 1 .. Len(lens)
  BY LenProperties
<1>6. QED
  BY <1>4, <1>5

LEMMA FollowsPut ==
  ASSUME NEW w \in Texts, NEW lens \in Seq(Nat), NEW len \in Nat, NEW texts \in Seq(Texts),
         Told(texts, lens), Follows(texts, w)
  PROVE  Follows(texts, w \o Line(Len(lens) + 1, len))
<1> DEFINE n == Len(lens) + 1
           l == Line(n, len)
           v == w \o l
<1>1. n \in Nat /\ Len(w) \in Nat
  BY LenProperties DEF Texts
<1>2. l \in Texts /\ Len(l) = len + 1 /\ l[len + 1] = NUL /\ \A j \in 1 .. len : l[j] = <<n, j>>
  BY <1>1, LineIs
<1> HIDE DEF l
<1>3. /\ Len(v) = Len(w) + len + 1
      /\ \A i \in 1 .. Len(v) : v[i] = IF i <= Len(w) THEN w[i] ELSE l[i - Len(w)]
  <2>1. w \in Seq(Bytes) /\ l \in Seq(Bytes)
    BY <1>2 DEF Texts
  <2>2. /\ Len(w \o l) = Len(w) + Len(l)
        /\ \A i \in 1 .. Len(w) + Len(l) : (w \o l)[i] = IF i <= Len(w) THEN w[i] ELSE l[i - Len(w)]
    BY <2>1, ConcatProperties
  <2>3. QED
    BY <1>1, <1>2, <2>2
<1> HIDE DEF v
<1>4. ASSUME NEW i \in 1 .. Len(texts), NEW j \in 1 .. Len(v), texts[i] # <<>>, IsText(v[j])
      PROVE  Before(texts[i][Len(texts[i])], v[j])
  <2>1. CASE j <= Len(w)
    <3>1. j \in 1 .. Len(w) /\ v[j] = w[j]
      BY <1>1, <1>3, <2>1
    <3>2. QED
      BY <1>4, <3>1 DEF Follows
  <2>2. CASE ~(j <= Len(w))
    <3>1. j - Len(w) \in 1 .. len + 1 /\ v[j] = l[j - Len(w)]
      BY <1>1, <1>3, <2>2
    <3>2. j - Len(w) # len + 1
      BY <1>2, <1>4, <3>1, Marks
    <3>3. v[j][1] = n
      <4>1. j - Len(w) \in 1 .. len
        <5>1. ASSUME NEW x \in 1 .. len + 1, x # len + 1 PROVE x \in 1 .. len
          BY <5>1
        <5>2. QED
          BY <3>1, <3>2, <5>1
      <4>2. v[j] = <<n, j - Len(w)>>
        BY <1>2, <3>1, <4>1
      <4>3. QED
        BY <4>2
    <3>4. texts[i][Len(texts[i])][1] < n
      <4>1. texts[i] \in Texts /\ RunOf(texts[i], lens)
        BY <1>4, ElementOfSeq DEF Told
      <4>2. texts[i][Len(texts[i])][1] \in 1 .. Len(lens)
        BY <1>4, <4>1, RunEnds
      <4>3. QED
        BY <1>1, <4>2
    <3>5. QED
      BY <3>3, <3>4 DEF Before
  <2>3. QED
    BY <2>1, <2>2
<1>5. QED
  BY <1>4 DEF Follows, v, l, n

LEMMA FollowsMark ==
  ASSUME NEW w \in Texts, NEW texts, Follows(texts, w), NEW b \in {NUL, SENTINEL}
  PROVE  Follows(texts, Append(w, b))
<1>1. /\ Len(Append(w, b)) = Len(w) + 1 /\ Len(w) \in Nat
      /\ Append(w, b)[Len(w) + 1] = b /\ \A i \in 1 .. Len(w) : Append(w, b)[i] = w[i]
  BY Marks, AppendProperties, LenProperties DEF Texts
<1>2. \A j \in 1 .. Len(Append(w, b)) : IsText(Append(w, b)[j]) => j \in 1 .. Len(w)
  BY <1>1, Marks
<1>3. QED
  BY <1>1, <1>2 DEF Follows

\* TCP loses the end of what is on its way.
LEMMA FollowsPiece ==
  ASSUME NEW w \in Texts, NEW texts, Follows(texts, w), NEW n \in 0 .. Len(w)
  PROVE  Follows(texts, SubSeq(w, 1, n))
<1>1. /\ Len(SubSeq(w, 1, n)) = n /\ n <= Len(w) /\ Len(w) \in Nat
      /\ \A i \in 1 .. n : SubSeq(w, 1, n)[i] = w[i]
  BY PieceIs, LenProperties DEF Texts
<1>2. QED
  BY <1>1 DEF Follows

(***************************************************************************)
(* The initial states                                                      *)
(***************************************************************************)
LEMMA SidesAre ==
  /\ Sides = {"S", "R"} /\ Other("S") = "R" /\ Other("R") = "S"
  /\ \A s \in Sides : Other(s) \in Sides /\ Other(s) # s /\ Other(Other(s)) = s
  /\ \A s, t \in Sides : t = s \/ t = Other(s)
BY DEF Sides, Other

\* A scenario is of TCP or of the pipe.
LEMMA Programmed ==
  ASSUME scene \in Scenarios
  PROVE  /\ scene.program \in Programs /\ scene.lines \in Nat /\ scene.size \in Nat \ {0}
         /\ scene.program = "pipe" => scene.size > MAX_LINE
         /\ Pipe <=> ~TCP
         /\ OneWay <=> TCP /\ ~TwoWay
BY LinesAssumption DEF Programs, Pipe, TCP, OneWay, TwoWay

LEMMA EmptyTexts ==
  /\ <<>> \in Texts /\ Len(<<>>) = 0 /\ \A n : <<>> \in Seq(n)
  /\ Whole(<<>>) /\ \A lens : Flow(<<>>, lens) /\ Told(<<>>, lens)
  /\ \A texts : Follows(texts, <<>>) /\ \A w : Follows(<<>>, w)
BY DEF Texts, Whole, Flow, Told, Follows

LEMMA InitLineInv == Init => LineInv
<1> SUFFICES ASSUME Init PROVE LineInv
  OBVIOUS
<1> USE DEF Init, LinesInit, TCPInit, PipeInit
<1>1. LineTypes
  <2>1. scene \in Scenarios /\ \A s \in Sides : Len(sent[s]) <= scene.lines
    BY EmptyTexts, Programmed
  <2>2. pc \in [Sides -> Where] /\ pc["S"] = "start" /\ pc["R"] = "start"
    BY SidesAre DEF Where
  <2>3. sent \in [Sides -> Seq(0 .. MAX_LINE)]
    BY EmptyTexts
  <2>4. wire \in [Sides -> Texts] /\ buf \in [Sides -> Texts] /\ shown \in [Sides -> Seq(Texts)]
    BY EmptyTexts
  <2>5. /\ last \in [Sides -> {"open", "fin", "rst", "dead"}] /\ stray \in [Sides -> BOOLEAN]
        /\ cut \in BOOLEAN /\ made \in BOOLEAN
        /\ term \in {"nobody", "child", "all"} /\ asked \in BOOLEAN
    OBVIOUS
  <2>6. QED
    BY <2>1, <2>2, <2>3, <2>4, <2>5 DEF LineTypes
<1>2. Places
  BY SidesAre DEF Places, Left
<1>3. Ends
  BY EmptyTexts DEF Ends, Left, Sides, Other
<1>4. PipeEnds
  BY EmptyTexts DEF PipeEnds, Sides
<1>5. Streams
  BY EmptyTexts, SidesAre DEF Streams
<1>6. Asked
  BY DEF Asked
<1>7. Turns
  BY SidesAre DEF Turns
<1>8. QED
  BY <1>1, <1>2, <1>3, <1>4, <1>5, <1>6, <1>7 DEF LineInv

(***************************************************************************)
(* The steps of TCP's programs that move no bytes                          *)
(***************************************************************************)
\* TCP's programs leave the pipe alone.
LEMMA TCPLeaves ==
  ASSUME LineInv, TCP, UNCHANGED pipeVars, UNCHANGED scene
  PROVE  TCP' /\ PipeEnds' /\ Asked' /\ (OneWay' <=> OneWay) /\ (TwoWay' <=> TwoWay)
BY DEF LineInv, TCP, OneWay, TwoWay, PipeEnds, Asked, pipeVars

\* Nothing is sent, read or shown.
LEMMA Still ==
  ASSUME LineInv, UNCHANGED <<scene, sent, wire, shown>>
  PROVE  Streams'
BY DEF LineInv, Streams

\* Somebody goes on, and no byte moves.
LEMMA MovesKeep ==
  ASSUME LineInv, TCP, UNCHANGED pipeVars,
         \/ Listen \/ Accept \/ (AcceptFails /\ ~made) \/ Watch
         \/ Connect \/ ConnectFails \/ AwaitKeyboard
  PROVE  LineInv'
<1> USE DEF AcceptFails, Listen, Accept, Watch, Connect, ConnectFails, AwaitKeyboard, Goto,
            tcpVars, pipeVars
<1>1. UNCHANGED <<scene, sent, wire, buf, shown, cut, last, stray, term, asked>>
  OBVIOUS
<1>2. \E s \in Sides : \E where \in Where : pc' = [pc EXCEPT ![s] = where]
  BY SidesAre DEF Where
<1>3. LineTypes'
  <2>1. pc' \in [Sides -> Where]
    BY <1>2 DEF LineInv, LineTypes
  <2>2. made' \in BOOLEAN
    BY DEF LineInv, LineTypes
  <2>3. /\ pc'["S"] \in {"start", "watch", "hand", "type", "reply", "wait", "ended"}
        /\ pc'["R"] \in {"start", "accept", "watch", "greet", "recv", "type", "read", "ended"}
    BY SidesAre DEF LineInv, LineTypes, Where
  <2>4. QED
    BY <1>1, <2>1, <2>2, <2>3 DEF LineInv, LineTypes
<1>4. Places'
  BY <1>1, SidesAre, TCPLeaves DEF LineInv, LineTypes, Places, Left
<1>5. Ends'
  BY <1>1, SidesAre, TCPLeaves DEF LineInv, LineTypes, Places, Ends, Left
<1>6. Streams'
  BY <1>1, Still
<1>7. Turns'
  BY <1>1, SidesAre DEF LineInv, LineTypes, Places, Ends, Turns, Left, TwoWay, AllShown, Shown
<1>8. QED
  BY <1>1, <1>3, <1>4, <1>5, <1>6, <1>7, TCPLeaves DEF LineInv

(***************************************************************************)
(* A side leaves                                                           *)
(***************************************************************************)
\* What Close() does to the bytes on their way.
LEMMA CloseCuts ==
  ASSUME LineInv, NEW s \in Sides, Close(s)
  PROVE  /\ wire' \in [Sides -> Texts] /\ wire'[Other(s)] = <<>>
         /\ \E n \in 0 .. Len(wire[s]) : wire'[s] = SubSeq(wire[s], 1, n)
<1>1. wire \in [Sides -> Texts] /\ wire[s] \in Seq(Bytes) /\ Len(wire[s]) \in Nat
  BY LenProperties DEF LineInv, LineTypes, Texts
<1>2. CASE wire[Other(s)] = <<>>
  <2>1. wire' = wire
    BY <1>2 DEF Close
  <2>2. wire[s] = SubSeq(wire[s], 1, Len(wire[s]))
    BY <1>1, SubSeqFull
  <2>3. Len(wire[s]) \in 0 .. Len(wire[s])
    BY <1>1
  <2>4. wire' \in [Sides -> Texts] /\ wire'[Other(s)] = <<>>
    BY <1>1, <1>2, <2>1
  <2>5. wire'[s] = SubSeq(wire[s], 1, Len(wire[s]))
    BY <2>1, <2>2
  <2>6. QED
    BY <2>3, <2>4, <2>5
<1>3. CASE wire[Other(s)] # <<>>
  <2>1. PICK n \in 0 .. Len(wire[s]) :
          wire' = [wire EXCEPT ![s] = SubSeq(wire[s], 1, n), ![Other(s)] = <<>>]
    BY <1>3 DEF Close
  <2>2. SubSeq(wire[s], 1, n) \in Texts
    BY <1>1, PieceIs DEF Texts
  <2>3. QED
    BY <1>1, <2>1, <2>2, SidesAre, EmptyTexts
<1>4. QED
  BY <1>2, <1>3

LEMMA CloseKeeps ==
  ASSUME LineInv, TCP, UNCHANGED pipeVars, made, NEW s \in Sides, ~Left(s), Close(s)
  PROVE  LineInv'
<1>1. UNCHANGED <<scene, sent, buf, shown, cut, made, stray, term, asked>>
  BY DEF Close, pipeVars
<1>2. pc' = [pc EXCEPT ![s] = "ended"]
      /\ \E x \in {"fin", "rst"} : last' = [last EXCEPT ![s] = x]
  BY DEF Close, Goto
<1>3. wire' \in [Sides -> Texts] /\ wire'[Other(s)] = <<>>
  BY CloseCuts
<1>4. PICK n \in 0 .. Len(wire[s]) : wire'[s] = SubSeq(wire[s], 1, n)
  BY CloseCuts
<1>5. /\ wire[s] \in Texts /\ n \in Nat /\ n <= Len(wire[s]) /\ Len(wire[s]) \in Nat
      /\ Len(wire'[s]) = n
      /\ \A i \in 1 .. n : wire'[s][i] = wire[s][i]
  BY <1>4, PieceIs, LenProperties DEF LineInv, LineTypes, Texts
<1>6. wire[s] = <<>> => wire'[s] = <<>>
  BY <1>3, <1>5, EmptyTexts, EmptySeq DEF Texts
<1>7. LineTypes'
  <2>1. pc' \in [Sides -> Where] /\ pc'[s] = "ended" /\ pc'[Other(s)] = pc[Other(s)]
    BY <1>2, SidesAre DEF LineInv, LineTypes, Where
  <2>2. last' \in [Sides -> {"open", "fin", "rst", "dead"}]
    BY <1>2 DEF LineInv, LineTypes
  <2>3. QED
    BY <1>1, <1>3, <2>1, <2>2, SidesAre DEF LineInv, LineTypes
<1>8. Places'
  BY <1>1, <1>2, SidesAre, TCPLeaves DEF LineInv, LineTypes, Places, Left
<1>9. Ends'
  <2>1. \A t \in Sides : Left(t)' => wire'[Other(t)] = <<>>
    BY <1>2, <1>3, <1>6, SidesAre DEF LineInv, LineTypes, Ends, Left
  <2>2. \A t \in Sides : wire[t] = <<>> => wire'[t] = <<>>
    BY <1>3, <1>6, SidesAre
  <2>3. wire["R"] = Greeting => wire'["R"] \in {<<>>, Greeting}
    <3>1. ASSUME s = "R", wire["R"] = Greeting PROVE wire'["R"] \in {<<>>, Greeting}
      <4>1. Len(Greeting) = 1 /\ Greeting[1] = <<0, 1>> /\ Greeting \in Seq(Bytes)
        BY DEF Greeting, Bytes
      <4>2. n = 0 \/ n = 1
        BY <1>5, <3>1, <4>1
      <4>3. wire'["R"] \in Seq(Bytes)
        BY <1>3, SidesAre DEF Texts
      <4>4. CASE n = 0
        BY <1>5, <3>1, <4>3, <4>4, EmptySeq
      <4>5. CASE n = 1
        <5>1. Len(wire'["R"]) = 1 /\ wire'["R"][1] = <<0, 1>>
          BY <1>5, <3>1, <4>1, <4>5
        <5>2. QED
          BY <4>1, <4>3, <5>1, SeqEqual
      <4>6. QED
        BY <4>2, <4>4, <4>5
    <3>2. QED
      BY <1>3, <3>1, SidesAre
  <2>4. \A t \in Sides : (\A i \in 1 .. Len(wire[t]) : wire[t][i] # SENTINEL)
                           => \A i \in 1 .. Len(wire'[t]) : wire'[t][i] # SENTINEL
    BY <1>3, <1>5, SidesAre, EmptyTexts
  <2>5. QED
    BY <1>1, <1>2, <1>3, <2>1, <2>2, <2>3, <2>4, SidesAre, TCPLeaves, EmptyTexts
    DEF LineInv, LineTypes, Places, Ends, Left
<1>10. Streams'
  <2> DEFINE w == wire[s]
  <2>1. Flow(wire'[s], sent[s]) /\ Follows(shown[Other(s)], wire'[s])
    <3>1. Flow(w, sent[s]) /\ Follows(shown[Other(s)], w) /\ w \in Texts
      BY <1>5 DEF LineInv, Streams
    <3>2. wire'[s] = SubSeq(w, 1, n) /\ n \in 0 .. Len(w) /\ n \in Nat /\ n <= Len(w) /\ 1 <= n + 1
      BY <1>4, <1>5
    <3> HIDE DEF w
    <3>3. Flow(SubSeq(w, 1, n), sent[s])
      BY <3>1, <3>2, FlowPiece
    <3>4. Follows(shown[Other(s)], SubSeq(w, 1, n))
      BY <3>1, <3>2, FollowsPiece
    <3>5. QED
      BY <3>2, <3>3, <3>4
  <2>2. Flow(wire'[Other(s)], sent[Other(s)]) /\ Follows(shown[s], wire'[Other(s)])
    BY <1>3, EmptyTexts
  <2>3. QED
    BY <1>1, <2>1, <2>2, SidesAre DEF LineInv, Streams
<1>11. Turns'
  BY <1>2, SidesAre DEF LineInv, LineTypes, Turns, Left
<1>12. QED
  BY <1>1, <1>7, <1>8, <1>9, <1>10, <1>11, TCPLeaves DEF LineInv

(***************************************************************************)
(* What a side that has left is sent vanishes                              *)
(***************************************************************************)
\* Where a side goes when it has sent a line.
Onward(s, next) ==
  \/ s = "S" /\ pc["S"] = "type" /\ next = IF OneWay THEN "type" ELSE "reply"
  \/ s = "R" /\ pc["R"] = "type" /\ next = "recv"

LEMMA VanishKeeps ==
  ASSUME LineInv, TCP, UNCHANGED pipeVars, made, NEW s \in Sides, NEW next,
         Onward(s, next), Left(Other(s)), Vanish(s, next)
  PROVE  LineInv'
<1>1. UNCHANGED <<scene, sent, wire, buf, shown, cut, made, last, term, asked>>
  BY DEF Vanish, pipeVars
<1>2. pc' = [pc EXCEPT ![s] = next] /\ stray' = [stray EXCEPT ![s] = TRUE]
      /\ next \in {"type", "reply", "recv"}
  BY DEF Vanish, Goto, Onward
<1>3. LineTypes'
  BY <1>1, <1>2, SidesAre DEF LineInv, LineTypes, Where, Onward
<1>4. Places'
  BY <1>1, <1>2, SidesAre, TCPLeaves, Programmed
  DEF LineInv, LineTypes, Places, Left, Onward
<1>5. Ends'
  BY <1>1, <1>2, SidesAre, TCPLeaves DEF LineInv, LineTypes, Places, Ends, Left, Onward
<1>6. Streams'
  BY <1>1, Still
<1>7. Turns'
  BY <1>2, SidesAre DEF LineInv, LineTypes, Turns, Left, Onward
<1>8. QED
  BY <1>1, <1>3, <1>4, <1>5, <1>6, <1>7, TCPLeaves DEF LineInv

LEMMA ResetKeeps ==
  ASSUME LineInv, TCP, UNCHANGED pipeVars, NEW s \in Sides, ResetArrives(s)
  PROVE  LineInv'
<1>1. UNCHANGED <<scene, pc, sent, wire, buf, shown, cut, made, term, asked>>
  BY DEF ResetArrives, lineVars, pipeVars
<1>2. /\ stray[s] /\ stray' = [stray EXCEPT ![s] = FALSE]
      /\ last' = [last EXCEPT ![Other(s)] = "rst"]
  BY DEF ResetArrives
<1>3. LineTypes'
  BY <1>1, <1>2, SidesAre DEF LineInv, LineTypes
<1>4. Places'
  BY <1>1, <1>2, SidesAre, TCPLeaves DEF LineInv, LineTypes, Places, Left
<1>5. Ends'
  BY <1>1, SidesAre, TCPLeaves DEF LineInv, LineTypes, Places, Ends, Left
<1>6. Streams'
  BY <1>1, Still
<1>7. Turns'
  BY <1>1 DEF LineInv, Turns, Left, TwoWay, AllShown, Shown, OneLine
<1>8. QED
  BY <1>1, <1>3, <1>4, <1>5, <1>6, <1>7, TCPLeaves DEF LineInv

(***************************************************************************)
(* The handshake                                                           *)
(***************************************************************************)
LEMMA GreetKeeps ==
  ASSUME LineInv, TCP, UNCHANGED pipeVars, Greet
  PROVE  LineInv'
<1>1. UNCHANGED <<scene, sent, buf, shown, cut, made, last, term, asked>>
  BY DEF Greet, pipeVars
<1>2. pc["R"] = "greet" /\ pc' = [pc EXCEPT !["R"] = "recv"] /\ made
  BY DEF Greet, Goto, LineInv, Places
<1>3. Greeting \in Texts /\ Greeting # <<>> /\ Len(Greeting) = 1 /\ Greeting[1] = SENTINEL
  BY DEF Greeting, Texts, Bytes, SENTINEL
<1>4. \/ Left("S") /\ wire' = wire /\ stray' = [stray EXCEPT !["R"] = TRUE]
      \/ ~Left("S") /\ wire' = [wire EXCEPT !["R"] = Greeting] /\ stray' = stray
  BY DEF Greet
<1>5. LineTypes'
  <2>1. wire' \in [Sides -> Texts] /\ stray' \in [Sides -> BOOLEAN]
    BY <1>3, <1>4 DEF LineInv, LineTypes
  <2>2. QED
    BY <1>1, <1>2, <2>1, SidesAre DEF LineInv, LineTypes, Where
<1>6. Places'
  BY <1>1, <1>2, <1>4, SidesAre, TCPLeaves DEF LineInv, LineTypes, Places, Left
<1>7. ~Left("S") => pc["S"] \in {"watch", "hand"}
  BY <1>2, SidesAre DEF LineInv, LineTypes, Places, Left
<1>8. Ends'
  BY <1>1, <1>2, <1>3, <1>4, <1>7, SidesAre, TCPLeaves
  DEF LineInv, LineTypes, Places, Ends, Left
<1>9. Streams'
  <2>1. Flow(Greeting, sent["R"]) /\ Follows(shown["S"], Greeting)
    BY <1>3, Marks DEF Flow, Follows
  <2>2. QED
    BY <1>1, <1>4, <2>1, SidesAre DEF LineInv, LineTypes, Streams
<1>10. Turns'
  BY <1>1, <1>2, <1>7, SidesAre DEF LineInv, LineTypes, Turns, Left
<1>11. QED
  BY <1>1, <1>5, <1>6, <1>8, <1>9, <1>10, TCPLeaves DEF LineInv

LEMMA HandshakeKeeps ==
  ASSUME LineInv, TCP, UNCHANGED pipeVars, Handshake
  PROVE  LineInv'
<1>1. UNCHANGED <<scene, sent, buf, shown, cut, made, last, stray, term, asked>>
  BY DEF Handshake, pipeVars, tcpVars
<1>2. /\ pc["S"] = "hand" /\ pc' = [pc EXCEPT !["S"] = "type"] /\ made
      /\ wire' = [wire EXCEPT !["R"] = <<>>]
  BY SidesAre DEF Handshake, Goto, LineInv, Places
<1>3. wire["R"] # <<>> \/ Left("R")
  BY SidesAre DEF Handshake, Over0, LineInv, Places
<1>4. LineTypes'
  <2>1. wire' \in [Sides -> Texts]
    BY <1>2, EmptyTexts DEF LineInv, LineTypes
  <2>2. QED
    BY <1>1, <1>2, <2>1, SidesAre DEF LineInv, LineTypes, Where
<1>5. pc["R"] \in {"recv", "ended"}
  BY <1>2, <1>3 DEF LineInv, LineTypes, Places, Ends, Left
<1>6. Places'
  BY <1>1, <1>2, <1>5, SidesAre, TCPLeaves DEF LineInv, LineTypes, Places, Left
<1>7. Ends'
  BY <1>1, <1>2, <1>5, SidesAre, TCPLeaves, EmptyTexts
  DEF LineInv, LineTypes, Places, Ends, Left
<1>8. Streams'
  BY <1>1, <1>2, SidesAre, EmptyTexts DEF LineInv, LineTypes, Streams
<1>9. Turns'
  BY <1>1, <1>2, <1>5, SidesAre, EmptyTexts
  DEF LineInv, LineTypes, Ends, Turns, Left, AllShown, Shown
<1>10. QED
  BY <1>1, <1>4, <1>6, <1>7, <1>8, <1>9, TCPLeaves DEF LineInv

(***************************************************************************)
(* A line is sent                                                          *)
(***************************************************************************)
LEMMA LineIsSent ==
  ASSUME LineInv, NEW s \in Sides, NEW len \in 0 .. MAX_LINE, Put(s, len), Whole(wire[s])
  PROVE  /\ sent' = [sent EXCEPT ![s] = Append(sent[s], len)]
         /\ sent' \in [Sides -> Seq(0 .. MAX_LINE)]
         /\ Len(sent'[s]) = Len(sent[s]) + 1 /\ sent'[s][Len(sent[s]) + 1] = len
         /\ \A k \in 1 .. Len(sent[s]) : sent'[s][k] = sent[s][k]
         /\ wire' = [wire EXCEPT ![s] = wire[s] \o Line(Len(sent[s]) + 1, len)]
         /\ wire' \in [Sides -> Texts] /\ Whole(wire'[s]) /\ wire'[s] # <<>>
         /\ (\A i \in 1 .. Len(wire[s]) : wire[s][i] # SENTINEL) =>
              \A i \in 1 .. Len(wire'[s]) : wire'[s][i] # SENTINEL
         /\ wire[s] = <<>> => wire'[s] = Line(Len(sent[s]) + 1, len)
         /\ UNCHANGED shown => Streams'
<1> DEFINE w == wire[s]
           lens == sent[s]
           l == Line(Len(lens) + 1, len)
<1>1. /\ w \in Texts /\ lens \in Seq(Nat) /\ lens \in Seq(0 .. MAX_LINE) /\ len \in Nat
      /\ shown[Other(s)] \in Seq(Texts)
  <2>1. lens \in Seq(0 .. MAX_LINE)
    BY DEF LineInv, LineTypes
  <2>2. lens \in Seq(Nat)
    BY <2>1, LinesAssumption, ElementOfSeq, LenProperties, SeqDef
  <2>3. QED
    BY <2>1, <2>2, SidesAre DEF LineInv, LineTypes
<1>2. /\ Flow(w \o l, Append(lens, len)) /\ Whole(w \o l) /\ w \o l \in Texts
      /\ w \o l # <<>>
      /\ (\A i \in 1 .. Len(w) : w[i] # SENTINEL) =>
           \A i \in 1 .. Len(w \o l) : (w \o l)[i] # SENTINEL
  <2>1. Flow(w, lens) /\ Whole(w)
    BY DEF LineInv, Streams
  <2> HIDE DEF w, lens
  <2>2. QED
    BY <1>1, <2>1, FlowPut
<1>3. sent' = [sent EXCEPT ![s] = Append(lens, len)] /\ wire' = [wire EXCEPT ![s] = w \o l]
  BY DEF Put, NextLine
<1>4. sent \in [Sides -> Seq(0 .. MAX_LINE)] /\ wire \in [Sides -> Texts]
  BY DEF LineInv, LineTypes
<1>5. sent'[s] = Append(lens, len) /\ wire'[s] = w \o l
  BY <1>3, <1>4
<1>6. Append(lens, len) \in Seq(0 .. MAX_LINE)
  BY <1>1, AppendProperties
<1>7. w = <<>> => w \o l = l
  BY <1>1, LineIs, ConcatEmptySeq, LenProperties DEF Texts
<1>8. UNCHANGED shown => Streams'
  <2>1. Told(shown[Other(s)], Append(lens, len)) /\ Follows(shown[Other(s)], w \o l)
    <3>1. Told(shown[Other(s)], lens) /\ Follows(shown[Other(s)], w)
      BY DEF LineInv, Streams
    <3> HIDE DEF w, lens
    <3>2. QED
      BY <1>1, <3>1, ToldMore, FollowsPut
  <2>2. sent'[Other(s)] = sent[Other(s)] /\ wire'[Other(s)] = wire[Other(s)]
    BY <1>3, <1>4, SidesAre
  <2>3. Flow(wire'[s], sent'[s]) /\ Told(shown[Other(s)], sent'[s])
        /\ Follows(shown[Other(s)], wire'[s])
    BY <1>2, <1>5, <2>1
  <2>4. Flow(wire'[Other(s)], sent'[Other(s)]) /\ Told(shown[s], sent'[Other(s)])
        /\ Follows(shown[s], wire'[Other(s)])
    BY <2>2, SidesAre DEF LineInv, Streams
  <2> HIDE DEF w, lens, l
  <2>5. QED
    BY <2>3, <2>4, SidesAre DEF Streams
<1>9. Len(Append(lens, len)) = Len(lens) + 1 /\ Append(lens, len)[Len(lens) + 1] = len
      /\ \A k \in 1 .. Len(lens) : Append(lens, len)[k] = lens[k]
  BY <1>1, LinesMore
<1>10. sent' \in [Sides -> Seq(0 .. MAX_LINE)] /\ wire' \in [Sides -> Texts]
  <2> HIDE DEF w, lens, l
  <2>1. QED
    BY <1>2, <1>3, <1>4, <1>6
<1>11. QED
  BY <1>2, <1>3, <1>5, <1>7, <1>8, <1>9, <1>10

\* Who has a line to send is connected, and whatever is before it is whole.
LEMMA WholeBefore ==
  ASSUME LineInv, TCP, NEW s \in Sides, NEW next, Onward(s, next)
  PROVE  /\ made /\ ~Left(s)
         /\ ~Left(Other(s)) => /\ Whole(wire[s])
                               /\ \A i \in 1 .. Len(wire[s]) : wire[s][i] # SENTINEL
                               /\ pc["S"] \in {"type", "reply"}
                               /\ pc["R"] \in {"recv", "type"}
<1>1. CASE s = "S"
  BY <1>1, SidesAre DEF Onward, LineInv, LineTypes, Places, Ends, Left
<1>2. CASE s = "R"
  BY <1>2, SidesAre DEF Onward, LineInv, LineTypes, Places, Ends, Left
<1>3. QED
  BY <1>1, <1>2, SidesAre

LEMMA PutKeeps ==
  ASSUME LineInv, TCP, UNCHANGED pipeVars, NEW s \in Sides, NEW next, Onward(s, next),
         ~Left(Other(s)), More(s), NEW len \in 0 .. MAX_LINE, Put(s, len), Goto(s, next),
         UNCHANGED <<scene, buf, shown, cut, made, last, stray>>
  PROVE  LineInv'
<1>1. /\ made /\ ~Left(s) /\ Whole(wire[s])
      /\ \A i \in 1 .. Len(wire[s]) : wire[s][i] # SENTINEL
      /\ pc["S"] \in {"type", "reply"} /\ pc["R"] \in {"recv", "type"}
  BY WholeBefore
<1>2. /\ sent' = [sent EXCEPT ![s] = Append(sent[s], len)]
      /\ sent' \in [Sides -> Seq(0 .. MAX_LINE)]
      /\ Len(sent'[s]) = Len(sent[s]) + 1 /\ sent'[s][Len(sent[s]) + 1] = len
      /\ \A k \in 1 .. Len(sent[s]) : sent'[s][k] = sent[s][k]
  BY <1>1, LineIsSent
<1>3. /\ wire' \in [Sides -> Texts] /\ Whole(wire'[s]) /\ wire'[s] # <<>>
      /\ \A i \in 1 .. Len(wire'[s]) : wire'[s][i] # SENTINEL
      /\ wire[s] = <<>> => wire'[s] = Line(Len(sent[s]) + 1, len)
      /\ wire'[Other(s)] = wire[Other(s)]
  <2>1. wire' = [wire EXCEPT ![s] = wire[s] \o Line(Len(sent[s]) + 1, len)]
    BY <1>1, LineIsSent
  <2>2. wire'[Other(s)] = wire[Other(s)]
    BY <2>1, SidesAre DEF LineInv, LineTypes
  <2>3. QED
    BY <1>1, <2>2, LineIsSent
<1>4. Streams'
  BY <1>1, LineIsSent
<1>5. pc' = [pc EXCEPT ![s] = next] /\ pc' \in [Sides -> Where]
      /\ next \in {"type", "reply", "recv"}
  BY DEF Goto, Onward, LineInv, LineTypes, Where
<1>6. UNCHANGED <<scene, buf, shown, cut, made, last, stray, term, asked>>
  BY DEF pipeVars
<1>7. sent'[Other(s)] = sent[Other(s)] /\ Len(sent[s]) \in Nat
  BY <1>2, SidesAre, LenProperties DEF LineInv, LineTypes
<1>8. LineTypes'
  <2>1. \A t \in Sides : Len(sent'[t]) <= scene'.lines
    BY <1>2, <1>6, <1>7, SidesAre, Programmed DEF LineInv, LineTypes, More
  <2>2. /\ pc'["S"] \in {"start", "watch", "hand", "type", "reply", "wait", "ended"}
        /\ pc'["R"] \in {"start", "accept", "watch", "greet", "recv", "type", "read", "ended"}
    BY <1>5, SidesAre DEF LineInv, LineTypes, Onward
  <2>3. QED
    BY <1>2, <1>3, <1>5, <1>6, <2>1, <2>2 DEF LineInv, LineTypes
<1>9. Places'
  BY <1>1, <1>5, <1>6, SidesAre, TCPLeaves, Programmed
  DEF LineInv, LineTypes, Places, Left, Onward
<1>10. Ends'
  BY <1>1, <1>3, <1>5, <1>6, SidesAre, TCPLeaves, Programmed
  DEF LineInv, LineTypes, Places, Ends, Left, Onward
<1>11. Turns'
  <2> SUFFICES ASSUME TwoWay', ~cut', ~Left("S")', ~Left("R")'
               PROVE  Turns'
    BY DEF Turns
  <2>1. TwoWay /\ ~cut /\ ~Left("S") /\ ~Left("R") /\ ~OneWay
    BY <1>1, <1>6, Programmed DEF TwoWay, OneWay, Left
  <2>2. CASE s = "S"
    <3>1. /\ pc["R"] = "recv" /\ pc["S"] = "type"
          /\ AllShown("S") /\ AllShown("R") /\ Len(sent["S"]) = Len(sent["R"])
      BY <1>1, <2>1, <2>2 DEF LineInv, Turns, Onward
    <3>2. pc'["S"] = "reply" /\ pc'["R"] = "recv"
      BY <1>5, <2>1, <2>2, <3>1, SidesAre DEF LineInv, LineTypes, Onward
    <3>3. AllShown("R")'
      BY <1>2, <1>3, <1>6, <1>7, <2>2, <3>1, SidesAre DEF AllShown, Shown
    <3>4. OneLine("S")'
      <4>1. /\ Len(shown'["R"]) = Len(sent["S"])
            /\ \A k \in 1 .. Len(sent["S"]) : shown'["R"][k] = Text(k, sent'["S"][k])
        BY <1>2, <1>6, <2>2, <3>1, SidesAre DEF AllShown, Shown
      <4>2. wire["S"] = <<>>
        BY <3>1 DEF AllShown
      <4>3. PICK n \in Nat : n = Len(sent["S"])
        BY <1>7, <2>2, SidesAre, LenProperties DEF LineInv, LineTypes
      <4>4. Len(sent'["S"]) = n + 1 /\ wire'["S"] = Line(n + 1, sent'["S"][n + 1])
        BY <1>2, <1>3, <1>7, <4>2, <4>3, <2>2, SidesAre
      <4>5. Shown("R", n)'
        BY <4>1, <4>3, SidesAre DEF Shown
      <4>6. QED
        BY <4>4, <4>5, SidesAre DEF OneLine
    <3>5. Len(sent'["S"]) = Len(sent'["R"]) + 1
      BY <1>2, <1>7, <2>2, <3>1, SidesAre
    <3>6. QED
      BY <3>2, <3>3, <3>4, <3>5 DEF Turns
  <2>3. CASE s = "R"
    <3>1. /\ pc["R"] = "type" /\ pc["S"] = "reply"
          /\ AllShown("S") /\ AllShown("R") /\ Len(sent["S"]) = Len(sent["R"]) + 1
      BY <1>1, <2>1, <2>3 DEF LineInv, Turns, Onward
    <3>2. pc'["S"] = "reply" /\ pc'["R"] = "recv"
      BY <1>5, <2>1, <2>3, <3>1, SidesAre DEF LineInv, LineTypes, Onward
    <3>3. AllShown("S")'
      BY <1>2, <1>3, <1>6, <1>7, <2>3, <3>1, SidesAre DEF AllShown, Shown
    <3>4. OneLine("R")'
      <4>1. /\ Len(shown'["S"]) = Len(sent["R"])
            /\ \A k \in 1 .. Len(sent["R"]) : shown'["S"][k] = Text(k, sent'["R"][k])
        BY <1>2, <1>6, <2>3, <3>1, SidesAre DEF AllShown, Shown
      <4>2. wire["R"] = <<>>
        BY <3>1 DEF AllShown
      <4>3. PICK n \in Nat : n = Len(sent["R"])
        BY <1>7, <2>3, SidesAre, LenProperties DEF LineInv, LineTypes
      <4>4. Len(sent'["R"]) = n + 1 /\ wire'["R"] = Line(n + 1, sent'["R"][n + 1])
        BY <1>2, <1>3, <1>7, <4>2, <4>3, <2>3, SidesAre
      <4>5. Shown("S", n)'
        BY <4>1, <4>3, SidesAre DEF Shown
      <4>6. QED
        BY <4>4, <4>5, SidesAre DEF OneLine
    <3>5. Len(sent'["S"]) = Len(sent'["R"])
      BY <1>2, <1>7, <2>3, <3>1, SidesAre
    <3>6. QED
      BY <3>2, <3>3, <3>4, <3>5 DEF Turns
  <2>4. QED
    BY <2>2, <2>3, SidesAre
<1>12. QED
  BY <1>4, <1>6, <1>8, <1>9, <1>10, <1>11, TCPLeaves DEF LineInv

LEMMA SendKeeps ==
  ASSUME LineInv, TCP, UNCHANGED pipeVars, NEW s \in Sides, NEW next, Onward(s, next),
         SendLine(s, next)
  PROVE  LineInv'
<1>1. made /\ ~Left(s)
  BY WholeBefore
<1>2. CASE Close(s)
  BY <1>1, <1>2, CloseKeeps
<1>3. CASE ~Lost(s) /\ Left(Other(s)) /\ Vanish(s, next)
  BY <1>1, <1>3, VanishKeeps
<1>4. CASE /\ ~Lost(s) /\ ~Left(Other(s)) /\ More(s)
           /\ \E len \in 0 .. MAX_LINE : Put(s, len)
           /\ Goto(s, next)
           /\ UNCHANGED <<scene, buf, shown, cut, made, last, stray>>
  BY <1>4, PutKeeps
<1>5. QED
  BY <1>2, <1>3, <1>4 DEF SendLine

(***************************************************************************)
(* Bytes are read and shown                                                *)
(***************************************************************************)
\* What is printed of a buffer that starts with what has been read, when the
\* buffer holds no more or there is a NUL in what has been read.
LEMMA PrintedFront ==
  ASSUME NEW w \in Texts, NEW n \in 1 .. Len(w),
         NEW after \in Texts, n <= Len(after), \A i \in 1 .. n : after[i] = w[i],
         Len(after) = n \/ \E i \in 1 .. n : w[i] = NUL
  PROVE  \E m \in 0 .. n : /\ Printed(after) = SubSeq(w, 1, m)
                           /\ \A i \in 1 .. m : w[i] # NUL
                           /\ m < n => w[m + 1] = NUL
<1>1. n \in Nat /\ n > 0 /\ n <= Len(w) /\ Len(w) \in Nat /\ Len(after) \in Nat
  BY LenProperties DEF Texts
<1>2. PICK m \in 0 .. Len(after) : /\ Printed(after) = SubSeq(after, 1, m)
                                   /\ \A i \in 1 .. m : after[i] # NUL
                                   /\ m < Len(after) => after[m + 1] = NUL
  BY PrintedIs
<1>3. m \in 0 .. n
  <2>1. CASE Len(after) = n
    BY <2>1
  <2>2. CASE \E i \in 1 .. n : w[i] = NUL
    <3>1. PICK i \in 1 .. n : w[i] = NUL
      BY <2>2
    <3>2. ~(i <= m)
      <4>1. i <= m => i \in 1 .. m
        BY <3>1, <1>2
      <4>2. QED
        BY <1>2, <3>1, <4>1
    <3>3. QED
      BY <1>1, <1>2, <3>1, <3>2
  <2>3. QED
    BY <2>1, <2>2
<1>4. \A i \in 1 .. m : i \in 1 .. n /\ i \in 1 .. Len(w) /\ w[i] # NUL
  <2>1. \A i \in 1 .. m : i \in 1 .. n /\ i \in 1 .. Len(w) /\ i \in 1 .. Len(after)
    BY <1>1, <1>2, <1>3
  <2>2. \A i \in 1 .. m : after[i] # NUL
    BY <1>2
  <2>3. QED
    BY <2>1, <2>2
<1>5. SubSeq(after, 1, m) = SubSeq(w, 1, m)
  <2>1. m \in Nat /\ m <= Len(w) /\ m <= Len(after) /\ 1 <= m + 1
    BY <1>1, <1>2, <1>3
  <2>2. SubSeq(after, 1, m) \in Texts /\ SubSeq(w, 1, m) \in Texts
        /\ Len(SubSeq(after, 1, m)) = m /\ Len(SubSeq(w, 1, m)) = m
    BY <2>1, PieceIs
  <2>3. \A i \in 1 .. m : SubSeq(after, 1, m)[i] = after[i] /\ SubSeq(w, 1, m)[i] = w[i]
    <3>1. \A i \in 1 .. m - 1 + 1 : SubSeq(after, 1, m)[i] = after[1 + i - 1]
      BY <2>1, PieceIs
    <3>2. \A i \in 1 .. m - 1 + 1 : SubSeq(w, 1, m)[i] = w[1 + i - 1]
      BY <2>1, PieceIs
    <3>3. \A i \in 1 .. m : i \in 1 .. m - 1 + 1 /\ 1 + i - 1 = i
      BY <2>1
    <3>4. QED
      BY <3>1, <3>2, <3>3
  <2>4. \A i \in 1 .. m : SubSeq(after, 1, m)[i] = SubSeq(w, 1, m)[i]
    BY <1>4, <2>3
  <2>5. QED
    BY <2>2, <2>4, SeqEqual DEF Texts
<1>6. m < n => w[m + 1] = NUL
  <2>1. m < n => m + 1 \in 1 .. n /\ m < Len(after)
    BY <1>1, <1>3
  <2>2. QED
    BY <1>2, <2>1
<1>7. QED
  BY <1>2, <1>3, <1>4, <1>5, <1>6

LEMMA ReadAndShown ==
  ASSUME NEW w \in Texts, NEW lens \in Seq(Nat), NEW texts \in Seq(Texts),
         Flow(w, lens), Told(texts, lens), Follows(texts, w),
         NEW n \in 1 .. Len(w), \A i \in 1 .. n : w[i] # SENTINEL,
         NEW t, \E m \in 0 .. n : t = SubSeq(w, 1, m) /\ \A i \in 1 .. m : w[i] # NUL
  PROVE  LET more == Append(texts, t)
             rest == SubSeq(w, n + 1, Len(w))
         IN  /\ more \in Seq(Texts) /\ Told(more, lens)
             /\ rest \in Texts /\ Flow(rest, lens) /\ Follows(more, rest)
<1>1. n \in Nat /\ n > 0 /\ n <= Len(w) /\ Len(w) \in Nat
  BY LenProperties DEF Texts
<1>2. PICK m \in 0 .. n : t = SubSeq(w, 1, m) /\ \A i \in 1 .. m : w[i] # NUL
  OBVIOUS
<1>3. \A i \in 1 .. m : i \in 1 .. n /\ i \in 1 .. Len(w)
  BY <1>1, <1>2
<1>4. \A i \in 1 .. m : IsText(w[i])
  <2>1. \A i \in 1 .. m : w[i] \in {NUL, SENTINEL} \/ OfLines(w[i], lens)
    BY <1>3 DEF Flow
  <2>2. QED
    BY <1>2, <1>3, <2>1, Marks
<1>5. /\ SubSeq(w, n + 1, Len(w)) \in Texts
      /\ Flow(SubSeq(w, n + 1, Len(w)), lens)
  <2>1. n + 1 \in Nat \ {0} /\ n + 1 <= Len(w) + 1
    BY <1>1
  <2>2. SubSeq(w, n + 1, Len(w)) \in Texts
    BY <1>1, <2>1, PieceIs
  <2>3. Flow(SubSeq(w, n + 1, Len(w)), lens)
    BY <1>1, <2>1, FlowPiece
  <2>4. QED
    BY <2>2, <2>3
<1>6. LET more == Append(texts, SubSeq(w, 1, m))
      IN  /\ Told(more, lens) /\ Follows(more, SubSeq(w, n + 1, Len(w)))
          /\ more \in Seq(Texts)
  BY <1>4, ToldFront
<1>7. QED
  BY <1>2, <1>5, <1>6

\* What is left behind what has been read.
LEMMA RestIs ==
  ASSUME NEW w \in Texts, NEW n \in 1 .. Len(w)
  PROVE  LET rest == SubSeq(w, n + 1, Len(w))
         IN  /\ rest \in Texts /\ Len(rest) = Len(w) - n
             /\ \A i \in 1 .. Len(rest) : rest[i] = w[n + i] /\ n + i \in 1 .. Len(w)
             /\ rest # <<>> => rest[Len(rest)] = w[Len(w)]
             /\ rest = <<>> <=> n = Len(w)
<1> DEFINE rest == SubSeq(w, n + 1, Len(w))
<1>1. n \in Nat /\ n > 0 /\ n <= Len(w) /\ Len(w) \in Nat
  BY LenProperties DEF Texts
<1>2. rest \in Texts /\ Len(rest) = Len(w) - n
      /\ \A i \in 1 .. Len(w) - n : rest[i] = w[n + i]
  <2>1. n + 1 \in Nat \ {0} /\ n + 1 <= Len(w) + 1
    BY <1>1
  <2>2. rest \in Texts /\ Len(rest) = Len(w) - (n + 1) + 1
        /\ \A i \in 1 .. Len(w) - (n + 1) + 1 : rest[i] = w[(n + 1) + i - 1]
    BY <1>1, <2>1, PieceIs
  <2>3. Len(w) - (n + 1) + 1 = Len(w) - n
        /\ \A i \in 1 .. Len(w) - n : (n + 1) + i - 1 = n + i
    BY <1>1
  <2>4. QED
    BY <2>2, <2>3
<1>3. rest = <<>> <=> n = Len(w)
  <2> HIDE DEF rest
  <2>1. rest = <<>> <=> Len(rest) = 0
    BY <1>2, EmptySeq DEF Texts
  <2>2. QED
    BY <1>1, <1>2, <2>1
<1> HIDE DEF rest
<1>4. rest # <<>> => Len(rest) \in 1 .. Len(w) - n /\ n + Len(rest) = Len(w)
  BY <1>1, <1>2, <1>3
<1>5. \A i \in 1 .. Len(rest) : rest[i] = w[n + i] /\ n + i \in 1 .. Len(w)
  BY <1>1, <1>2
<1>6. rest # <<>> => rest[Len(rest)] = w[Len(w)]
  BY <1>2, <1>4
<1>7. QED
  BY <1>2, <1>3, <1>5, <1>6 DEF rest

\* A line that is read to its end is shown whole.
LEMMA WholeLine ==
  ASSUME NEW k \in Nat, NEW len \in Nat, NEW n \in 1 .. Len(Line(k, len)),
         Line(k, len)[n] = NUL, NEW m \in 0 .. n,
         \A i \in 1 .. m : Line(k, len)[i] # NUL, m < n => Line(k, len)[m + 1] = NUL
  PROVE  n = len + 1 /\ SubSeq(Line(k, len), 1, m) = Text(k, len)
<1> DEFINE l == Line(k, len)
<1>1. /\ l \in Texts /\ Len(l) = len + 1 /\ l[len + 1] = NUL
      /\ Text(k, len) \in Texts /\ Len(Text(k, len)) = len
      /\ \A j \in 1 .. len : Text(k, len)[j] = <<k, j>> /\ l[j] = <<k, j>>
  BY LineIs
<1>2. \A j \in 1 .. len : l[j] # NUL
  BY <1>1 DEF NUL
<1> HIDE DEF l
<1>3. n = len + 1
  BY <1>1, <1>2 DEF l
<1>4. m = len
  <2>1. m # n
    BY <1>3 DEF l
  <2>2. m < n
    BY <1>3, <2>1
  <2>3. m + 1 \notin 1 .. len
    BY <1>2, <2>2 DEF l
  <2>4. QED
    BY <1>3, <2>2, <2>3
<1>5. QED
  <2>1. len <= Len(l) /\ 1 <= len + 1
    BY <1>1
  <2>2. SubSeq(l, 1, len) \in Texts /\ Len(SubSeq(l, 1, len)) = len
        /\ \A i \in 1 .. len - 1 + 1 : SubSeq(l, 1, len)[i] = l[1 + i - 1]
    BY <1>1, <2>1, PieceIs
  <2>3. \A i \in 1 .. len : i \in 1 .. len - 1 + 1 /\ 1 + i - 1 = i
    OBVIOUS
  <2>4. \A i \in 1 .. len : SubSeq(l, 1, len)[i] = Text(k, len)[i]
    BY <1>1, <2>2, <2>3
  <2>5. SubSeq(l, 1, len) = Text(k, len)
    BY <1>1, <2>2, <2>4, SeqEqual DEF Texts
  <2>6. QED
    BY <1>3, <1>4, <2>5 DEF l

\* Where a side goes when it has read.
Reads(s, next) ==
  \/ s = "R" /\ pc["R"] = "recv" /\ next = IF OneWay THEN "recv" ELSE "type"
  \/ s = "S" /\ pc["S"] = "reply" /\ next = "type"

\* Over TCP a zeroed buffer holds what has been read and nothing else.
LEMMA ShowReads ==
  ASSUME LineInv, TCP, NEW s \in Sides, NEW next, Reads(s, next),
         NEW n \in 1 .. Len(wire[Other(s)]), Show(s, n, next)
  PROVE  LET o == Other(s)
             w == wire[o]
         IN  /\ w \in Texts /\ \A i \in 1 .. Len(w) : w[i] # SENTINEL
             /\ wire' = [wire EXCEPT ![o] = SubSeq(w, n + 1, Len(w))]
             /\ wire' \in [Sides -> Texts] /\ buf' \in [Sides -> Texts]
             /\ shown' \in [Sides -> Seq(Texts)]
             /\ cut' = (cut \/ w[n] # NUL)
             /\ \E m \in 0 .. n :
                  /\ shown' = [shown EXCEPT ![s] = Append(shown[s], SubSeq(w, 1, m))]
                  /\ \A i \in 1 .. m : w[i] # NUL
                  /\ m < n => w[m + 1] = NUL
             /\ UNCHANGED <<scene, sent>> => Streams'
<1> DEFINE o == Other(s)
           w == wire[o]
           piece == SubSeq(w, 1, n)
           rest == SubSeq(w, n + 1, Len(w))
<1>1. /\ o \in Sides /\ o # s /\ Other(o) = s /\ w \in Texts
      /\ shown[s] \in Seq(Texts) /\ sent[o] \in Seq(Nat)
  <2>1. o \in Sides /\ o # s /\ Other(o) = s
    BY SidesAre
  <2>2. sent[o] \in Seq(Nat)
    <3>1. sent[o] \in Seq(0 .. MAX_LINE)
      BY <2>1 DEF LineInv, LineTypes
    <3>2. QED
      BY <3>1, LinesAssumption, ElementOfSeq, LenProperties, SeqDef
  <2>3. QED
    BY <2>1, <2>2 DEF LineInv, LineTypes
<1>2. \A i \in 1 .. Len(w) : w[i] # SENTINEL
  BY SidesAre DEF LineInv, LineTypes, Ends, Reads
<1>3. n \in Nat /\ n > 0 /\ n <= Len(w) /\ Len(w) \in Nat
  BY <1>1, LenProperties DEF Texts
<1>4. piece \in Texts /\ Len(piece) = n /\ \A i \in 1 .. n : piece[i] = w[i]
  <2>1. 1 <= n + 1 /\ 1 \in Nat \ {0}
    BY <1>3
  <2> HIDE DEF w
  <2>2. piece \in Texts /\ Len(piece) = n - 1 + 1
        /\ \A i \in 1 .. n - 1 + 1 : piece[i] = w[1 + i - 1]
    BY <1>1, <1>3, <2>1, PieceIs
  <2>3. n - 1 + 1 = n /\ \A i \in 1 .. n : 1 + i - 1 = i
    BY <1>3
  <2>4. QED
    BY <2>2, <2>3
<1>5. Over(Zeroed(buf[s]), piece) = piece
  <2> HIDE DEF piece
  <2>1. SubSeq(<<>>, n + 1, 0) = <<>>
    BY <1>3, SubSeqEmpty
  <2>2. piece \o <<>> = piece
    BY <1>4, ConcatEmptySeq DEF Texts
  <2>3. QED
    BY <1>4, <2>1, <2>2, EmptyTexts DEF Over, Zeroed
<1>6. /\ buf' = [buf EXCEPT ![s] = piece]
      /\ shown' = [shown EXCEPT ![s] = Append(shown[s], Printed(piece))]
      /\ cut' = (cut \/ piece[n] # NUL)
      /\ wire' = [wire EXCEPT ![o] = rest]
  BY <1>5 DEF Show
<1>7. /\ Append(shown[s], Printed(piece)) \in Seq(Texts)
      /\ Told(Append(shown[s], Printed(piece)), sent[o])
      /\ rest \in Texts /\ Flow(rest, sent[o])
      /\ Follows(Append(shown[s], Printed(piece)), rest)
      /\ \E m \in 0 .. n : /\ Printed(piece) = SubSeq(w, 1, m)
                           /\ \A i \in 1 .. m : w[i] # NUL
                           /\ m < n => w[m + 1] = NUL
  <2>1. Flow(w, sent[o]) /\ Told(shown[s], sent[o]) /\ Follows(shown[s], w)
    BY <1>1 DEF LineInv, Streams
  <2>2. n \in 1 .. Len(w) /\ n <= Len(piece) /\ \A i \in 1 .. n : w[i] # SENTINEL
    BY <1>2, <1>3, <1>4
  <2>3. /\ w \in Texts /\ sent[o] \in Seq(Nat) /\ shown[s] \in Seq(Texts) /\ piece \in Texts
        /\ Len(piece) = n /\ \A i \in 1 .. n : piece[i] = w[i]
    BY <1>1, <1>4
  <2> HIDE DEF w, piece, o
  <2>4. \E m \in 0 .. n : /\ Printed(piece) = SubSeq(w, 1, m)
                          /\ \A i \in 1 .. m : w[i] # NUL
                          /\ m < n => w[m + 1] = NUL
    BY <2>2, <2>3, PrintedFront
  <2> DEFINE t == Printed(piece)
  <2>5. \E m \in 0 .. n : t = SubSeq(w, 1, m) /\ \A i \in 1 .. m : w[i] # NUL
    BY <2>4
  <2> HIDE DEF t
  <2>6. Append(shown[s], t) \in Seq(Texts) /\ Told(Append(shown[s], t), sent[o])
    BY <2>1, <2>2, <2>3, <2>5, ReadAndShown
  <2>7. rest \in Texts /\ Flow(rest, sent[o]) /\ Follows(Append(shown[s], t), rest)
    BY <2>1, <2>2, <2>3, <2>5, ReadAndShown
  <2>8. QED
    BY <2>4, <2>6, <2>7 DEF t
<1>8. /\ wire' \in [Sides -> Texts] /\ buf' \in [Sides -> Texts]
      /\ shown' \in [Sides -> Seq(Texts)]
  <2>1. /\ wire \in [Sides -> Texts] /\ buf \in [Sides -> Texts]
        /\ shown \in [Sides -> Seq(Texts)]
    BY DEF LineInv, LineTypes
  <2> HIDE DEF w, piece, o, rest
  <2>2. QED
    BY <1>4, <1>6, <1>7, <2>1
<1>9. UNCHANGED <<scene, sent>> => Streams'
  <2> SUFFICES ASSUME UNCHANGED sent PROVE Streams'
    OBVIOUS
  <2>1. /\ wire'[o] = rest /\ shown'[s] = Append(shown[s], Printed(piece))
        /\ wire'[s] = wire[s] /\ shown'[o] = shown[o]
    <3>1. wire \in [Sides -> Texts] /\ shown \in [Sides -> Seq(Texts)]
      BY DEF LineInv, LineTypes
    <3> HIDE DEF w, piece, o, rest
    <3>2. QED
      BY <1>1, <1>6, <3>1
  <2>2. Flow(wire'[o], sent'[o]) /\ Told(shown'[s], sent'[o]) /\ Follows(shown'[s], wire'[o])
    <3> HIDE DEF w, piece, o, rest
    <3>1. QED
      BY <1>7, <2>1
  <2>3. Flow(wire'[s], sent'[s]) /\ Told(shown'[o], sent'[s]) /\ Follows(shown'[o], wire'[s])
    BY <2>1 DEF LineInv, Streams
  <2>4. \A t \in Sides : t = s \/ t = o
    BY SidesAre
  <2> HIDE DEF w, piece, rest
  <2>5. QED
    BY <1>1, <2>2, <2>3, <2>4 DEF Streams
<1>10. piece[n] = w[n]
  BY <1>3, <1>4
<1>11. QED
  BY <1>1, <1>2, <1>6, <1>7, <1>8, <1>9, <1>10

LEMMA ShowKeeps ==
  ASSUME LineInv, TCP, UNCHANGED pipeVars, NEW s \in Sides, NEW next, Reads(s, next),
         NEW n \in 1 .. Len(wire[Other(s)]), Show(s, n, next)
  PROVE  LineInv'
<1> DEFINE o == Other(s)
           w == wire[o]
<1>1. UNCHANGED <<scene, sent, made, last, stray, term, asked>>
  BY DEF Show, pipeVars
<1>2. pc' = [pc EXCEPT ![s] = next] /\ pc' \in [Sides -> Where]
      /\ next \in {"recv", "type"}
  BY DEF Show, Goto, Reads, LineInv, LineTypes, Where
<1>3. o \in Sides /\ o # s /\ Other(o) = s
  BY SidesAre
<1>4. /\ w \in Texts /\ \A i \in 1 .. Len(w) : w[i] # SENTINEL
      /\ wire' = [wire EXCEPT ![o] = SubSeq(w, n + 1, Len(w))]
      /\ wire' \in [Sides -> Texts] /\ buf' \in [Sides -> Texts]
      /\ shown' \in [Sides -> Seq(Texts)]
      /\ cut' = (cut \/ w[n] # NUL)
  BY ShowReads
<1>5. Streams'
  BY <1>1, ShowReads
<1>6. PICK m \in 0 .. n : /\ shown' = [shown EXCEPT ![s] = Append(shown[s], SubSeq(w, 1, m))]
                          /\ \A i \in 1 .. m : w[i] # NUL
                          /\ m < n => w[m + 1] = NUL
  BY ShowReads
<1>7. /\ wire'[o] \in Texts /\ Len(wire'[o]) = Len(w) - n
      /\ \A i \in 1 .. Len(wire'[o]) : wire'[o][i] = w[n + i] /\ n + i \in 1 .. Len(w)
      /\ wire'[o] # <<>> => wire'[o][Len(wire'[o])] = w[Len(w)]
      /\ wire'[o] = <<>> <=> n = Len(w)
      /\ wire'[s] = wire[s]
  <2>1. wire'[o] = SubSeq(w, n + 1, Len(w)) /\ wire'[s] = wire[s]
    BY <1>3, <1>4 DEF LineInv, LineTypes
  <2>2. n \in 1 .. Len(w) /\ w \in Texts
    BY <1>4
  <2> HIDE DEF w, o
  <2> DEFINE rest == SubSeq(w, n + 1, Len(w))
  <2>3. /\ rest \in Texts /\ Len(rest) = Len(w) - n
        /\ \A i \in 1 .. Len(rest) : rest[i] = w[n + i] /\ n + i \in 1 .. Len(w)
        /\ rest # <<>> => rest[Len(rest)] = w[Len(w)]
        /\ rest = <<>> <=> n = Len(w)
    BY <2>2, RestIs, Zenon
  <2>4. wire'[o] = rest
    BY <2>1
  <2> HIDE DEF rest
  <2>5. QED
    BY <2>1, <2>3, <2>4
<1>8. w # <<>>
  BY <1>4, EmptyTexts
<1>9. Whole(w) => Whole(wire'[o])
  BY <1>7, <1>8 DEF Whole
<1>10. LineTypes'
  <2>1. \A t \in Sides : Len(sent'[t]) <= scene'.lines
    BY <1>1 DEF LineInv, LineTypes
  <2>2. /\ pc'["S"] \in {"start", "watch", "hand", "type", "reply", "wait", "ended"}
        /\ pc'["R"] \in {"start", "accept", "watch", "greet", "recv", "type", "read", "ended"}
    BY <1>2, SidesAre DEF LineInv, LineTypes, Reads
  <2>3. cut' \in BOOLEAN
    BY <1>4
  <2>4. QED
    BY <1>1, <1>2, <1>4, <2>1, <2>2, <2>3 DEF LineInv, LineTypes
<1>11. made /\ pc["S"] \in {"type", "reply", "ended"} /\ ~Left(s)
  BY <1>8, SidesAre DEF LineInv, LineTypes, Places, Ends, Reads, Left
<1>12. Places'
  BY <1>1, <1>2, <1>11, SidesAre, TCPLeaves, Programmed
  DEF LineInv, LineTypes, Places, Left, Reads
<1>13. Ends'
  <2>1. \A t \in Sides : (\A i \in 1 .. Len(wire[t]) : wire[t][i] # SENTINEL)
                           => \A i \in 1 .. Len(wire'[t]) : wire'[t][i] # SENTINEL
    BY <1>4, <1>7, SidesAre
  <2>2. \A t \in Sides : Whole(wire[t]) => Whole(wire'[t])
    BY <1>7, <1>9, SidesAre
  <2>3. \A t \in Sides : wire[t] = <<>> => wire'[t] = <<>>
    BY <1>7, <1>8, SidesAre
  <2>4. \A t \in Sides : Left(t)' => wire'[Other(t)] = <<>>
    BY <1>2, <2>3, SidesAre DEF LineInv, LineTypes, Ends, Left
  <2>5. pc'["R"] \notin {"accept", "watch", "greet"} /\ pc'["S"] \notin {"watch", "hand"}
    BY <1>2, <1>11, SidesAre DEF LineInv, LineTypes, Places, Reads
  <2>6. ~(pc'["S"] = "reply" /\ pc'["R"] = "recv")
    BY <1>2, SidesAre, Programmed DEF LineInv, LineTypes, Places, Reads
  <2>7. Whole(wire["S"]) \/ pc'["S"] \notin {"type", "reply"}
    BY <1>2, SidesAre DEF LineInv, LineTypes, Ends, Reads
  <2>8. Whole(wire["R"]) \/ ~(pc'["S"] \in {"type", "reply"} /\ pc'["R"] \in {"recv", "type"})
    BY <1>2, <1>11, SidesAre DEF LineInv, LineTypes, Ends, Reads, Left
  <2>9. /\ \A i \in 1 .. Len(wire["S"]) : wire["S"][i] # SENTINEL
        /\ \A i \in 1 .. Len(wire["R"]) : wire["R"][i] # SENTINEL
    BY <1>11 DEF LineInv, Ends
  <2>10. QED
    BY <1>1, <1>11, <2>1, <2>2, <2>4, <2>5, <2>6, <2>7, <2>8, <2>9, SidesAre DEF Ends
<1>14. Turns'
  <2> SUFFICES ASSUME TwoWay', ~cut', ~Left("S")', ~Left("R")'
               PROVE  Turns'
    BY DEF Turns
  <2>1. TwoWay /\ ~cut /\ w[n] = NUL /\ ~OneWay
    BY <1>1, <1>4, Programmed DEF TwoWay, OneWay, LineInv, LineTypes
  <2>2. ~Left("S") /\ ~Left("R")
    BY <1>2, <1>11, SidesAre DEF LineInv, LineTypes, Left, Reads
  <2>3. pc["S"] = "reply" /\ pc["R"] = "recv"
    BY <1>8, <1>11, <2>1, <2>2, SidesAre DEF LineInv, Turns, Reads, AllShown, Left
  <2>4. OneLine(o) /\ AllShown(s)
        /\ Len(sent["S"]) = Len(sent["R"]) + IF s = "R" THEN 1 ELSE 0
    <3>1. \/ OneLine("S") /\ AllShown("R") /\ Len(sent["S"]) = Len(sent["R"]) + 1
          \/ AllShown("S") /\ OneLine("R") /\ Len(sent["S"]) = Len(sent["R"])
      BY <2>1, <2>2, <2>3 DEF LineInv, Turns
    <3>2. wire[o] # <<>>
      BY <1>8
    <3>3. CASE s = "R"
      BY <3>1, <3>2, <3>3, SidesAre DEF AllShown
    <3>4. CASE s = "S"
      <4>1. AllShown("S") /\ OneLine("R") /\ Len(sent["S"]) = Len(sent["R"])
        BY <3>1, <3>2, <3>4, SidesAre DEF AllShown
      <4>2. Len(sent["R"]) \in Nat
        BY SidesAre, LenProperties DEF LineInv, LineTypes
      <4>3. QED
        BY <3>4, <4>1, <4>2, SidesAre
    <3>5. QED
      BY <3>3, <3>4, SidesAre
  <2>5. PICK k \in Nat : k = Len(sent[o])
    BY <1>3, LenProperties DEF LineInv, LineTypes
  <2>6. k > 0 /\ w = Line(k, sent[o][k]) /\ Len(shown[s]) = k - 1
        /\ sent[o][k] \in Nat
        /\ \A i \in 1 .. k - 1 : shown[s][i] = Text(i, sent[o][i])
    <3>1. k > 0 /\ w = Line(k, sent[o][k]) /\ Shown(s, k - 1)
      BY <1>3, <2>4, <2>5 DEF OneLine
    <3>2. sent[o][k] \in 0 .. MAX_LINE
      <4>1. sent[o] \in Seq(0 .. MAX_LINE) /\ k \in 1 .. Len(sent[o])
        BY <1>3, <2>5, <3>1 DEF LineInv, LineTypes
      <4> HIDE DEF o, w
      <4>2. QED
        BY <4>1, ElementOfSeq
    <3>3. QED
      BY <1>3, <3>1, <3>2, LinesAssumption DEF Shown
  <2>7. n = sent[o][k] + 1 /\ SubSeq(w, 1, m) = Text(k, sent[o][k])
    <3>1. n \in 1 .. Len(Line(k, sent[o][k]))
      BY <2>6
    <3> HIDE DEF w, o
    <3>2. QED
      BY <1>6, <2>1, <2>6, <3>1, WholeLine
  <2>8. wire'[o] = <<>>
    <3>1. PICK len \in Nat : len = sent[o][k]
      BY <2>6
    <3>2. w = Line(k, len)
      BY <2>6, <3>1
    <3> HIDE DEF w, o
    <3>3. Len(w) = len + 1
      BY <3>2, LineIs
    <3>4. QED
      BY <1>7, <2>7, <3>1, <3>3
  <2>9. /\ shown'[s] = Append(shown[s], Text(k, sent[o][k])) /\ shown'[o] = shown[o]
        /\ Len(shown'[s]) = k
        /\ \A i \in 1 .. k : shown'[s][i] = Text(i, sent[o][i])
    <3>1. shown \in [Sides -> Seq(Texts)] /\ shown[s] \in Seq(Texts)
      BY DEF LineInv, LineTypes
    <3>2. shown'[s] = Append(shown[s], Text(k, sent[o][k])) /\ shown'[o] = shown[o]
      BY <1>3, <1>6, <2>7, <3>1
    <3>3. Text(k, sent[o][k]) \in Texts
      BY <2>6, LineIs
    <3> HIDE DEF w, o
    <3>4. /\ Len(Append(shown[s], Text(k, sent[o][k]))) = Len(shown[s]) + 1
          /\ Append(shown[s], Text(k, sent[o][k]))[Len(shown[s]) + 1] = Text(k, sent[o][k])
          /\ \A i \in 1 .. Len(shown[s]) :
               Append(shown[s], Text(k, sent[o][k]))[i] = shown[s][i]
      BY <3>1, <3>3, AppendProperties
    <3>5. \A i \in 1 .. k : i \in 1 .. k - 1 \/ i = k
      BY <2>6
    <3>6. QED
      BY <2>6, <3>2, <3>4, <3>5
  <2>10. AllShown(o)'
    <3>1. sent'[o] = sent[o] /\ k = Len(sent'[o])
      BY <1>1, <2>5
    <3>2. Shown(s, k)'
      BY <1>3, <2>9, <3>1 DEF Shown
    <3>3. QED
      BY <1>3, <2>8, <3>1, <3>2 DEF AllShown
  <2>11. AllShown(s)'
    BY <1>1, <1>3, <1>7, <2>4, <2>9 DEF AllShown, Shown
  <2>12. IF s = "R" THEN pc'["S"] = "reply" /\ pc'["R"] = "type"
         ELSE pc'["S"] = "type" /\ pc'["R"] = "recv"
    BY <1>2, <2>1, <2>3, SidesAre DEF LineInv, LineTypes, Reads
  <2>13. QED
    <3>1. CASE s = "R"
      <4>1. /\ AllShown("S")' /\ AllShown("R")' /\ Len(sent'["S"]) = Len(sent'["R"]) + 1
            /\ pc'["S"] = "reply" /\ pc'["R"] = "type"
        BY <1>1, <2>4, <2>10, <2>11, <2>12, <3>1, SidesAre
      <4>2. QED
        BY <4>1 DEF Turns
    <3>2. CASE s = "S"
      <4>1. AllShown("S")' /\ AllShown("R")' /\ pc'["S"] = "type" /\ pc'["R"] = "recv"
        BY <2>10, <2>11, <2>12, <3>2, SidesAre
      <4>2. Len(sent'["S"]) = Len(sent'["R"])
        BY <1>1, <2>4, <3>2, SidesAre, LenProperties DEF LineInv, LineTypes
      <4>3. QED
        BY <4>1, <4>2 DEF Turns
    <3>3. QED
      BY <3>1, <3>2, SidesAre
<1>15. QED
  BY <1>1, <1>5, <1>10, <1>12, <1>13, <1>14, TCPLeaves DEF LineInv

(***************************************************************************)
(* The other side has left                                                 *)
(***************************************************************************)
LEMMA ErrorKeeps ==
  ASSUME LineInv, TCP, UNCHANGED pipeVars, NEW s \in Sides, NEW next, Reads(s, next),
         ShowError(s, next)
  PROVE  LineInv'
<1> DEFINE o == Other(s)
<1>1. UNCHANGED <<scene, sent, wire, cut, made, stray, term, asked>>
  BY DEF ShowError, pipeVars
<1>2. pc' = [pc EXCEPT ![s] = next] /\ pc' \in [Sides -> Where] /\ next \in {"recv", "type"}
  BY DEF ShowError, Goto, Reads, LineInv, LineTypes, Where
<1>3. /\ last[o] = "rst" /\ last' = [last EXCEPT ![o] = "dead"]
      /\ shown' = [shown EXCEPT ![s] = Append(shown[s], <<>>)]
      /\ buf' = [buf EXCEPT ![s] = <<>>]
  BY DEF ShowError, OverError, Zeroed
<1>4. o \in Sides /\ o # s /\ Other(o) = s
  BY SidesAre
<1>5. Left(o) /\ made
  BY <1>3, <1>4 DEF LineInv, Places
<1>6. /\ Append(shown[s], <<>>) \in Seq(Texts)
      /\ Told(Append(shown[s], <<>>), sent[o])
      /\ Follows(Append(shown[s], <<>>), wire[o])
  <2>1. shown[s] \in Seq(Texts) /\ Told(shown[s], sent[o]) /\ Follows(shown[s], wire[o])
    BY <1>4 DEF LineInv, LineTypes, Streams
  <2>2. QED
    BY <2>1, ToldNothing
<1>7. /\ shown' \in [Sides -> Seq(Texts)] /\ buf' \in [Sides -> Texts]
      /\ shown'[s] = Append(shown[s], <<>>) /\ shown'[o] = shown[o]
  BY <1>3, <1>4, <1>6, EmptyTexts DEF LineInv, LineTypes
<1>8. LineTypes'
  <2>1. /\ pc'["S"] \in {"start", "watch", "hand", "type", "reply", "wait", "ended"}
        /\ pc'["R"] \in {"start", "accept", "watch", "greet", "recv", "type", "read", "ended"}
    BY <1>2, SidesAre DEF LineInv, LineTypes, Reads
  <2>2. last' \in [Sides -> {"open", "fin", "rst", "dead"}]
    BY <1>3 DEF LineInv, LineTypes
  <2>3. QED
    BY <1>1, <1>2, <1>7, <2>1, <2>2 DEF LineInv, LineTypes
<1>9. Places'
  BY <1>1, <1>2, <1>3, <1>5, SidesAre, TCPLeaves, Programmed
  DEF LineInv, LineTypes, Places, Left, Reads
<1>10. Ends'
  BY <1>1, <1>2, <1>5, SidesAre, TCPLeaves DEF LineInv, LineTypes, Places, Ends, Left, Reads
<1>11. Streams'
  <2>1. Flow(wire'[o], sent'[o]) /\ Told(shown'[s], sent'[o]) /\ Follows(shown'[s], wire'[o])
    BY <1>1, <1>4, <1>6, <1>7 DEF LineInv, Streams
  <2>2. Flow(wire'[s], sent'[s]) /\ Told(shown'[o], sent'[s]) /\ Follows(shown'[o], wire'[s])
    BY <1>1, <1>7 DEF LineInv, Streams
  <2>3. \A t \in Sides : t = s \/ t = o
    BY SidesAre
  <2>4. QED
    BY <1>4, <2>1, <2>2, <2>3 DEF Streams
<1>12. Turns'
  <2>1. Left(o)'
    BY <1>2, <1>4, <1>5 DEF LineInv, LineTypes, Left
  <2>2. QED
    BY <1>4, <2>1, SidesAre DEF Turns
<1>13. QED
  BY <1>1, <1>8, <1>9, <1>10, <1>11, <1>12, TCPLeaves DEF LineInv

\* vcrec asks for a line whatever recv() has returned.
LEMMA AskedAnyway ==
  ASSUME LineInv, TCP, UNCHANGED pipeVars, TwoWay, pc["R"] = "recv", Over0("R"),
         Goto("R", "type"), buf' = [buf EXCEPT !["R"] = Zeroed(@)],
         UNCHANGED <<scene, sent, wire, shown, cut, tcpVars>>
  PROVE  LineInv'
<1>1. UNCHANGED <<scene, sent, wire, shown, cut, made, last, stray, term, asked>>
  BY DEF tcpVars, pipeVars
<1>2. pc' = [pc EXCEPT !["R"] = "type"] /\ buf' \in [Sides -> Texts]
  BY EmptyTexts DEF Goto, Zeroed, LineInv, LineTypes
<1>3. Left("S") /\ made
  BY SidesAre DEF Over0, LineInv, Places
<1>4. LineTypes'
  BY <1>1, <1>2, SidesAre DEF LineInv, LineTypes, Where
<1>5. Places'
  BY <1>1, <1>2, <1>3, SidesAre, TCPLeaves, Programmed DEF LineInv, LineTypes, Places, Left
<1>6. Ends'
  BY <1>1, <1>2, <1>3, SidesAre, TCPLeaves DEF LineInv, LineTypes, Places, Ends, Left
<1>7. Streams'
  BY <1>1, Still
<1>8. Turns'
  BY <1>2, <1>3, SidesAre DEF LineInv, LineTypes, Turns, Left
<1>9. QED
  BY <1>1, <1>4, <1>5, <1>6, <1>7, <1>8, TCPLeaves DEF LineInv

(***************************************************************************)
(* Every step of TCP's programs                                            *)
(***************************************************************************)
LEMMA TCPKeeps ==
  ASSUME LineInv, TCPNext, UNCHANGED pipeVars
  PROVE  LineInv'
<1>0. TCP
  BY DEF TCPNext
<1>1. CASE Listen \/ Accept \/ Watch \/ Connect \/ ConnectFails \/ AwaitKeyboard
  BY <1>0, <1>1, MovesKeep
<1>2. CASE AcceptFails
  <2>1. CASE ~made
    BY <1>0, <1>2, <2>1, MovesKeep
  <2>2. CASE made
    <3>1. Close("R") /\ ~Left("R")
      BY <1>2, <2>2 DEF AcceptFails, Left
    <3>2. QED
      BY <1>0, <2>2, <3>1, CloseKeeps, SidesAre
  <2>3. QED
    BY <2>1, <2>2
<1>3. CASE WatchPeriod
  <2>1. Close("R") /\ ~Left("R") /\ made
    BY <1>0, <1>3 DEF WatchPeriod, Left, LineInv, Places
  <2>2. QED
    BY <1>0, <2>1, CloseKeeps, SidesAre
<1>4. CASE Greet
  BY <1>0, <1>4, GreetKeeps
<1>5. CASE Handshake
  BY <1>0, <1>5, HandshakeKeeps
<1>6. CASE Type
  <2>1. Onward("S", "type") /\ ~Left("S") /\ made
    BY <1>0, <1>6, SidesAre DEF Type, Onward, Left, LineInv, Places
  <2>2. QED
    BY <1>0, <1>6, <2>1, SendKeeps, CloseKeeps, SidesAre DEF Type
<1>7. CASE TypeTurn
  <2>1. Onward("S", "reply") /\ ~Left("S") /\ made
    BY <1>0, <1>7, SidesAre, Programmed DEF TypeTurn, Onward, Left, LineInv, LineTypes, Places
  <2>2. QED
    BY <1>0, <1>7, <2>1, SendKeeps, CloseKeeps, SidesAre DEF TypeTurn
<1>8. CASE Answer
  <2>1. Onward("R", "recv") /\ ~Left("R") /\ made
    BY <1>0, <1>8, SidesAre DEF Answer, Onward, Left, LineInv, Places
  <2>2. QED
    BY <1>0, <1>8, <2>1, SendKeeps, CloseKeeps, SidesAre DEF Answer
<1>9. CASE Reply
  <2>1. Reads("S", "type")
    BY <1>9 DEF Reply, Reads
  <2>2. (\E n \in 1 .. Len(wire[Other("S")]) : Show("S", n, "type")) \/ ShowError("S", "type")
    BY <1>9, SidesAre DEF Reply
  <2>3. QED
    BY <1>0, <2>1, <2>2, ShowKeeps, ErrorKeeps, SidesAre
<1>10. CASE Receive
  <2>1. Reads("R", "recv")
    BY <1>10 DEF Receive, Reads
  <2>2. (\E n \in 1 .. Len(wire[Other("R")]) : Show("R", n, "recv")) \/ ShowError("R", "recv")
    <3>1. Len(wire["S"]) \in Nat /\ scene.size \in Nat
      BY SidesAre, Programmed, LenProperties DEF LineInv, LineTypes, Texts
    <3>2. QED
      BY <1>10, <3>1, SidesAre DEF Receive
  <2>3. QED
    BY <1>0, <2>1, <2>2, ShowKeeps, ErrorKeeps, SidesAre
<1>11. CASE ReceiveTurn
  <2>1. Reads("R", "type")
    BY <1>0, <1>11, Programmed DEF ReceiveTurn, Reads, LineInv, LineTypes
  <2>2. \/ \E n \in 1 .. Len(wire[Other("R")]) : Show("R", n, "type")
        \/ ShowError("R", "type")
        \/ /\ Over0("R") /\ Goto("R", "type") /\ buf' = [buf EXCEPT !["R"] = Zeroed(@)]
           /\ UNCHANGED <<scene, sent, wire, shown, cut, tcpVars>>
    <3>1. Len(wire["S"]) \in Nat /\ scene.size \in Nat
      BY SidesAre, Programmed, LenProperties DEF LineInv, LineTypes, Texts
    <3>2. QED
      BY <1>11, <3>1, SidesAre DEF ReceiveTurn
  <2>3. QED
    BY <1>0, <1>11, <2>1, <2>2, ShowKeeps, ErrorKeeps, AskedAnyway, SidesAre DEF ReceiveTurn
<1>12. CASE ReceiverCloses
  <2>1. Close("R") /\ ~Left("R") /\ made
    BY <1>0, <1>12 DEF ReceiverCloses, Left, LineInv, Places
  <2>2. QED
    BY <1>0, <2>1, CloseKeeps, SidesAre
<1>13. CASE ServerHasLeft
  <2>1. Close("S") /\ ~Left("S") /\ made
    BY <1>0, <1>13 DEF ServerHasLeft, Left, LineInv, Places
  <2>2. QED
    BY <1>0, <2>1, CloseKeeps, SidesAre
<1>14. CASE \E s \in Sides : Interrupt(s)
  BY <1>0, <1>14, CloseKeeps DEF Interrupt, Left
<1>15. CASE \E s \in Sides : ResetArrives(s)
  BY <1>0, <1>15, ResetKeeps
<1>16. QED
  BY <1>1, <1>2, <1>3, <1>4, <1>5, <1>6, <1>7, <1>8, <1>9, <1>10, <1>11, <1>12, <1>13,
     <1>14, <1>15 DEF TCPNext, Sender, Receiver, SenderRuns, ReceiverRuns

(***************************************************************************)
(* The steps of pipesend                                                   *)
(***************************************************************************)
\* A step of pipesend leaves TCP alone.
LEMMA PipeLeaves ==
  ASSUME LineInv, Pipe, UNCHANGED tcpVars, UNCHANGED scene
  PROVE  /\ ~TCP /\ ~TCP' /\ (Unix' <=> Unix) /\ Ends' /\ Turns'
         /\ UNCHANGED <<made, last, stray>> /\ ~made
         /\ \A s \in Sides : last[s] = "open" /\ ~stray[s]
<1>1. ~TCP /\ ~TCP' /\ ~TwoWay'
  BY Programmed DEF LineInv, LineTypes, TCP, OneWay, TwoWay, Pipe
<1>2. UNCHANGED <<made, last, stray>> /\ (Unix' <=> Unix)
  BY DEF tcpVars, Unix
<1>3. Ends' /\ Turns'
  BY <1>1 DEF Ends, Turns
<1>4. ~made /\ \A s \in Sides : last[s] = "open" /\ ~stray[s]
  BY <1>1 DEF LineInv, Places
<1>5. QED
  BY <1>1, <1>2, <1>3, <1>4

\* The parent or the child goes on, and no byte moves.
LEMMA PipeMovesKeep ==
  ASSUME LineInv, Pipe, UNCHANGED tcpVars, StartChild \/ NoChild \/ BrokenPipe \/ Waited
  PROVE  LineInv'
<1> USE DEF StartChild, NoChild, BrokenPipe, Waited, Goto, pipeVars
<1>1. UNCHANGED <<scene, sent, wire, buf, shown, cut, term, asked>>
  OBVIOUS
<1>2. pc' \in [Sides -> Where]
      /\ pc'["S"] \in {"start", "watch", "hand", "type", "reply", "wait", "ended"}
      /\ pc'["R"] \in {"start", "accept", "watch", "greet", "recv", "type", "read", "ended"}
  BY SidesAre DEF LineInv, LineTypes, Where
<1>3. LineTypes'
  BY <1>1, <1>2, PipeLeaves DEF LineInv, LineTypes
<1>4. Places'
  BY <1>1, SidesAre, PipeLeaves DEF LineInv, LineTypes, Places, PipeEnds
<1>5. PipeEnds'
  BY <1>1, SidesAre, PipeLeaves, EmptyTexts DEF LineInv, LineTypes, Places, PipeEnds
<1>6. Streams'
  BY <1>1, Still
<1>7. Asked'
  BY <1>1 DEF LineInv, Asked
<1>8. QED
  BY <1>1, <1>3, <1>4, <1>5, <1>6, <1>7, PipeLeaves DEF LineInv

LEMMA WriteKeeps ==
  ASSUME LineInv, Pipe, UNCHANGED tcpVars, WriteLine
  PROVE  LineInv'
<1> DEFINE w == wire["S"]
           lens == sent["S"]
<1>1. UNCHANGED <<scene, pc, buf, shown, cut, term, asked>>
      /\ pc["S"] = "type" /\ pc["R"] = "read" /\ More("S")
  BY DEF WriteLine, pipeVars
<1>2. Whole(w) /\ term = "nobody"
  BY <1>1, PipeLeaves DEF LineInv, PipeEnds
<1>3. /\ sent' \in [Sides -> Seq(0 .. MAX_LINE)] /\ wire' \in [Sides -> Texts]
      /\ sent'["R"] = sent["R"] /\ wire'["R"] = wire["R"]
      /\ Len(sent'["S"]) = Len(lens) + 1 /\ Whole(wire'["S"]) /\ Streams'
      /\ Unix => ((\A i \in 1 .. Len(w) : w[i] # SENTINEL) =>
                    \A i \in 1 .. Len(wire'["S"]) : wire'["S"][i] # SENTINEL)
  <2>1. CASE \E len \in 0 .. MAX_LINE : Put("S", len)
    <3>1. PICK len \in 0 .. MAX_LINE : Put("S", len)
      BY <2>1
    <3>2. "S" \in Sides
      BY SidesAre
    <3>3. /\ sent' = [sent EXCEPT !["S"] = Append(lens, len)]
          /\ wire' = [wire EXCEPT !["S"] = w \o Line(Len(lens) + 1, len)]
      BY <1>2, <3>1, <3>2, LineIsSent
    <3>4. sent'["R"] = sent["R"] /\ wire'["R"] = wire["R"]
      BY <3>3, SidesAre DEF LineInv, LineTypes
    <3>5. /\ sent' \in [Sides -> Seq(0 .. MAX_LINE)] /\ wire' \in [Sides -> Texts]
          /\ Len(sent'["S"]) = Len(lens) + 1 /\ Whole(wire'["S"])
          /\ (\A i \in 1 .. Len(w) : w[i] # SENTINEL) =>
               \A i \in 1 .. Len(wire'["S"]) : wire'["S"][i] # SENTINEL
      BY <1>2, <3>1, <3>2, LineIsSent
    <3>6. Streams'
      BY <1>1, <1>2, <3>1, <3>2, LineIsSent
    <3>7. QED
      BY <3>4, <3>5, <3>6
  <2>2. CASE /\ ~Unix
             /\ sent' = [sent EXCEPT !["S"] = Append(@, 1)]
             /\ wire' = [wire EXCEPT !["S"] = @ \o <<SENTINEL, NUL>>]
    <3>1. w \in Texts /\ Flow(w, lens) /\ Told(shown["R"], lens) /\ Follows(shown["R"], w)
          /\ lens \in Seq(0 .. MAX_LINE) /\ lens \in Seq(Nat)
      <4>1. lens \in Seq(0 .. MAX_LINE)
        BY SidesAre DEF LineInv, LineTypes
      <4>2. lens \in Seq(Nat)
        BY <4>1, LinesAssumption, ElementOfSeq, LenProperties, SeqDef
      <4>3. QED
        BY <4>1, <4>2, SidesAre DEF LineInv, LineTypes, Streams
    <3> DEFINE v == Append(w, SENTINEL)
               u == Append(v, NUL)
    <3>2. w \o <<SENTINEL, NUL>> = u
      <4>1. w \in Seq(Bytes) /\ SENTINEL \in Bytes /\ NUL \in Bytes
        BY <3>1, Marks DEF Texts
      <4> HIDE DEF w
      <4>2. QED
        BY <4>1
    <3> HIDE DEF w, lens, u
    <3>3. Flow(v, lens) /\ v \in Texts /\ Follows(shown["R"], v)
      BY <3>1, FlowMark, FollowsMark
    <3> HIDE DEF v
    <3>4. Flow(u, lens) /\ u \in Texts /\ Follows(shown["R"], u) /\ u # <<>> /\ u[Len(u)] = NUL
      BY <3>3, FlowMark, FollowsMark DEF u
    <3>5. Flow(u, Append(lens, 1)) /\ Told(shown["R"], Append(lens, 1))
      BY <3>1, <3>4, FlowMore, ToldMore
    <3>6. Append(lens, 1) \in Seq(0 .. MAX_LINE) /\ Len(Append(lens, 1)) = Len(lens) + 1
      BY <3>1, LinesAssumption, AppendProperties
    <3>7. /\ sent' = [sent EXCEPT !["S"] = Append(lens, 1)] /\ wire' = [wire EXCEPT !["S"] = u]
      BY <2>2, <3>2 DEF w, lens
    <3>8. sent \in [Sides -> Seq(0 .. MAX_LINE)] /\ wire \in [Sides -> Texts]
      BY DEF LineInv, LineTypes
    <3>9. /\ sent'["S"] = Append(lens, 1) /\ wire'["S"] = u
          /\ sent'["R"] = sent["R"] /\ wire'["R"] = wire["R"]
          /\ sent' \in [Sides -> Seq(0 .. MAX_LINE)] /\ wire' \in [Sides -> Texts]
      BY <3>4, <3>6, <3>7, <3>8, SidesAre
    <3>10. Streams'
      <4>1. Flow(wire'["S"], sent'["S"]) /\ Told(shown'["R"], sent'["S"])
            /\ Follows(shown'["R"], wire'["S"])
        BY <1>1, <3>4, <3>5, <3>9
      <4>2. Flow(wire'["R"], sent'["R"]) /\ Told(shown'["S"], sent'["R"])
            /\ Follows(shown'["S"], wire'["R"])
        BY <1>1, <3>9, SidesAre DEF LineInv, Streams
      <4>3. QED
        BY <4>1, <4>2, SidesAre DEF Streams
    <3>11. QED
      BY <2>2, <3>4, <3>6, <3>9, <3>10 DEF Whole
  <2>3. QED
    BY <2>1, <2>2 DEF WriteLine
<1>4. LineTypes'
  <2>1. \A t \in Sides : Len(sent'[t]) <= scene'.lines
    <3>1. Len(lens) + 1 <= scene.lines
      <4>1. Len(lens) \in Nat /\ scene.lines \in Nat
        BY SidesAre, Programmed, LenProperties DEF LineInv, LineTypes
      <4>2. QED
        BY <1>1, <4>1 DEF More
    <3>2. QED
      BY <1>1, <1>3, <3>1, SidesAre DEF LineInv, LineTypes
  <2>2. QED
    BY <1>1, <1>3, <2>1, PipeLeaves DEF LineInv, LineTypes
<1>5. Places'
  BY <1>1, SidesAre, PipeLeaves DEF LineInv, LineTypes, Places
<1>6. PipeEnds'
  <2>1. Unix => \A i \in 1 .. Len(wire'["S"]) : wire'["S"][i] # SENTINEL
    BY <1>1, <1>3, PipeLeaves DEF LineInv, PipeEnds
  <2>2. QED
    BY <1>1, <1>2, <1>3, <2>1, PipeLeaves DEF LineInv, PipeEnds
<1>7. Asked'
  BY <1>1 DEF LineInv, Asked
<1>8. QED
  BY <1>1, <1>3, <1>4, <1>5, <1>6, <1>7, PipeLeaves DEF LineInv

LEMMA PeriodKeeps ==
  ASSUME LineInv, Pipe, UNCHANGED tcpVars, Period
  PROVE  LineInv'
<1> DEFINE w == wire["S"]
<1>1. UNCHANGED <<scene, sent, buf, shown, cut>> /\ pc["S"] = "type" /\ asked' = TRUE
      /\ pc' = [pc EXCEPT !["S"] = "wait"]
  BY DEF Period, Goto
<1>2. term = "nobody"
  BY <1>1, PipeLeaves DEF LineInv, PipeEnds
<1>3. IF Unix THEN term' = (IF pc["R"] = "ended" THEN "all" ELSE "child") /\ wire' = wire
      ELSE /\ term' = term
           /\ wire' = [wire EXCEPT !["S"] = IF pc["R"] = "read" THEN w \o Sentinel ELSE w]
  BY DEF Period
<1>4. /\ w \o Sentinel \in Texts /\ w \o Sentinel # <<>> /\ Flow(w \o Sentinel, sent["S"])
      /\ Follows(shown["R"], w \o Sentinel)
      /\ (w \o Sentinel)[Len(w \o Sentinel)] = SENTINEL
  <2>1. w \in Texts /\ Flow(w, sent["S"]) /\ Follows(shown["R"], w)
    BY SidesAre DEF LineInv, LineTypes, Streams
  <2> HIDE DEF w
  <2>2. w \o Sentinel = Append(w, SENTINEL)
    BY <2>1, Marks, AppendIsConcat DEF Texts, Sentinel
  <2>3. QED
    BY <2>1, <2>2, FlowMark, FollowsMark
<1>5. wire' \in [Sides -> Texts] /\ wire'["R"] = wire["R"]
      /\ wire'["S"] = IF ~Unix /\ pc["R"] = "read" THEN w \o Sentinel ELSE w
  <2> DEFINE more == w \o Sentinel
  <2>1. wire \in [Sides -> Texts] /\ w \in Texts /\ more \in Texts
    BY <1>4, SidesAre DEF LineInv, LineTypes
  <2>2. CASE ~Unix /\ pc["R"] = "read"
    <3>1. wire' = [wire EXCEPT !["S"] = more]
      BY <1>3, <2>2
    <3> HIDE DEF more
    <3>2. QED
      BY <2>1, <2>2, <3>1, SidesAre DEF more
  <2>3. CASE ~(~Unix /\ pc["R"] = "read")
    <3>1. wire' = wire
      BY <1>3, <2>1, <2>3, SidesAre
    <3>2. QED
      BY <2>1, <2>3, <3>1, SidesAre
  <2>4. QED
    BY <2>2, <2>3
<1>6. LineTypes'
  BY <1>1, <1>2, <1>3, <1>5, SidesAre, PipeLeaves DEF LineInv, LineTypes, Where
<1>7. Places'
  BY <1>1, SidesAre, PipeLeaves DEF LineInv, LineTypes, Places
<1>8. PipeEnds'
  BY <1>1, <1>2, <1>3, <1>4, <1>5, SidesAre, PipeLeaves DEF LineInv, LineTypes, Places, PipeEnds
<1>9. Streams'
  <2>1. Flow(wire'["S"], sent["S"]) /\ Follows(shown["R"], wire'["S"])
    BY <1>4, <1>5, SidesAre DEF LineInv, Streams
  <2>2. QED
    BY <1>1, <1>5, <2>1, SidesAre DEF LineInv, Streams
<1>10. Asked'
  BY <1>1 DEF Asked
<1>11. QED
  BY <1>1, <1>6, <1>7, <1>8, <1>9, <1>10, PipeLeaves DEF LineInv

\* The child has been told to end.
LEMMA ChildEndsKeeps ==
  ASSUME LineInv, Pipe, UNCHANGED tcpVars, ChildEnds, pc["R"] = "read",
         UNCHANGED <<scene, sent, buf, shown, cut, pipeVars>>
  PROVE  LineInv'
<1>1. UNCHANGED <<scene, sent, buf, shown, cut, term, asked>>
      /\ pc' = [pc EXCEPT !["R"] = "ended"] /\ wire' = [wire EXCEPT !["S"] = <<>>]
  BY DEF ChildEnds, Goto, pipeVars
<1>2. wire' \in [Sides -> Texts] /\ wire'["S"] = <<>> /\ wire'["R"] = wire["R"]
  BY <1>1, SidesAre, EmptyTexts DEF LineInv, LineTypes
<1>3. LineTypes'
  BY <1>1, <1>2, SidesAre, PipeLeaves DEF LineInv, LineTypes, Where
<1>4. Places'
  BY <1>1, SidesAre, PipeLeaves DEF LineInv, LineTypes, Places
<1>5. PipeEnds'
  BY <1>1, <1>2, SidesAre, PipeLeaves, EmptyTexts DEF LineInv, LineTypes, Places, PipeEnds
<1>6. Streams'
  BY <1>1, <1>2, SidesAre, EmptyTexts DEF LineInv, Streams
<1>7. Asked'
  BY <1>1 DEF LineInv, Asked
<1>8. QED
  BY <1>1, <1>3, <1>4, <1>5, <1>6, <1>7, PipeLeaves DEF LineInv

\* A piece that the child reads holds the end of a line, or its end.
LEMMA PieceEnds ==
  ASSUME NEW w \in Texts, NEW lens \in Seq(0 .. MAX_LINE), Flow(w, lens),
         NEW n \in 1 .. Len(w),
         n = Len(w) => w[Len(w)] \in {NUL, SENTINEL},
         n # Len(w) => n > MAX_LINE,
         \A i \in 1 .. n : w[i] # SENTINEL
  PROVE  \E i \in 1 .. n : w[i] = NUL
<1> SUFFICES ASSUME \A i \in 1 .. n : w[i] # NUL PROVE FALSE
  OBVIOUS
<1>1. n \in Nat /\ n > 0 /\ n <= Len(w) /\ Len(w) \in Nat
  BY LenProperties DEF Texts
<1>2. n # Len(w) /\ n > MAX_LINE
  BY <1>1
<1>3. \A i \in 1 .. n : OfLines(w[i], lens) /\ IsText(w[i])
  <2>1. \A i \in 1 .. n : i \in 1 .. Len(w)
    BY <1>1
  <2>2. \A i \in 1 .. n : OfLines(w[i], lens)
    BY <2>1 DEF Flow
  <2>3. QED
    BY <2>2, Marks
<1>4. w[n][2] = w[1][2] + (n - 1)
  <2>1. 1 \in 1 .. Len(w) /\ n \in 1 .. Len(w) /\ 1 <= n /\ \A h \in 1 .. n : IsText(w[h])
    BY <1>1, <1>3
  <2>2. QED
    BY <2>1 DEF Flow
<1>5. \A i \in 1 .. n : w[i][2] \in Nat /\ w[i][2] >= 1 /\ w[i][2] <= MAX_LINE
  <2>1. ASSUME NEW i \in 1 .. n
        PROVE  w[i][2] \in Nat /\ w[i][2] >= 1 /\ w[i][2] <= MAX_LINE
    <3>1. w[i][1] \in 1 .. Len(lens) /\ w[i][2] \in 1 .. lens[w[i][1]]
      BY <1>3 DEF OfLines
    <3>2. lens[w[i][1]] \in 0 .. MAX_LINE
      BY <3>1, ElementOfSeq
    <3>3. QED
      BY <3>1, <3>2, LinesAssumption
  <2>2. QED
    BY <2>1
<1>6. 1 \in 1 .. n /\ n \in 1 .. n
  BY <1>1
<1>7. w[1][2] \in Nat /\ w[1][2] >= 1 /\ w[n][2] \in Nat /\ w[n][2] <= MAX_LINE
  BY <1>5, <1>6
<1>8. QED
  BY <1>1, <1>2, <1>4, <1>7, LinesAssumption

LEMMA ChildReadsKeeps ==
  ASSUME LineInv, Pipe, UNCHANGED tcpVars, ChildReads
  PROVE  LineInv'
<1> DEFINE w == wire["S"]
           lens == sent["S"]
           n == Lesser(scene.size, Len(w))
           piece == SubSeq(w, 1, n)
           old == buf["R"]
           after == Terminated(Over(old, piece), n)
           t == Printed(after)
           rest == SubSeq(w, n + 1, Len(w))
<1>1. pc["R"] = "read" /\ w # <<>> /\ term # "child" /\ UNCHANGED <<scene, sent, pipeVars>>
  BY DEF ChildReads
<1>2. CASE ~Unix /\ SENTINEL \in ToSet(piece)
  <2>1. ChildEnds /\ UNCHANGED <<buf, shown, cut>>
    BY <1>2 DEF ChildReads
  <2>2. QED
    BY <1>1, <2>1, ChildEndsKeeps
<1>3. CASE ~(~Unix /\ SENTINEL \in ToSet(piece))
  <2>1. /\ wire' = [wire EXCEPT !["S"] = rest] /\ buf' = [buf EXCEPT !["R"] = after]
        /\ shown' = [shown EXCEPT !["R"] = Append(shown["R"], t)]
        /\ cut' = (cut \/ piece[n] # NUL)
        /\ UNCHANGED <<scene, sent, pc, term, asked>>
    BY <1>3 DEF ChildReads, pipeVars
  <2>2. /\ w \in Texts /\ lens \in Seq(0 .. MAX_LINE) /\ lens \in Seq(Nat) /\ old \in Texts
        /\ shown["R"] \in Seq(Texts)
        /\ Flow(w, lens) /\ Told(shown["R"], lens) /\ Follows(shown["R"], w)
    <3>1. lens \in Seq(0 .. MAX_LINE)
      BY SidesAre DEF LineInv, LineTypes
    <3>2. lens \in Seq(Nat)
      BY <3>1, LinesAssumption, ElementOfSeq, LenProperties, SeqDef
    <3>3. QED
      BY <3>1, <3>2, SidesAre DEF LineInv, LineTypes, Streams
  <2>3. /\ n \in 1 .. Len(w) /\ n \in Nat /\ Len(w) \in Nat /\ n > 0 /\ n <= Len(w)
        /\ n # Len(w) => n > MAX_LINE
    <3>1. Len(w) \in Nat /\ Len(w) > 0
      BY <1>1, <2>2, LenProperties, EmptySeq DEF Texts
    <3>2. scene.size \in Nat \ {0} /\ scene.size > MAX_LINE
      BY Programmed DEF LineInv, LineTypes, Pipe
    <3>3. n = scene.size \/ n = Len(w)
      BY DEF Lesser
    <3>4. n <= Len(w)
      BY <3>1, <3>2 DEF Lesser
    <3> HIDE DEF n, w
    <3>5. QED
      BY <3>1, <3>2, <3>3, <3>4
  <2> HIDE DEF n
  <2>4. piece \in Texts /\ Len(piece) = n /\ \A i \in 1 .. n : piece[i] = w[i]
    <3>1. 1 <= n + 1 /\ 1 \in Nat \ {0}
      BY <2>3
    <3> HIDE DEF w
    <3>2. piece \in Texts /\ Len(piece) = n - 1 + 1
          /\ \A i \in 1 .. n - 1 + 1 : piece[i] = w[1 + i - 1]
      BY <2>2, <2>3, <3>1, PieceIs
    <3>3. n - 1 + 1 = n /\ \A i \in 1 .. n : 1 + i - 1 = i
      BY <2>3
    <3>4. QED
      BY <3>2, <3>3
  <2>5. Unix => \A i \in 1 .. Len(w) : w[i] # SENTINEL
    BY <1>1, PipeLeaves DEF LineInv, PipeEnds
  <2>6. \A i \in 1 .. n : w[i] # SENTINEL
    <3>1. CASE Unix
      <4>1. \A i \in 1 .. n : i \in 1 .. Len(w)
        BY <2>3
      <4> HIDE DEF w
      <4>2. QED
        BY <2>5, <3>1, <4>1
    <3>2. CASE ~Unix
      <4>1. SENTINEL \notin {piece[i] : i \in DOMAIN piece}
        BY <1>3, <3>2 DEF ToSet
      <4>2. DOMAIN piece = 1 .. n
        BY <2>4, LenProperties DEF Texts
      <4> HIDE DEF piece
      <4>3. QED
        BY <2>4, <4>1, <4>2
    <3>3. QED
      BY <3>1, <3>2
  <2>7. n = Len(w) => w[Len(w)] \in {NUL, SENTINEL}
    <3>1. pc["S"] \in {"type", "wait"}
      BY <1>1, PipeLeaves DEF LineInv, Places
    <3>2. CASE pc["S"] = "type"
      BY <1>1, <3>2, PipeLeaves DEF LineInv, PipeEnds, Whole
    <3>3. CASE pc["S"] = "wait"
      BY <1>1, <3>3, PipeLeaves DEF LineInv, PipeEnds
    <3>4. QED
      BY <3>1, <3>2, <3>3
  <2> HIDE DEF w, lens, piece
  <2>8. \E i \in 1 .. n : w[i] = NUL
    BY <2>2, <2>3, <2>6, <2>7, PieceEnds
  <2>9. after \in Texts /\ n <= Len(after) /\ \A i \in 1 .. n : after[i] = w[i]
    <3> DEFINE tail == SubSeq(old, n + 1, Len(old))
               over == piece \o tail
    <3>1. tail \in Texts
      <4>1. Len(old) \in Nat
        BY <2>2, LenProperties DEF Texts
      <4>2. CASE n <= Len(old)
        <5>1. n + 1 \in Nat \ {0} /\ n + 1 <= Len(old) + 1
          BY <2>3, <4>1, <4>2
        <5> HIDE DEF old
        <5>2. QED
          BY <2>2, <4>1, <5>1, PieceIs
      <4>3. CASE ~(n <= Len(old))
        <5>1. n + 1 \in Int /\ Len(old) \in Int /\ Len(old) < n + 1
          BY <2>3, <4>1, <4>3
        <5> HIDE DEF old
        <5>2. QED
          BY <5>1, SubSeqEmpty, EmptyTexts
      <4>4. QED
        BY <4>2, <4>3
    <3> HIDE DEF tail
    <3>2. /\ over \in Seq(Bytes) /\ Len(over) = Len(piece) + Len(tail)
          /\ \A i \in 1 .. Len(piece) + Len(tail) :
               over[i] = IF i <= Len(piece) THEN piece[i] ELSE tail[i - Len(piece)]
      BY <2>4, <3>1, ConcatProperties DEF Texts
    <3>3. Len(tail) \in Nat /\ DOMAIN over = 1 .. Len(over)
      BY <3>1, <3>2, LenProperties DEF Texts
    <3>4. Over(old, piece) = over
      BY <2>4 DEF Over, tail
    <3> HIDE DEF over
    <3>5. after = [k \in 1 .. Len(over) |-> IF k = n + 2 THEN NUL ELSE over[k]]
      BY <3>3, <3>4 DEF Terminated
    <3>6. \A k \in 1 .. Len(over) : over[k] \in Bytes
      BY <3>2, ElementOfSeq
    <3>7. Len(over) \in Nat /\ n <= Len(over)
      BY <2>3, <2>4, <3>2, <3>3
    <3> HIDE DEF after
    <3>8. after \in Seq(Bytes) /\ Len(after) = Len(over)
      <4>1. \A k \in 1 .. Len(over) : (IF k = n + 2 THEN NUL ELSE over[k]) \in Bytes
        BY <3>6, Marks
      <4>2. QED
        BY <3>5, <3>7, <4>1
    <3>9. \A i \in 1 .. n : after[i] = w[i]
      <4>1. \A i \in 1 .. n : i \in 1 .. Len(over) /\ i # n + 2
            /\ i \in 1 .. Len(piece) + Len(tail) /\ i <= Len(piece)
        BY <2>3, <2>4, <3>3, <3>7
      <4>2. QED
        BY <2>4, <3>2, <3>5, <4>1
    <3>10. QED
      BY <3>7, <3>8, <3>9 DEF Texts
  <2> HIDE DEF after
  <2>10. \E m \in 0 .. n : t = SubSeq(w, 1, m) /\ \A i \in 1 .. m : w[i] # NUL
    <3>1. \E m \in 0 .. n : /\ Printed(after) = SubSeq(w, 1, m)
                            /\ \A i \in 1 .. m : w[i] # NUL
                            /\ m < n => w[m + 1] = NUL
      BY <2>2, <2>3, <2>8, <2>9, PrintedFront
    <3>2. QED
      BY <3>1
  <2> HIDE DEF t
  <2>11. /\ Append(shown["R"], t) \in Seq(Texts) /\ Told(Append(shown["R"], t), lens)
         /\ rest \in Texts /\ Flow(rest, lens) /\ Follows(Append(shown["R"], t), rest)
    BY <2>2, <2>3, <2>6, <2>10, ReadAndShown
  <2>12. /\ \A i \in 1 .. Len(rest) : rest[i] = w[n + i] /\ n + i \in 1 .. Len(w)
         /\ rest # <<>> => rest[Len(rest)] = w[Len(w)]
         /\ rest = <<>> <=> n = Len(w)
    BY <2>2, <2>3, RestIs, Zenon
  <2> HIDE DEF rest, old
  <2>13. /\ wire' \in [Sides -> Texts] /\ buf' \in [Sides -> Texts]
         /\ shown' \in [Sides -> Seq(Texts)]
         /\ wire'["S"] = rest /\ wire'["R"] = wire["R"]
         /\ shown'["R"] = Append(shown["R"], t) /\ shown'["S"] = shown["S"]
    BY <2>1, <2>9, <2>11, SidesAre DEF LineInv, LineTypes
  <2>14. LineTypes'
    <3>1. cut' \in BOOLEAN
      BY <2>1
    <3>2. QED
      BY <2>1, <2>13, <3>1, PipeLeaves DEF LineInv, LineTypes
  <2>15. Places'
    BY <2>1, PipeLeaves DEF LineInv, Places, Left
  <2>16. PipeEnds'
    <3>1. Whole(w) => Whole(rest)
      BY <1>1, <2>12 DEF Whole
    <3>2. Unix => \A i \in 1 .. Len(rest) : rest[i] # SENTINEL
      BY <2>5, <2>12
    <3>3. w[Len(w)] = SENTINEL => rest # <<>> /\ rest[Len(rest)] = SENTINEL
      BY <2>3, <2>6, <2>12
    <3>4. QED
      BY <1>1, <2>1, <2>13, <3>1, <3>2, <3>3, PipeLeaves DEF LineInv, PipeEnds, w
  <2>17. Streams'
    <3>1. Flow(wire'["S"], sent'["S"]) /\ Told(shown'["R"], sent'["S"])
          /\ Follows(shown'["R"], wire'["S"])
      BY <2>1, <2>11, <2>13 DEF lens
    <3>2. Flow(wire'["R"], sent'["R"]) /\ Told(shown'["S"], sent'["R"])
          /\ Follows(shown'["S"], wire'["R"])
      BY <2>1, <2>13, SidesAre DEF LineInv, Streams
    <3>3. QED
      BY <3>1, <3>2, SidesAre DEF Streams
  <2>18. Asked'
    BY <2>1 DEF LineInv, Asked
  <2>19. QED
    BY <2>1, <2>14, <2>15, <2>16, <2>17, <2>18, PipeLeaves DEF LineInv
<1>4. QED
  BY <1>2, <1>3

LEMMA PipeKeeps ==
  ASSUME LineInv, PipeNext, UNCHANGED tcpVars
  PROVE  LineInv'
<1>0. Pipe
  BY DEF PipeNext
<1>1. CASE StartChild \/ NoChild \/ BrokenPipe \/ Waited
  BY <1>0, <1>1, PipeMovesKeep
<1>2. CASE WriteLine
  BY <1>0, <1>2, WriteKeeps
<1>3. CASE Period
  BY <1>0, <1>3, PeriodKeeps
<1>4. CASE NiceExit
  BY <1>0, <1>4, ChildEndsKeeps DEF NiceExit
<1>5. CASE ChildReads
  BY <1>0, <1>5, ChildReadsKeeps
<1>6. QED
  BY <1>1, <1>2, <1>3, <1>4, <1>5 DEF PipeNext, Parent, Child

LEMMA NextLineInv == LineInv /\ [Next]_vars => LineInv'
<1> SUFFICES ASSUME LineInv, [Next]_vars PROVE LineInv'
  OBVIOUS
<1>1. CASE TCPNext /\ UNCHANGED pipeVars
  BY <1>1, TCPKeeps
<1>2. CASE PipeNext /\ UNCHANGED tcpVars
  BY <1>2, PipeKeeps
<1>3. CASE UNCHANGED vars
  <2>1. UNCHANGED <<scene, pc, sent, wire, buf, shown, cut, made, last, stray, term, asked>>
    BY <1>3 DEF vars, lineVars, tcpVars, pipeVars
  <2>2. LineTypes' /\ Asked'
    BY <2>1 DEF LineInv, LineTypes, Asked
  <2>3. Places'
    BY <2>1 DEF LineInv, Places, TCP, OneWay, TwoWay, Left
  <2>4. Ends'
    BY <2>1 DEF LineInv, Ends, TCP, OneWay, TwoWay, Left
  <2>5. PipeEnds'
    BY <2>1 DEF LineInv, PipeEnds, TCP, OneWay, TwoWay, Unix
  <2>6. Streams'
    BY <2>1, Still
  <2>7. Turns'
    BY <2>1 DEF LineInv, Turns, TwoWay, Left, AllShown, OneLine, Shown
  <2>8. QED
    BY <2>2, <2>3, <2>4, <2>5, <2>6, <2>7 DEF LineInv
<1>4. QED
  BY <1>1, <1>2, <1>3 DEF Next

LEMMA AlwaysLineInv == Spec => []LineInv
BY InitLineInv, NextLineInv, PTL DEF Spec

(***************************************************************************)
(* What it shows                                                           *)
(***************************************************************************)
\* What has been printed is a run of characters of one line of the other side,
\* never of an older one left in the buffer, and runs are printed in the order
\* they were sent, whatever TCP and the pipe cut and whoever leaves
\* (vcrec.c, client.c, server.c, pipesend.c).
THEOREM LinesAlwaysInOrder == Spec => []LinesInOrder
<1>1. LineInv => TypeOK
  <2> SUFFICES ASSUME LineInv PROVE TypeOK
    OBVIOUS
  <2>1. \A s \in Sides : \A k \in DOMAIN sent[s] : sent[s][k] \in 0 .. MAX_LINE
    BY LenProperties, ElementOfSeq DEF LineInv, LineTypes
  <2>2. \A s \in Sides : last[s] # "open" <=> TCP /\ made /\ Left(s)
    BY DEF LineInv, Places
  <2>3. \A s \in Sides : pc[s] = "reply" => TwoWay
    BY SidesAre DEF LineInv, LineTypes, Places
  <2>4. QED
    BY <2>1, <2>2, <2>3 DEF LineInv, LineTypes, Places, Asked, TypeOK
<1>2. LineInv => RunsInOrder
  <2> SUFFICES ASSUME LineInv, NEW s \in Sides, NEW i \in DOMAIN shown[s], shown[s][i] # <<>>
               PROVE  /\ Run(shown[s][i], Other(s))
                      /\ \A h \in 1 .. i - 1 : shown[s][h] # <<>> =>
                           Before(Last(shown[s][h]), shown[s][i][1])
    BY DEF RunsInOrder
  <2>1. shown[s] \in Seq(Texts) /\ i \in 1 .. Len(shown[s])
    BY LenProperties DEF LineInv, LineTypes
  <2>2. Told(shown[s], sent[Other(s)])
    BY SidesAre DEF LineInv, Streams
  <2>3. RunOf(shown[s][i], sent[Other(s)])
        /\ \A h \in 1 .. i - 1 : shown[s][h] # <<>> =>
             Before(shown[s][h][Len(shown[s][h])], shown[s][i][1])
    BY <2>1, <2>2 DEF Told
  <2>4. QED
    BY <2>3 DEF RunOf, Run, Last
<1>3. QED
  BY AlwaysLineInv, <1>1, <1>2, PTL DEF LinesInOrder

\* In the programs that answer, as long as every recv() has ended with a whole
\* line, each side has shown, whole and in turn, all the other has sent but for
\* the line on its way (solutions/lab4 vcsend.c:156-213, vcrec.c:244-298).
THEOREM WholeLinesAlwaysInTurn == Spec => []WholeLinesInTurn
<1>1. LineInv => WholeLinesInTurn
  <2> SUFFICES ASSUME LineInv, TwoWay, ~cut, \A s \in Sides : ~Left(s)
               PROVE  /\ \A s \in Sides : ShownAll(s)
                      /\ Len(sent["S"]) \in {Len(sent["R"]), Len(sent["R"]) + 1}
    BY DEF WholeLinesInTurn
  <2>1. ~Left("S") /\ ~Left("R") /\ TCP /\ sent["S"] \in Seq(0 .. MAX_LINE)
        /\ sent["R"] \in Seq(0 .. MAX_LINE)
    BY SidesAre DEF TCP, LineInv, LineTypes
  <2>2. Len(sent["S"]) \in Nat /\ Len(sent["R"]) \in Nat
    BY <2>1, LenProperties
  <2>3. CASE pc["S"] \in {"type", "reply"}
    <3>1. \/ AllShown("S") /\ AllShown("R") /\ Len(sent["S"]) = Len(sent["R"])
          \/ OneLine("S") /\ AllShown("R") /\ Len(sent["S"]) = Len(sent["R"]) + 1
          \/ AllShown("S") /\ AllShown("R") /\ Len(sent["S"]) = Len(sent["R"]) + 1
          \/ AllShown("S") /\ OneLine("R") /\ Len(sent["S"]) = Len(sent["R"])
      BY <2>1, <2>3 DEF LineInv, Turns
    <3>2. \A s \in Sides : AllShown(Other(s)) \/ OneLine(Other(s)) => ShownAll(s)
      BY <2>2, SidesAre DEF AllShown, OneLine, Shown, ShownAll
    <3>3. QED
      BY <3>1, <3>2, SidesAre
  <2>4. CASE pc["S"] \notin {"type", "reply"}
    <3>1. \A s \in Sides : sent[s] = <<>> /\ shown[s] = <<>>
      BY <2>1, <2>4, SidesAre DEF LineInv, LineTypes, Places, Ends, Left
    <3>2. QED
      BY <3>1, SidesAre, EmptyTexts DEF ShownAll
  <2>5. QED
    BY <2>3, <2>4
<1>2. QED
  BY AlwaysLineInv, <1>1, PTL

\* The two sides never wait for each other: not in the handshake, not in the
\* exchange, however TCP cuts it, and not the parent of pipesend for a child
\* that nobody has told (vcsend.c:198, vcrec.c:240-250, pipesend.c:308-329).
THEOREM NeverMutualWait == Spec => []NoMutualWait
<1>1. LineInv => NoMutualWait
  <2> SUFFICES ASSUME LineInv PROVE NoMutualWait
    OBVIOUS
  <2>1. ~(/\ pc["S"] \in {"hand", "reply"} /\ wire["R"] = <<>>
          /\ pc["R"] = "recv" /\ wire["S"] = <<>>)
    BY DEF LineInv, Places, Ends
  <2>2. ~(pc["S"] = "wait" /\ pc["R"] = "read" /\ wire["S"] = <<>> /\ term = "nobody")
    BY DEF LineInv, Places, PipeEnds
  <2>3. QED
    BY <2>1, <2>2 DEF NoMutualWait
<1>2. QED
  BY AlwaysLineInv, <1>1, PTL

------------------------------------------------------------------------------
(***************************************************************************)
(* NetSession                                                              *)
(***************************************************************************)
(* Recalling the last line and entering it as it is leaves the history      *)
(* buffer as it was, but for the oldest line it keeps twice for a moment    *)
(* (sessrecv.c:220, 281: scroll_down() and scroll_up()).                    *)
THEOREM RecallThenEnter ==
  ASSUME NEW h \in Buffers
  PROVE  ScrollUp(ScrollDown(h), h[HISTLINES]) = h
<1> USE NetSessionAssumption
<1>1. ASSUME NEW i \in 1 .. HISTLINES, i # HISTLINES
      PROVE  i + 1 \in 1 .. HISTLINES /\ ScrollDown(h)[i + 1] = h[i]
  BY <1>1 DEF ScrollDown
<1>2. QED
  BY <1>1 DEF ScrollUp, Buffers

(* What is known of every variable the argument uses. *)
Types ==
  /\ recvs \in Nat /\ line \in Nat /\ rbuffer \in Nat
  /\ conn_flag \in {0, 1}
  /\ displayed \in Seq(Nat)
  /\ rpc \in {"listening", "listened"} => conn_flag = 0

(* One receive is posted at a time, and then nothing waits to be polled. *)
OneReceive == recvs <= 1 /\ (recvs = 1 => cmd_cplt = PENDING /\ conn_flag = 1)

Waiting == conn_flag = 1 /\ cmd_cplt = "success" /\ rpc \notin Exited

AllBefore(n) == \A i \in 1 .. Len(displayed) : displayed[i] < n

(* The lines shown are in order; the one that waits comes after them, and  *)
(* the one being sent after that.                                          *)
InOrder ==
  /\ \A i \in 1 .. Len(displayed) : 0 < displayed[i] /\ displayed[i] <= line
  /\ \A i, j \in 1 .. Len(displayed) : i < j => displayed[i] < displayed[j]
  /\ Waiting => 0 < rbuffer /\ rbuffer <= line /\ AllBefore(rbuffer)
  /\ spc = "sending" => 0 < line /\ AllBefore(line) /\ (Waiting => rbuffer < line)

NoneLost ==
  ~Leaving => \A l \in acked :
    \/ \E i \in 1 .. Len(displayed) : displayed[i] = l
    \/ conn_flag = 1 /\ cmd_cplt = "success" /\ rbuffer = l

SessionInv ==
  /\ Types
  /\ RecvOutstanding
  /\ ~relistened => OneReceive /\ InOrder /\ NoneLost

(* Nothing is posted, shown or acknowledged at the start. *)
THEOREM InitSessionInv == SessionInit => SessionInv
<1> SUFFICES ASSUME SessionInit PROVE SessionInv
  OBVIOUS
<1>1. /\ spc = "calling" /\ line = 0 /\ recvs = 0 /\ rpc = "arloop" /\ conn_flag = 0
      /\ rbuffer = 0 /\ displayed = <<>> /\ acked = {}
  BY DEF SessionInit
<1> HIDE DEF SessionInit
<1>2. Types
  BY <1>1 DEF Types
<1>3. RecvOutstanding /\ OneReceive
  BY <1>1 DEF RecvOutstanding, OneReceive
<1>4. InOrder /\ NoneLost
  BY <1>1 DEF InOrder, NoneLost, Waiting, AllBefore
<1>5. QED
  BY <1>2, <1>3, <1>4 DEF SessionInv

USE DEF PENDING, Exited, Leaving, Waiting, AllBefore

(* The sender's steps *)
LEMMA SenderSessionInv ==
  ASSUME SessionInv, SenderMoves PROVE SessionInv'
<1> USE DEF SessionInv, history, shellVars, ncbVars, serviceVars
<1>1. CASE CallAnswered
  BY <1>1 DEF CallAnswered, Types, RecvOutstanding, OneReceive, InOrder, NoneLost
<1>2. CASE CallFails \/ SendFails \/ SenderStarts
  BY <1>2 DEF CallFails, SendFails, SenderStarts, Types, RecvOutstanding, OneReceive,
              InOrder, NoneLost
<1>3. CASE EnterLine
  <2> USE <1>3 DEF EnterLine
  <2>1. Types' /\ RecvOutstanding' /\ (~relistened => OneReceive' /\ NoneLost')
    BY DEF Types, RecvOutstanding, OneReceive, NoneLost
  <2>2. ASSUME ~relistened PROVE InOrder'
    BY <2>2 DEF Types, InOrder
  <2>3. QED
    BY <2>1, <2>2
<1>4. CASE SendDone
  <2> USE <1>4 DEF SendDone, LineTaken
  <2>1. Types' /\ RecvOutstanding'
    BY DEF Types, RecvOutstanding
  <2>2. ASSUME ~relistened PROVE OneReceive' /\ InOrder' /\ NoneLost'
    <3>1. recvs = 1 /\ recvs' = 0 /\ cmd_cplt = PENDING /\ conn_flag = 1
      BY <2>2 DEF Types, OneReceive
    <3>2. OneReceive'
      BY <3>1 DEF OneReceive
    <3>3. InOrder'
      BY <2>2 DEF InOrder, Types
    <3>4. NoneLost'
      BY <2>2, <3>1 DEF NoneLost
    <3>5. QED
      BY <3>2, <3>3, <3>4
  <2>3. QED
    BY <2>1, <2>2
<1>5. CASE SendTimesOut
  <2> USE <1>5 DEF SendTimesOut, AfterTimeout
  <2>1. CASE SessionEnds /\ rbuffer' = rbuffer
    BY <2>1 DEF SessionEnds, Types, RecvOutstanding, OneReceive, InOrder, NoneLost
  <2>2. CASE LineTaken /\ recvs' = 0 /\ cmd_cplt' = IF recvs > 1 THEN "closed" ELSE "success"
    <3> USE <2>2 DEF LineTaken
    <3>1. Types' /\ RecvOutstanding'
      BY DEF Types, RecvOutstanding
    <3>2. ASSUME ~relistened PROVE OneReceive' /\ InOrder' /\ NoneLost'
      <4>1. recvs = 1 /\ cmd_cplt = PENDING /\ conn_flag = 1 /\ cmd_cplt' = "success"
        BY <3>2 DEF Types, OneReceive
      <4>2. QED
        BY <3>2, <4>1 DEF OneReceive, InOrder, NoneLost, Types
    <3>3. QED
      BY <3>1, <3>2
  <2>3. QED
    BY <2>1, <2>2
<1>6. CASE SenderOver
  <2>1. spc' # "sending"
    BY <1>6 DEF SenderOver, ExitCode
  <2>2. QED
    BY <1>6, <2>1 DEF SenderOver, SessionEnds, Types, RecvOutstanding, OneReceive,
                      InOrder, NoneLost
<1>7. QED
  BY <1>1, <1>2, <1>3, <1>4, <1>5, <1>6 DEF SenderMoves

(* The receiver's keyboard *)
LEMMA KeyboardSessionInv ==
  ASSUME SessionInv, Keyboard PROVE SessionInv'
<1> USE DEF SessionInv, senderVars, serviceVars, ncbVars, history
<1>1. CASE TypeCommand \/ Backspace \/ Recall
  BY <1>1 DEF TypeCommand, Backspace, Recall, Types, RecvOutstanding, OneReceive, InOrder, NoneLost
<1>2. CASE EnterListen \/ External \/ EnterOther \/ Exit
  BY <1>2 DEF EnterListen, External, EnterOther, Exit, Enter, Types, RecvOutstanding,
              OneReceive, InOrder, NoneLost
<1>3. CASE ListenAgain
  <2>1. relistened'
    BY <1>3 DEF ListenAgain
  <2>2. /\ rpc = "arloop" /\ rpc' = rpc /\ conn_flag' = conn_flag /\ conn_flag = 1
        /\ line' = line /\ rbuffer' = rbuffer /\ displayed' = displayed
        /\ PostReceive
    BY <1>3 DEF ListenAgain, Enter, IssueRecv
  <2>3. Types /\ RecvOutstanding
    OBVIOUS
  <2>4. Types' /\ RecvOutstanding'
    BY <2>2, <2>3 DEF PostReceive, Types, RecvOutstanding
  <2>5. QED
    BY <2>1, <2>4
<1>4. CASE ControlC
  BY <1>4 DEF ControlC, shellVars, Types, RecvOutstanding, OneReceive, InOrder, NoneLost
<1>5. QED
  BY <1>1, <1>2, <1>3, <1>4 DEF Keyboard

(* The receiver's own steps *)
LEMMA PollingSessionInv ==
  ASSUME SessionInv, Polling \/ ListenFails PROVE SessionInv'
<1> USE DEF SessionInv, senderVars, serviceVars, ncbVars, shellVars, history
<1>1. CASE SystemReturns \/ CancelDone
  BY <1>1 DEF SystemReturns, CancelDone, Types, RecvOutstanding, OneReceive, InOrder, NoneLost
<1>2. CASE ListenDone
  <2> USE <1>2 DEF ListenDone, IssueRecv, PostReceive
  <2>1. conn_flag = 0
    BY DEF Types
  <2>2. QED
    <3>1. Types' /\ RecvOutstanding'
      BY DEF Types, RecvOutstanding
    <3>2. cmd_cplt' # "success"
      OBVIOUS
    <3>3. ASSUME ~relistened PROVE OneReceive' /\ InOrder' /\ NoneLost'
      <4>1. OneReceive' /\ InOrder'
        BY <2>1, <3>2, <3>3 DEF Types, OneReceive, InOrder
      <4>2. NoneLost'
        <5> SUFFICES ASSUME NEW l \in acked'
                     PROVE  \E i \in 1 .. Len(displayed') : displayed'[i] = l
          BY DEF NoneLost
        <5>1. l \in acked /\ displayed' = displayed /\ ~Leaving
          OBVIOUS
        <5>2. \E i \in 1 .. Len(displayed) : displayed[i] = l
          BY <2>1, <3>3, <5>1 DEF NoneLost
        <5>3. QED
          BY <5>1, <5>2
      <4>3. QED
        BY <4>1, <4>2
    <3>4. QED
      BY <3>1, <3>3
<1>3. CASE ListenFails
  BY <1>3 DEF ListenFails, IssueRecv, Types, RecvOutstanding, OneReceive, InOrder, NoneLost
<1>4. CASE PollLine
  <2> USE <1>4 DEF PollLine, Completed, IssueRecv, PostReceive
  <2>1. Types' /\ RecvOutstanding'
    BY DEF Types, RecvOutstanding
  <2>2. ASSUME ~relistened PROVE OneReceive' /\ InOrder' /\ NoneLost'
    <3>1. recvs = 0 /\ cmd_cplt' # "success"
      BY <2>2 DEF Types, OneReceive
    <3>2. OneReceive'
      BY <3>1 DEF OneReceive
    <3>3. /\ Len(displayed') = Len(displayed) + 1
          /\ displayed'[Len(displayed) + 1] = rbuffer
          /\ \A i \in 1 .. Len(displayed) : displayed'[i] = displayed[i]
      BY DEF Types
    <3>4. Len(displayed) \in Nat
      BY DEF Types
    <3>5. InOrder'
      <4>1. \A i \in 1 .. Len(displayed') : i \in 1 .. Len(displayed) \/ i = Len(displayed) + 1
        BY <3>3, <3>4
      <4>2. \A i, j \in 1 .. Len(displayed') : i < j => displayed'[i] < displayed'[j]
        BY <2>2, <3>3, <3>4, <4>1 DEF InOrder
      <4>3. \A i \in 1 .. Len(displayed') : 0 < displayed'[i] /\ displayed'[i] <= line
        BY <2>2, <3>3, <4>1 DEF InOrder
      <4>4. spc = "sending" => 0 < line /\ AllBefore(line)'
        BY <2>2, <3>3, <4>1 DEF InOrder
      <4>5. QED
        BY <3>1, <4>2, <4>3, <4>4 DEF InOrder
    <3>6. NoneLost'
      <4>1. \A i \in 1 .. Len(displayed) : i \in 1 .. Len(displayed')
        BY <3>3, <3>4
      <4>2. Len(displayed) + 1 \in 1 .. Len(displayed')
        BY <3>3, <3>4
      <4> SUFFICES ASSUME NEW l \in acked'
                   PROVE  \E i \in 1 .. Len(displayed') : displayed'[i] = l
        BY DEF NoneLost
      <4>3. l \in acked /\ ~Leaving
        OBVIOUS
      <4>4. CASE rbuffer = l
        BY <4>4, <3>3, <4>2
      <4>5. CASE \E i \in 1 .. Len(displayed) : displayed[i] = l
        BY <4>5, <3>3, <4>1
      <4>6. QED
        BY <2>2, <4>3, <4>4, <4>5 DEF NoneLost
    <3>7. QED
      BY <3>2, <3>5, <3>6
  <2>3. QED
    BY <2>1, <2>2
<1>5. CASE PollError
  BY <1>5 DEF PollError, Completed, Types, RecvOutstanding, OneReceive, InOrder, NoneLost
<1>6. CASE Cancel
  BY <1>6 DEF Cancel, Types, RecvOutstanding, OneReceive, InOrder, NoneLost
<1>7. CASE HangUp
  <2>1. rpc' \in Exited
    BY <1>7 DEF HangUp, ExitCode
  <2>2. /\ recvs' \in {0, recvs}
        /\ (recvs' = recvs /\ cmd_cplt' = cmd_cplt) \/ recvs' = 0
    BY <1>7 DEF HangUp, SessionEnds
  <2>3. QED
    BY <1>7, <2>1, <2>2 DEF HangUp, Types, RecvOutstanding, OneReceive, InOrder, NoneLost
<1>8. QED
  BY <1>1, <1>2, <1>3, <1>4, <1>5, <1>6, <1>7 DEF Polling

(* SessionInv is inductive. *)
THEOREM NextSessionInv == SessionInv /\ [SessionNext]_sessionVars => SessionInv'
<1> SUFFICES ASSUME SessionInv, [SessionNext]_sessionVars PROVE SessionInv'
  OBVIOUS
<1>1. CASE SessionNext
  BY <1>1, SenderSessionInv, KeyboardSessionInv, PollingSessionInv DEF SessionNext
<1>2. CASE UNCHANGED sessionVars
  BY <1>2 DEF sessionVars, senderVars, serviceVars, ncbVars, history, SessionInv, Types,
              RecvOutstanding, OneReceive, InOrder, NoneLost
<1>3. QED
  BY <1>1, <1>2

(* As long as it believes in the connection, the receiver has a receive    *)
(* posted or a completion to look at.                                      *)
THEOREM AlwaysReceiving == SessionSpec => []RecvOutstanding
<1>1. SessionInv => RecvOutstanding
  BY DEF SessionInv
<1>2. QED
  BY InitSessionInv, NextSessionInv, <1>1, PTL DEF SessionSpec

(* No acknowledged line is lost while the receiver runs, and lines are     *)
(* shown in the order of entry, unless listen was entered when connected.  *)
THEOREM NoLineLost == SessionSpec => []LinesKept
<1>1. SessionInv => LinesKept
  BY DEF SessionInv, InOrder, NoneLost, LinesKept
<1>2. QED
  BY InitSessionInv, NextSessionInv, <1>1, PTL DEF SessionSpec

(***************************************************************************)
(* Types, and how many receives there can be                               *)
(***************************************************************************)
Plain ==
  /\ spc \in {"calling", "prompt", "sending"} \cup Exited
  /\ line \in 0 .. MaxLines /\ runs \in 1 .. MaxRuns
  /\ session \in {"none", "up", "down"} /\ recvs \in Nat
  /\ rpc \in {"arloop", "listening", "listened", "system", "over", "wait", "closing"} \cup Exited
  /\ conn_flag \in {0, 1} /\ cmd_cplt \in {PENDING, "success", "closed", "cancelled"}
  /\ rbuffer \in 0 .. MaxLines
  /\ cmdbuf \in Commands \cup {NoCommand} /\ hist \in Buffers /\ commands \in 0 .. MaxCommands
  /\ displayed \in Seq(0 .. MaxLines) /\ acked \subseteq 1 .. MaxLines
Flags == timedout \in BOOLEAN /\ relistened \in BOOLEAN

(* Receives are posted on a session, which the sender is on; the receiver   *)
(* listens with none, and with no command typed.                            *)
OnSession ==
  /\ session = "up" => spc \in {"prompt", "sending"}
  /\ session # "up" => recvs = 0
  /\ rpc = "listened" => recvs = 0
  /\ rpc \in {"listening", "listened"} => cmdbuf = NoCommand
  /\ spc = "sending" => line >= 1

(* A receive more takes a command, typed or yet to be entered; a line that  *)
(* waits to be polled will be followed by a receive.                        *)
Polled == IF conn_flag = 1 /\ cmd_cplt = "success" THEN 1 ELSE 0
Entered == IF cmdbuf # NoCommand THEN 1 ELSE 0
Room == recvs + Polled + Entered <= commands + 1

(* Nobody types the empty command. *)
LEMMA CommandsTyped == \A c \in Typed : c # NoCommand
BY Zenon DEF Typed, NoCommand

(* What a command that is entered does. *)
LEMMA Entering ==
  ASSUME EnterListen \/ ListenAgain \/ External \/ EnterOther \/ Exit
  PROVE  \E c \in Commands : Enter(c)
BY Zenon DEF EnterListen, ListenAgain, External, EnterOther, Exit, Commands, Typed

(* A command of the system changes nothing of the session. *)
LEMMA ExternalDoes ==
  ASSUME External
  PROVE  /\ rpc = "arloop" /\ rpc' = "system" /\ cmdbuf' = NoCommand
         /\ UNCHANGED <<senderVars, serviceVars, ncbVars, commands, displayed,
                        acked, timedout, relistened>>
BY Zenon DEF External, Enter, senderVars, serviceVars, ncbVars

(* The history stays a history of commands. *)
LEMMA HistoryTypes ==
  ASSUME NEW h \in Buffers
  PROVE  /\ h[HISTLINES] \in Commands /\ ScrollDown(h) \in Buffers
         /\ \A c \in Commands : ScrollUp(h, c) \in Buffers
<1> USE NetSessionAssumption DEF Buffers
<1>1. HISTLINES \in 1 .. HISTLINES /\ \A i \in 1 .. HISTLINES : h[i] \in Commands
  OBVIOUS
<1>2. \A i \in 1 .. HISTLINES : /\ i # 1 => i - 1 \in 1 .. HISTLINES
                               /\ i # HISTLINES => i + 1 \in 1 .. HISTLINES
  OBVIOUS
<1>3. \A i \in 1 .. HISTLINES : (IF i = 1 THEN h[1] ELSE h[i - 1]) \in Commands
  BY <1>1, <1>2
<1>4. \A c \in Commands, i \in 1 .. HISTLINES :
        (IF i = HISTLINES THEN c ELSE h[i + 1]) \in Commands
  BY <1>1, <1>2
<1>5. QED
  BY <1>1, <1>3, <1>4 DEF ScrollDown, ScrollUp

(* Every step keeps the plain variables in their types. *)
LEMMA NextPlain ==
  ASSUME Plain, OnSession, [SessionNext]_sessionVars PROVE Plain'
<1> USE NetSessionAssumption DEF Plain, history, shellVars, ncbVars, serviceVars, senderVars
<1>1. CASE SenderMoves
  <2>1. CASE CallAnswered \/ CallFails \/ SendFails
    BY <2>1 DEF CallAnswered, CallFails, SendFails
  <2>2. CASE EnterLine
    BY <2>2 DEF EnterLine
  <2>3. CASE SenderStarts
    BY <2>3 DEF SenderStarts
  <2>4. CASE SendDone
    BY <2>4 DEF SendDone, LineTaken, OnSession
  <2>5. CASE SendTimesOut
    BY <2>5 DEF SendTimesOut, LineTaken, SessionEnds, AfterTimeout
  <2>6. CASE SenderOver
    <3>1. spc' \in Exited
      BY <2>6 DEF SenderOver, ExitCode
    <3>2. QED
      BY <2>6, <3>1 DEF SenderOver, SessionEnds
  <2>7. QED
    BY <1>1, <2>1, <2>2, <2>3, <2>4, <2>5, <2>6 DEF SenderMoves
<1>2. CASE Keyboard
  <2>1. CASE TypeCommand \/ Backspace \/ ControlC
    <3>1. Typed \subseteq Commands
      BY DEF Commands
    <3>2. CASE TypeCommand
      BY <3>1, <3>2 DEF TypeCommand
    <3>3. CASE Backspace \/ ControlC
      BY <3>3 DEF Backspace, ControlC
    <3>4. QED
      BY <2>1, <3>2, <3>3
  <2>2. CASE Recall
    BY <2>2, HistoryTypes DEF Recall
  <2>3. CASE EnterListen \/ External \/ EnterOther \/ Exit \/ ListenAgain
    <3>1. hist' \in Buffers /\ cmdbuf' = NoCommand
      BY <2>3, Entering, HistoryTypes DEF Enter
    <3>2. UNCHANGED <<senderVars, session, conn_flag, rbuffer, commands, displayed,
                     acked, timedout>>
      BY <2>3, Entering DEF Enter
    <3>3. /\ recvs' \in Nat /\ cmd_cplt' \in {PENDING, "success", "closed", "cancelled"}
          /\ rpc' \in {"arloop", "listening", "system", "over"}
      <4>1. CASE External
        BY <4>1, ExternalDoes
      <4>2. CASE EnterListen \/ EnterOther \/ Exit
        BY <4>2 DEF EnterListen, EnterOther, Exit, Enter
      <4>3. CASE ListenAgain
        BY <4>3 DEF ListenAgain, Enter, IssueRecv, PostReceive
      <4>4. QED
        BY <2>3, <4>1, <4>2, <4>3
    <3>4. QED
      BY <3>1, <3>2, <3>3
  <2>4. QED
    BY <1>2, <2>1, <2>2, <2>3 DEF Keyboard
<1>3. CASE Polling \/ ListenFails
  <2>1. CASE SystemReturns \/ PollError \/ CancelDone
    BY <2>1 DEF SystemReturns, PollError, CancelDone
  <2>2. CASE ListenDone
    BY <2>2 DEF ListenDone, IssueRecv, PostReceive
  <2>3. CASE ListenFails
    BY <2>3 DEF ListenFails, IssueRecv
  <2>4. CASE PollLine
    BY <2>4 DEF PollLine, Completed, IssueRecv, PostReceive
  <2>5. CASE Cancel
    BY <2>5 DEF Cancel
  <2>6. CASE HangUp
    BY <2>6 DEF HangUp, SessionEnds, ExitCode
  <2>7. QED
    BY <1>3, <2>1, <2>2, <2>3, <2>4, <2>5, <2>6 DEF Polling
<1>4. CASE UNCHANGED sessionVars
  BY <1>4 DEF sessionVars
<1>5. QED
  BY <1>1, <1>2, <1>3, <1>4 DEF SessionNext

(* Every step leaves a receive posted with room for what is sent. *)
LEMMA NextRoom ==
  ASSUME Plain, OnSession, Room, Types, [SessionNext]_sessionVars PROVE OnSession' /\ Room'
<1> USE DEF OnSession, Room, Polled, Entered, Plain, history, shellVars, ncbVars,
        serviceVars, senderVars
<1>1. CASE SenderMoves
  <2>1. CASE CallAnswered \/ CallFails \/ EnterLine \/ SendFails \/ SenderStarts
    BY <2>1 DEF CallAnswered, CallFails, EnterLine, SendFails, SenderStarts
  <2>2. CASE SendDone
    BY <2>2 DEF SendDone, LineTaken
  <2>3. CASE SendTimesOut
    BY <2>3 DEF SendTimesOut, LineTaken, SessionEnds, AfterTimeout
  <2>4. CASE SenderOver
    BY <2>4 DEF SenderOver, SessionEnds, ExitCode
  <2>5. QED
    BY <1>1, <2>1, <2>2, <2>3, <2>4 DEF SenderMoves
<1>2. CASE Keyboard
  <2>1. CASE TypeCommand \/ Backspace \/ ControlC \/ Recall
    BY <2>1 DEF TypeCommand, Backspace, ControlC, Recall
  <2>2. CASE EnterListen \/ EnterOther \/ Exit \/ External
    BY <2>2, ExternalDoes DEF EnterListen, EnterOther, Exit, Enter
  <2>3. CASE ListenAgain
    <3>1. cmdbuf # NoCommand
      BY <2>3, CommandsTyped DEF ListenAgain, Enter, Typed
    <3>2. /\ rpc = "arloop" /\ rpc' = rpc /\ cmdbuf' = NoCommand
          /\ UNCHANGED <<senderVars, session, conn_flag, commands>>
          /\ PostReceive
      BY <2>3 DEF ListenAgain, Enter, IssueRecv
    <3>3. QED
      BY <3>1, <3>2 DEF PostReceive
  <2>4. QED
    BY <1>2, <2>1, <2>2, <2>3 DEF Keyboard
<1>3. CASE Polling \/ ListenFails
  <2>1. CASE SystemReturns \/ PollError \/ CancelDone \/ ListenFails
    BY <2>1 DEF SystemReturns, PollError, CancelDone, ListenFails, IssueRecv
  <2>2. CASE ListenDone
    BY <2>2 DEF ListenDone, IssueRecv, PostReceive
  <2>3. CASE PollLine
    BY <2>3 DEF PollLine, Completed, IssueRecv, PostReceive
  <2>4. CASE Cancel
    BY <2>4 DEF Cancel
  <2>5. CASE HangUp
    BY <2>5 DEF HangUp, SessionEnds, ExitCode
  <2>6. QED
    BY <1>3, <2>1, <2>2, <2>3, <2>4, <2>5 DEF Polling
<1>4. CASE UNCHANGED sessionVars
  BY <1>4 DEF sessionVars
<1>5. QED
  BY <1>1, <1>2, <1>3, <1>4 DEF SessionNext

(* Every step keeps the flags of the NCBs. *)
LEMMA NextFlags ==
  ASSUME Flags, [SessionNext]_sessionVars PROVE Flags'
BY Zenon DEF Flags, sessionVars, senderVars, serviceVars, ncbVars, shellVars, history,
  SessionNext, SenderMoves,
   Keyboard, Polling, CallAnswered, CallFails, EnterLine, SendDone, SendTimesOut, SendFails,
   SenderOver, SenderStarts, TypeCommand, Backspace, Recall, EnterListen, ListenAgain, External,
   EnterOther, Exit, Enter, ControlC, SystemReturns, ListenDone, PollLine, PollError, Cancel,
   CancelDone, HangUp, ListenFails

(* Every variable keeps its type; there is at most one receive, or, once    *)
(* listen has been entered when connected, one more than commands have been *)
(* entered (sessrecv.c:296, 366-396).                                       *)
THEOREM TypesAndReceives == SessionSpec => []SessionTypes
<1>1. SessionInit => Plain /\ Flags /\ OnSession /\ Room
  <2> SUFFICES ASSUME SessionInit PROVE Plain /\ Flags /\ OnSession /\ Room
    OBVIOUS
  <2>1. /\ spc = "calling" /\ line = 0 /\ runs = 1 /\ session = "none" /\ recvs = 0
        /\ rpc = "arloop" /\ conn_flag = 0 /\ cmd_cplt = PENDING /\ rbuffer = 0
        /\ cmdbuf = NoCommand /\ commands = 0 /\ displayed = <<>> /\ acked = {}
    BY Zenon DEF SessionInit
  <2>2. Flags
    BY Zenon DEF SessionInit, Flags
  <2>3. hist \in Buffers
    <3>1. " " \in Commands
      BY Zenon DEF Commands
    <3>2. QED
      BY <3>1, Zenon DEF SessionInit, ClearHist, Buffers
  <2> HIDE DEF SessionInit
  <2>4. Plain
    BY <2>1, <2>3, NetSessionAssumption DEF Plain
  <2>5. OnSession /\ Room
    BY <2>1 DEF OnSession, Room, Polled, Entered
  <2>6. QED
    BY <2>2, <2>4, <2>5
<1>2. SessionInv /\ (Plain /\ Flags /\ OnSession /\ Room) /\ [SessionNext]_sessionVars
      => (Plain /\ Flags /\ OnSession /\ Room)'
  <2> SUFFICES ASSUME SessionInv, Plain, Flags, OnSession, Room, [SessionNext]_sessionVars
               PROVE  (Plain /\ Flags /\ OnSession /\ Room)'
    OBVIOUS
  <2>1. Plain' /\ OnSession' /\ Room'
    BY NextPlain, NextRoom DEF SessionInv
  <2>2. Flags'
    BY NextFlags
  <2>3. QED
    BY <2>1, <2>2
<1>3. SessionInv /\ (Plain /\ Flags /\ OnSession /\ Room) => SessionTypes
  <2> SUFFICES ASSUME SessionInv, Plain, Flags, Room PROVE SessionTypes
    OBVIOUS
  <2>1. CASE relistened
    <3>1. recvs <= commands + 1
      BY DEF Room, Polled, Entered, Plain
    <3>2. QED
      BY <2>1, <3>1, Zenon DEF Plain, Flags, SessionTypes
  <2>2. CASE ~relistened
    <3>1. recvs <= 1
      BY <2>2, Zenon DEF SessionInv, OneReceive
    <3>2. QED
      BY <2>2, <3>1, Zenon DEF Plain, Flags, SessionTypes
  <2>3. QED
    BY <2>1, <2>2
<1>4. QED
  BY InitSessionInv, NextSessionInv, <1>1, <1>2, <1>3, PTL DEF SessionSpec
=============================================================================
