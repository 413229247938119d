----------------------------- MODULE ShellProofs -----------------------------
(***************************************************************************)
(* s_sh.c for every value of the constants.  Job control: for any number   *)
(* of process ids and of slots, the safety properties of Shell, from the   *)
(* inductive invariants IInv and ZombieInv.  The command line: for buffers *)
(* and rings of any size and any keys, the properties of CmdLine, from the *)
(* inductive invariant CmdInv, the loop invariant Walk of parse_cmdbuf()   *)
(* and what each helper on sequences returns.                              *)
(***************************************************************************)
EXTENDS Shell, CmdLine, SequenceTheorems, FiniteSetTheorems, WellFoundedInduction, TLAPS

(***************************************************************************)
(* Numbers, and the bytes of a line                                        *)
(***************************************************************************)
\* A set of numbers that is not empty has a least one.
LEMMA LeastIs ==
  ASSUME NEW S, S \subseteq Nat, S # {}
  PROVE  Least(S) \in S /\ \A m \in S : Least(S) <= m
<1>1. PICK x \in S : \A y \in S : <<y, x>> \notin OpToRel(<, Nat)
  BY WFMin, NatLessThanWellFounded
<1>2. \A y \in S : x <= y
  <2>1. \A y \in S : ~(y < x)
    BY <1>1 DEF OpToRel
  <2>2. QED
    BY <2>1
<1>3. QED
  BY <1>2 DEF Least

\* Induction over the natural numbers, for a set of them.
LEMMA AllNumbers ==
  ASSUME NEW T, 0 \in T, \A n \in Nat : n \in T => n + 1 \in T
  PROVE  Nat \subseteq T
<1> DEFINE Rest == {n \in Nat : n \notin T}
<1>1. SUFFICES ASSUME Rest # {} PROVE FALSE
  OBVIOUS
<1>2. PICK n \in Rest : \A m \in Rest : <<m, n>> \notin OpToRel(<, Nat)
  <2>1. Rest \subseteq Nat
    OBVIOUS
  <2>2. QED
    BY <1>1, <2>1, WFMin, NatLessThanWellFounded
<1>3. n \in Nat /\ n \notin T /\ n # 0
  BY <1>2
<1>4. n - 1 \in Nat /\ n - 1 < n /\ (n - 1) + 1 = n
  BY <1>3
<1>5. n - 1 \notin T
  BY <1>3, <1>4
<1>6. n - 1 \in Rest /\ <<n - 1, n>> \in OpToRel(<, Nat)
  BY <1>3, <1>4, <1>5 DEF OpToRel
<1>7. QED
  BY <1>2, <1>6

Lines == Seq(Byte)
Tokens == Seq(Lines)

LEMMA LineIs ==
  ASSUME NEW line \in Lines
  PROVE  /\ Len(line) \in Nat /\ \A i \in 1 .. Len(line) : line[i] \in Byte
         /\ \A i \in Nat : i < Len(line) => At(line, i) = line[i + 1]
         /\ At(line, Len(line)) = NUL
<1>1. Len(line) \in Nat /\ \A i \in 1 .. Len(line) : line[i] \in Byte
  BY ElementOfSeq, LenProperties DEF Lines
<1>2. QED
  BY <1>1 DEF At

\* Skip() stops at the first byte that is not blank.
LEMMA SkipIs ==
  ASSUME NEW line \in Lines, NEW i \in Nat, i <= Len(line)
  PROVE  /\ Skip(line, i) \in Nat /\ i <= Skip(line, i) /\ Skip(line, i) <= Len(line)
         /\ At(line, Skip(line, i)) \notin Blanks
         /\ \A k \in Nat : i <= k /\ k < Skip(line, i) => At(line, k) \in Blanks
<1> DEFINE S == {k \in i .. Len(line) : At(line, k) \notin Blanks}
<1>1. Len(line) \in Nat /\ At(line, Len(line)) = NUL
  BY LineIs
<1>2. Len(line) \in S /\ S \subseteq Nat
  BY <1>1 DEF NUL, Blanks
<1>3. Least(S) \in S /\ \A m \in S : Least(S) <= m
  BY <1>2, LeastIs
<1>4. Skip(line, i) = Least(S)
  BY DEF Skip
<1>5. \A k \in Nat : i <= k /\ k < Least(S) => At(line, k) \in Blanks
  <2> SUFFICES ASSUME NEW k \in Nat, i <= k, k < Least(S), At(line, k) \notin Blanks
               PROVE  FALSE
    OBVIOUS
  <2>1. Least(S) \in i .. Len(line)
    BY <1>3
  <2>2. k \in S
    BY <1>1, <2>1
  <2>3. Least(S) <= k
    BY <1>3, <2>2
  <2> HIDE DEF S
  <2>4. QED
    BY <2>1, <2>3
<1>6. Least(S) \in i .. Len(line) /\ At(line, Least(S)) \notin Blanks
  BY <1>3
<1> HIDE DEF S
<1>7. QED
  BY <1>1, <1>4, <1>5, <1>6

\* Quotes open and close one after the other.
LEMMA QuotesAre ==
  ASSUME NEW line, NEW s \in Nat, NEW open \in BOOLEAN
  PROVE  /\ InQuote(line, s, open, s) = open
         /\ \A k \in Nat : s <= k =>
              /\ InQuote(line, s, open, k) \in BOOLEAN
              /\ InQuote(line, s, open, k + 1) =
                   IF At(line, k) = "quote" THEN ~InQuote(line, s, open, k)
                   ELSE InQuote(line, s, open, k)
<1>1. Quotes(line, s, s) = {}
  BY DEF Quotes
<1>2. InQuote(line, s, open, s) = open
  BY <1>1, FS_EmptySet DEF InQuote
<1>3. ASSUME NEW k \in Nat, s <= k
      PROVE  InQuote(line, s, open, k + 1) =
               IF At(line, k) = "quote" THEN ~InQuote(line, s, open, k)
               ELSE InQuote(line, s, open, k)
  <2>1. IsFiniteSet(Quotes(line, s, k)) /\ k \notin Quotes(line, s, k)
    <3>1. IsFiniteSet(s .. k - 1) /\ Quotes(line, s, k) \subseteq s .. k - 1
      BY FS_Interval DEF Quotes
    <3>2. QED
      BY <3>1, FS_Subset
  <2>2. Quotes(line, s, k + 1) = IF At(line, k) = "quote" THEN Quotes(line, s, k) \cup {k}
                                 ELSE Quotes(line, s, k)
    BY <1>3 DEF Quotes
  <2>3. Cardinality(Quotes(line, s, k)) \in Nat
    BY <2>1, FS_CardinalityType
  <2>4. CASE At(line, k) = "quote"
    <3>1. Cardinality(Quotes(line, s, k + 1)) = Cardinality(Quotes(line, s, k)) + 1
      BY <2>1, <2>2, <2>4, FS_AddElement
    <3>2. (Cardinality(Quotes(line, s, k + 1)) % 2 = 1) = ~(Cardinality(Quotes(line, s, k)) % 2 = 1)
      BY <2>3, <3>1
    <3>3. QED
      BY <2>4, <3>2 DEF InQuote
  <2>5. CASE At(line, k) # "quote"
    BY <2>2, <2>5 DEF InQuote
  <2>6. QED
    BY <2>4, <2>5
<1>4. \A k \in Nat : InQuote(line, s, open, k) \in BOOLEAN
  BY DEF InQuote
<1>5. QED
  BY <1>2, <1>3, <1>4

\* A scan that begins in the middle with what is open there finds the same.
LEMMA QuotesGoOn ==
  ASSUME NEW line, NEW s \in Nat, NEW open \in BOOLEAN, NEW k \in Nat, s <= k
  PROVE  InQuote(line, s, InQuote(line, 0, open, s), k) = InQuote(line, 0, open, k)
<1> DEFINE b == InQuote(line, 0, open, s)
<1> DEFINE T == {n \in Nat : InQuote(line, s, b, s + n) = InQuote(line, 0, open, s + n)}
<1>0. b \in BOOLEAN
  BY QuotesAre
<1>1. 0 \in T
  BY <1>0, QuotesAre
<1>2. ASSUME NEW n \in Nat, n \in T PROVE n + 1 \in T
  <2>1. s + n \in Nat /\ s <= s + n /\ 0 <= s + n /\ (s + n) + 1 = s + (n + 1)
    OBVIOUS
  <2>2. InQuote(line, s, b, s + n) = InQuote(line, 0, open, s + n)
    BY <1>2
  <2> HIDE DEF b
  <2> DEFINE q == At(line, s + n) = "quote"
  <2>a. InQuote(line, s, b, (s + n) + 1) =
          IF q THEN ~InQuote(line, s, b, s + n) ELSE InQuote(line, s, b, s + n)
    BY <1>0, <2>1, QuotesAre
  <2>b. InQuote(line, 0, open, (s + n) + 1) =
          IF q THEN ~InQuote(line, 0, open, s + n) ELSE InQuote(line, 0, open, s + n)
    BY <2>1, QuotesAre
  <2> HIDE DEF q
  <2>3. InQuote(line, s, b, (s + n) + 1) = InQuote(line, 0, open, (s + n) + 1)
    BY <2>2, <2>a, <2>b
  <2>4. QED
    BY <2>1, <2>3
<1> HIDE DEF T
<1>3. k - s \in T
  BY <1>1, <1>2, AllNumbers
<1>4. QED
  BY <1>3 DEF T

\* Where the scan of a token stops, and that it did not stop before.
Stops(line, s, open, k) ==
  \/ k - s = MAX_ARGLEN - 1
  \/ At(line, k) = NUL
  \/ ~Printing(At(line, k)) /\ ~(At(line, k) = "sp" /\ InQuote(line, s, open, k))

LEMMA TokenEndIs ==
  ASSUME NEW line \in Lines, NEW s \in Nat, s <= Len(line), NEW open \in BOOLEAN
  PROVE  LET e == TokenEnd(line, s, open)
         IN  /\ e \in Nat /\ s <= e /\ e <= Len(line)
             /\ Stops(line, s, open, e)
             /\ \A k \in Nat : s <= k /\ k < e => ~Stops(line, s, open, k)
<1> DEFINE S == {k \in s .. Len(line) : Stops(line, s, open, k)}
<1>1. Len(line) \in Nat /\ At(line, Len(line)) = NUL
  BY LineIs
<1>2. Len(line) \in S /\ S \subseteq Nat
  BY <1>1 DEF Stops
<1>3. TokenEnd(line, s, open) = Least(S)
  BY DEF TokenEnd, Stops
<1>4. Least(S) \in S /\ \A m \in S : Least(S) <= m
  BY <1>2, LeastIs
<1>5. ASSUME NEW k \in Nat, s <= k, k < Least(S) PROVE ~Stops(line, s, open, k)
  <2>1. Least(S) \in s .. Len(line)
    BY <1>4
  <2>2. k \in s .. Len(line) /\ ~(Least(S) <= k)
    <3> HIDE DEF S
    <3> QED BY <1>1, <1>5, <2>1
  <2>3. k \notin S
    BY <1>4, <2>2
  <2>4. QED
    BY <2>2, <2>3
<1>6. Least(S) \in s .. Len(line) /\ Stops(line, s, open, Least(S))
  BY <1>4
<1> HIDE DEF S
<1>7. QED
  BY <1>1, <1>3, <1>5, <1>6

\* A token is bytes of the line.
LEMMA TokenTextIs ==
  ASSUME NEW line \in Lines, NEW s \in Nat, NEW e \in Nat, s <= e, e <= Len(line),
         NEW open \in BOOLEAN
  PROVE  TokenText(line, s, e, open) \in Lines
<1> DEFINE quotes == Quotes(line, s, e)
           opening == {q \in quotes : ~InQuote(line, s, open, q)}
           first == s + Cardinality(opening)
           ends == {q \in quotes : InQuote(line, s, open, q) /\ q >= first}
           last == Least(ends \cup {e})
<1>1. Cardinality(opening) \in Nat
  <2>1. IsFiniteSet(s .. e - 1) /\ opening \subseteq s .. e - 1
    BY FS_Interval DEF Quotes
  <2>2. QED
    BY <2>1, FS_Subset, FS_CardinalityType
<1>2. last \in ends \cup {e} /\ ends \cup {e} \subseteq Nat /\ \A q \in ends : q < e
  <2>1. ends \subseteq s .. e - 1
    BY DEF Quotes
  <2> HIDE DEF ends
  <2>2. ends \cup {e} \subseteq Nat /\ ends \cup {e} # {}
    BY <2>1
  <2>3. last \in ends \cup {e}
    BY <2>2, LeastIs
  <2>4. QED
    BY <2>1, <2>2, <2>3
<1>3. last \in Nat /\ last <= e
  BY <1>2
<1>4. TokenText(line, s, e, open) = SubSeq(line, first + 1, last)
  BY DEF TokenText
<1> HIDE DEF last, opening
<1>5. \A k \in first + 1 .. last : line[k] \in Byte
  BY <1>1, <1>3, LineIs
<1>6. QED
  BY <1>1, <1>3, <1>4, <1>5, SubSeqProperties DEF Lines

(***************************************************************************)
(* parse_cmdbuf(): what it keeps from token to token                       *)
(***************************************************************************)
Start(line) ==
  [line |-> line, i |-> 0, argv |-> <<>>, inquote |-> FALSE, nowildcard |-> TRUE,
   wc_index |-> 0, in_redir |-> FALSE, inredir_j |-> 0, out_redir |-> FALSE,
   outredir_j |-> 0, done |-> FALSE]

Parsed(line) ==
  [line: {line}, i: Nat, argv: Tokens, inquote: BOOLEAN, nowildcard: BOOLEAN,
   wc_index: Nat, in_redir: BOOLEAN, inredir_j: Nat, out_redir: BOOLEAN,
   outredir_j: Nat, done: BOOLEAN]

\* The places of the redirections hold them, if there was room for them.
Parsing(p, line) ==
  /\ p \in Parsed(line)
  /\ Len(p.argv) <= MAX_ARGS - 1
  /\ ~p.done => p.i <= Len(line)
  /\ p.inredir_j > 0 /\ p.inredir_j < Len(p.argv) => p.argv[p.inredir_j + 1] = <<"<">>
  /\ p.outredir_j > 0 /\ p.outredir_j < Len(p.argv) => p.argv[p.outredir_j + 1] = <<">">>
  /\ ~p.done => p.inredir_j <= Len(p.argv) /\ p.outredir_j <= Len(p.argv)
  /\ ~p.done /\ p.inredir_j > 0 => p.inredir_j < Len(p.argv)
  /\ ~p.done /\ p.outredir_j > 0 => p.outredir_j < Len(p.argv)

LEMMA StartParses ==
  ASSUME NEW line \in Lines PROVE Parsing(Start(line), line)
<1>1. Len(line) \in Nat
  BY LineIs
<1>2. <<>> \in Tokens /\ Len(<<>>) = 0
  BY EmptySeq DEF Tokens
<1>3. MAX_ARGS \in Nat /\ MAX_ARGS > 2
  BY CmdLineAssumption
<1>4. QED
  BY <1>1, <1>2, <1>3 DEF Start, Parsed, Parsing

LEMMA StoreKeeps ==
  ASSUME NEW line \in Lines, NEW p, Parsing(p, line), ~p.done,
         NEW e \in Nat, e <= Len(line), NEW text \in Lines, NEW star \in BOOLEAN
  PROVE  LET r == StoreToken(p, e, text, star)
         IN  /\ Parsing(r, line)
             /\ r.i = e + 1 /\ r.inquote = p.inquote
             /\ r.argv = IF Len(p.argv) = MAX_ARGS - 1 THEN p.argv ELSE Append(p.argv, text)
             /\ r.inredir_j = IF p.inredir_j = 0 /\ text = <<"<">> THEN Len(p.argv)
                              ELSE p.inredir_j
             /\ r.outredir_j = IF p.outredir_j = 0 /\ text = <<">">> THEN Len(p.argv)
                               ELSE p.outredir_j
             /\ r.done <=> (Len(p.argv) = MAX_ARGS - 1 \/ At(line, e) = NUL)
             /\ r.line = line
<1> DEFINE r == StoreToken(p, e, text, star)
           j == Len(p.argv)
<1>1. p \in Parsed(line) /\ p.argv \in Tokens /\ j \in Nat /\ j <= MAX_ARGS - 1
      /\ p.inredir_j \in Nat /\ p.outredir_j \in Nat /\ p.line = line
  <2>1. p \in Parsed(line) /\ p.argv \in Tokens /\ j <= MAX_ARGS - 1
        /\ p.inredir_j \in Nat /\ p.outredir_j \in Nat /\ p.line = line
    BY DEF Parsing, Parsed
  <2>2. QED
    BY <2>1, LenProperties DEF Tokens
<1>2. MAX_ARGS \in Nat
  BY CmdLineAssumption
<1>3. /\ Append(p.argv, text) \in Tokens /\ Len(Append(p.argv, text)) = j + 1
      /\ \A x \in 1 .. j : Append(p.argv, text)[x] = p.argv[x]
      /\ Append(p.argv, text)[j + 1] = text
  BY <1>1, AppendProperties DEF Tokens
<1>4. /\ r.i = e + 1 /\ r.inquote = p.inquote
      /\ r.argv = IF j = MAX_ARGS - 1 THEN p.argv ELSE Append(p.argv, text)
      /\ r.inredir_j = IF p.inredir_j = 0 /\ text = <<"<">> THEN j ELSE p.inredir_j
      /\ r.outredir_j = IF p.outredir_j = 0 /\ text = <<">">> THEN j ELSE p.outredir_j
      /\ r.done <=> (j = MAX_ARGS - 1 \/ At(line, e) = NUL)
      /\ r.line = line
  BY <1>1 DEF StoreToken, Parsed
<1>5. r \in Parsed(line)
  <2> DEFINE isIn == p.inredir_j = 0 /\ text = <<"<">>
             isOut == p.outredir_j = 0 /\ text = <<">">>
             full == j = MAX_ARGS - 1
             a == IF full THEN p.argv ELSE Append(p.argv, text)
             nw == p.nowildcard /\ ~star
             wi == IF p.nowildcard /\ star THEN j ELSE p.wc_index
             ir == p.in_redir \/ isIn
             ij == IF isIn THEN j ELSE p.inredir_j
             or == p.out_redir \/ isOut
             oj == IF isOut THEN j ELSE p.outredir_j
             d == full \/ At(p.line, e) = NUL
  <2>1. r = [p EXCEPT !.i = e + 1, !.argv = a, !.nowildcard = nw, !.wc_index = wi,
                      !.in_redir = ir, !.inredir_j = ij, !.out_redir = or,
                      !.outredir_j = oj, !.done = d]
    BY Zenon DEF StoreToken
  <2>2. nw \in BOOLEAN /\ ir \in BOOLEAN /\ or \in BOOLEAN /\ d \in BOOLEAN
    OBVIOUS
  <2>3. a \in Tokens /\ wi \in Nat /\ ij \in Nat /\ oj \in Nat /\ e + 1 \in Nat
    BY <1>1, <1>3 DEF Parsed
  <2> HIDE DEF nw, ir, or, d, a, wi, ij, oj, r
  <2>4. QED
    BY <1>1, <2>1, <2>2, <2>3, ZenonT(60) DEF Parsed
<1>6. Len(line) \in Nat
  BY LineIs
<1>7. ~r.done => r.i <= Len(line)
  <2>1. At(line, e) # NUL => e # Len(line)
    BY LineIs
  <2>2. QED
    BY <1>4, <1>6, <2>1
<1> HIDE DEF r
<1>8. CASE j = MAX_ARGS - 1
  <2>1. r.done /\ r.argv = p.argv
    BY <1>4, <1>8
  <2>2. r.inredir_j > 0 /\ r.inredir_j < j => r.inredir_j = p.inredir_j
    BY <1>1, <1>4
  <2>3. r.outredir_j > 0 /\ r.outredir_j < j => r.outredir_j = p.outredir_j
    BY <1>1, <1>4
  <2>4. Parsing(r, line)
    BY <1>1, <1>2, <1>5, <1>8, <2>1, <2>2, <2>3 DEF Parsing
  <2>5. QED
    BY <1>4, <2>4 DEF r
<1>9. CASE j # MAX_ARGS - 1
  <2>1. r.argv = Append(p.argv, text)
    BY <1>4, <1>9
  <2>2. Len(r.argv) = j + 1 /\ j + 1 <= MAX_ARGS - 1
    BY <1>1, <1>2, <1>3, <1>9, <2>1
  <2>3. /\ p.inredir_j > 0 => p.inredir_j < j /\ p.argv[p.inredir_j + 1] = <<"<">>
        /\ p.outredir_j > 0 => p.outredir_j < j /\ p.argv[p.outredir_j + 1] = <<">">>
    BY DEF Parsing
  <2>4. r.inredir_j > 0 => r.inredir_j < j + 1 /\ r.argv[r.inredir_j + 1] = <<"<">>
    <3>1. CASE p.inredir_j = 0 /\ text = <<"<">>
      <4>1. r.inredir_j = j
        BY <1>4, <3>1
      <4>2. r.argv[j + 1] = text
        BY <1>3, <2>1
      <4>3. QED
        BY <1>1, <3>1, <4>1, <4>2
    <3>2. CASE ~(p.inredir_j = 0 /\ text = <<"<">>)
      <4>1. r.inredir_j = p.inredir_j
        BY <1>4, <3>2
      <4>2. p.inredir_j > 0 => r.argv[p.inredir_j + 1] = p.argv[p.inredir_j + 1]
        BY <1>1, <1>3, <2>1, <2>3
      <4>3. QED
        BY <1>1, <2>3, <4>1, <4>2
    <3>3. QED
      BY <3>1, <3>2
  <2>5. r.outredir_j > 0 => r.outredir_j < j + 1 /\ r.argv[r.outredir_j + 1] = <<">">>
    <3>1. CASE p.outredir_j = 0 /\ text = <<">">>
      <4>1. r.outredir_j = j
        BY <1>4, <3>1
      <4>2. r.argv[j + 1] = text
        BY <1>3, <2>1
      <4>3. QED
        BY <1>1, <3>1, <4>1, <4>2
    <3>2. CASE ~(p.outredir_j = 0 /\ text = <<">">>)
      <4>1. r.outredir_j = p.outredir_j
        BY <1>4, <3>2
      <4>2. p.outredir_j > 0 => r.argv[p.outredir_j + 1] = p.argv[p.outredir_j + 1]
        BY <1>1, <1>3, <2>1, <2>3
      <4>3. QED
        BY <1>1, <2>3, <4>1, <4>2
    <3>3. QED
      BY <3>1, <3>2
  <2>6. r.inredir_j \in Nat /\ r.outredir_j \in Nat
    BY <1>1, <1>4
  <2>7. QED
    <3>1. Parsing(r, line)
      BY <1>1, <1>2, <1>5, <1>7, <2>2, <2>4, <2>5, <2>6, SMTT(40) DEF Parsing
    <3>2. QED
      BY <1>4, <3>1 DEF r
<1>10. QED
  BY <1>4, <1>8, <1>9 DEF r

\* A turn of the loop: nothing, the end of the line, or one token.
Token(p, s) == TokenEnd(p.line, s, p.inquote)
Quoted(p, s) == [p EXCEPT !.inquote = InQuote(p.line, s, p.inquote, Token(p, s))]

LEMMA QuotedParses ==
  ASSUME NEW line \in Lines, NEW p, Parsing(p, line), NEW s \in Nat, s <= Len(line)
  PROVE  LET q == Quoted(p, s)
         IN  /\ Parsing(q, line)
             /\ q.inquote = InQuote(line, s, p.inquote, TokenEnd(line, s, p.inquote))
             /\ q.argv = p.argv /\ q.inredir_j = p.inredir_j /\ q.outredir_j = p.outredir_j
             /\ q.done = p.done /\ q.line = line
<1> DEFINE q == Quoted(p, s)
           b == InQuote(p.line, s, p.inquote, Token(p, s))
<1>1. p \in Parsed(line) /\ p.line = line /\ p.inquote \in BOOLEAN
  BY DEF Parsing, Parsed
<1>2. b \in BOOLEAN /\ b = InQuote(line, s, p.inquote, TokenEnd(line, s, p.inquote))
  <2>1. TokenEnd(line, s, p.inquote) \in Nat /\ s <= TokenEnd(line, s, p.inquote)
    BY <1>1, TokenEndIs
  <2>2. QED
    BY <1>1, <2>1, QuotesAre DEF Token
<1>3. q = [p EXCEPT !.inquote = b]
  BY DEF Quoted
<1> HIDE DEF q, b
<1>4. q \in Parsed(line)
  BY <1>1, <1>2, <1>3 DEF Parsed
<1>5. /\ q.inquote = b /\ q.argv = p.argv /\ q.inredir_j = p.inredir_j
      /\ q.outredir_j = p.outredir_j /\ q.done = p.done /\ q.line = line /\ q.i = p.i
  BY <1>1, <1>3 DEF Parsed
<1>6. Parsing(q, line)
  BY <1>4, <1>5 DEF Parsing
<1>7. QED
  BY <1>2, <1>5, <1>6 DEF q

LEMMA TurnIs ==
  ASSUME NEW line \in Lines, NEW p, Parsing(p, line),
         ~p.done, At(line, p.i) # NUL, p.i < MAX_LINEL - MAX_ARGLEN
  PROVE  LET s == Skip(line, p.i)
             e == TokenEnd(line, s, p.inquote)
         IN  /\ s \in Nat /\ s <= Len(line) /\ p.i \in Nat /\ p.i <= s
             /\ At(line, s) = NUL => Turn(p) = [p EXCEPT !.done = TRUE]
             /\ At(line, s) # NUL =>
                  \E star \in BOOLEAN :
                    Turn(p) = StoreToken(Quoted(p, s), e, TokenText(line, s, e, p.inquote), star)
<1> DEFINE s == Skip(line, p.i)
           e == TokenEnd(line, s, p.inquote)
           star == \E k \in s .. e - 1 : At(line, k) = "*"
<1>1. p.line = line /\ p.i \in Nat /\ p.i <= Len(line) /\ p.inquote \in BOOLEAN
  BY DEF Parsing, Parsed
<1>2. s \in Nat /\ s <= Len(line) /\ p.i <= s
  BY <1>1, SkipIs
<1>3. Turn(p) = ParseToken(p, s)
  <2>1. ~(p.i >= MAX_LINEL - MAX_ARGLEN)
    BY <1>1, CmdLineAssumption
  <2>2. QED
    BY <1>1, <2>1 DEF Turn
<1>4. At(line, s) # NUL =>
        Turn(p) = StoreToken(Quoted(p, s), e, TokenText(line, s, e, p.inquote), star)
  BY <1>1, <1>3, Zenon DEF ParseToken, TakeToken, Quoted, Token
<1>5. At(line, s) = NUL => Turn(p) = [p EXCEPT !.done = TRUE]
  BY <1>1, <1>3, Zenon DEF ParseToken
<1>6. star \in BOOLEAN
  OBVIOUS
<1>7. QED
  BY <1>1, <1>2, <1>4, <1>5, <1>6, Zenon

LEMMA TurnKeeps ==
  ASSUME NEW line \in Lines, NEW p, Parsing(p, line) PROVE Parsing(Turn(p), line)
<1> DEFINE s == Skip(line, p.i)
           e == TokenEnd(line, s, p.inquote)
<1>1. p \in Parsed(line) /\ p.line = line /\ p.i \in Nat /\ p.inquote \in BOOLEAN
  BY DEF Parsing, Parsed
<1>2. CASE p.done \/ At(line, p.i) = NUL \/ p.i >= MAX_LINEL - MAX_ARGLEN
  BY <1>1, <1>2 DEF Turn
<1>3. CASE ~p.done /\ At(line, p.i) # NUL /\ p.i < MAX_LINEL - MAX_ARGLEN
  <2>1. s \in Nat /\ s <= Len(line)
    BY <1>3, TurnIs
  <2>2. CASE At(line, s) = NUL
    <3>1. Turn(p) = [p EXCEPT !.done = TRUE]
      BY <1>3, <2>2, TurnIs
    <3>2. QED
      BY <1>1, <3>1 DEF Parsing, Parsed
  <2>3. CASE At(line, s) # NUL
    <3>1. PICK star \in BOOLEAN :
            Turn(p) = StoreToken(Quoted(p, s), e, TokenText(line, s, e, p.inquote), star)
      BY <1>3, <2>3, TurnIs
    <3>2. e \in Nat /\ s <= e /\ e <= Len(line)
      BY <1>1, <2>1, TokenEndIs
    <3>3. TokenText(line, s, e, p.inquote) \in Lines
      BY <1>1, <2>1, <3>2, TokenTextIs
    <3>4. Parsing(Quoted(p, s), line) /\ ~Quoted(p, s).done
      BY <1>3, <2>1, QuotedParses
    <3>5. QED
      BY <3>1, <3>2, <3>3, <3>4, StoreKeeps
  <2>4. QED
    BY <2>2, <2>3
<1>4. QED
  <2>1. MAX_LINEL - MAX_ARGLEN \in Int
    BY CmdLineAssumption
  <2>2. QED
    BY <1>1, <1>2, <1>3, <2>1

\* The turns of the loop, one after the other.
Chain(p, n, f) == f = [m \in 0 .. n |-> IF m = 0 THEN p ELSE Turn(f[m - 1])]

LEMMA ChainExists ==
  ASSUME NEW p, NEW n \in Nat PROVE \E f : Chain(p, n, f)
<1> DEFINE T == {m \in Nat : \E f : Chain(p, m, f)}
<1>1. 0 \in T
  <2>1. Chain(p, 0, [m \in 0 .. 0 |-> p])
    BY DEF Chain
  <2>2. QED
    BY <2>1
<1>2. ASSUME NEW m \in Nat, m \in T PROVE m + 1 \in T
  <2>1. PICK f : Chain(p, m, f)
    BY <1>2
  <2> DEFINE g == [i \in 0 .. m + 1 |-> IF i = 0 THEN p ELSE Turn(f[i - 1])]
  <2>2. \A i \in 0 .. m : g[i] = f[i]
    BY <2>1 DEF Chain
  <2>3. \A i \in 0 .. m + 1 : g[i] = IF i = 0 THEN p ELSE Turn(g[i - 1])
    <3> SUFFICES ASSUME NEW i \in 0 .. m + 1, i # 0 PROVE g[i] = Turn(g[i - 1])
      OBVIOUS
    <3>1. i - 1 \in 0 .. m
      OBVIOUS
    <3>2. g[i] = Turn(f[i - 1])
      OBVIOUS
    <3> HIDE DEF g
    <3>3. QED
      BY <2>2, <3>1, <3>2
  <2>4. g = [i \in 0 .. m + 1 |-> IF i = 0 THEN p ELSE Turn(g[i - 1])]
    <3>1. g = [i \in 0 .. m + 1 |-> g[i]]
      OBVIOUS
    <3> HIDE DEF g
    <3>2. [i \in 0 .. m + 1 |-> g[i]] = [i \in 0 .. m + 1 |-> IF i = 0 THEN p ELSE Turn(g[i - 1])]
      BY <2>3
    <3>3. QED
      BY <3>1, <3>2
  <2> HIDE DEF g
  <2>5. QED
    BY <2>4 DEF Chain
<1> HIDE DEF T
<1>3. n \in T
  BY <1>1, <1>2, AllNumbers
<1>4. QED
  BY <1>3 DEF T

LEMMA ParseTokensIs ==
  ASSUME NEW p
  PROVE  \E f : /\ ParseTokens(p) = f[MAX_ARGS] /\ f[0] = p
                /\ \A m \in Nat : m < MAX_ARGS => f[m + 1] = Turn(f[m])
<1> DEFINE F == CHOOSE f : Chain(p, MAX_ARGS, f)
<1>1. MAX_ARGS \in Nat
  BY CmdLineAssumption
<1>2. Chain(p, MAX_ARGS, F)
  BY <1>1, ChainExists
<1>3. ParseTokens(p) = F[MAX_ARGS]
  BY DEF ParseTokens, Chain
<1> HIDE DEF F
<1>4. F[0] = p
  BY <1>1, <1>2 DEF Chain
<1>5. ASSUME NEW m \in Nat, m < MAX_ARGS PROVE F[m + 1] = Turn(F[m])
  <2>1. m + 1 \in 0 .. MAX_ARGS /\ m + 1 # 0 /\ (m + 1) - 1 = m
    BY <1>1, <1>5
  <2>2. F[m + 1] = IF m + 1 = 0 THEN p ELSE Turn(F[(m + 1) - 1])
    BY <1>2, <2>1, Zenon DEF Chain
  <2>3. QED
    BY <2>1, <2>2
<1>6. QED
  BY <1>3, <1>4, <1>5

LEMMA LoopParses ==
  ASSUME NEW line \in Lines PROVE Parsing(ParseTokens(Start(line)), line)
<1>1. PICK f : /\ ParseTokens(Start(line)) = f[MAX_ARGS] /\ f[0] = Start(line)
               /\ \A m \in Nat : m < MAX_ARGS => f[m + 1] = Turn(f[m])
  BY ParseTokensIs
<1> DEFINE T == {m \in Nat : m <= MAX_ARGS => Parsing(f[m], line)}
<1>2. 0 \in T
  BY <1>1, StartParses
<1>3. ASSUME NEW m \in Nat, m \in T PROVE m + 1 \in T
  <2> SUFFICES ASSUME m + 1 <= MAX_ARGS PROVE Parsing(f[m + 1], line)
    OBVIOUS
  <2>1. m < MAX_ARGS /\ m <= MAX_ARGS
    BY CmdLineAssumption
  <2>2. f[m + 1] = Turn(f[m]) /\ Parsing(f[m], line)
    BY <1>1, <1>3, <2>1
  <2>3. QED
    BY <2>2, TurnKeeps
<1> HIDE DEF T
<1>4. MAX_ARGS \in T
  BY <1>2, <1>3, AllNumbers, CmdLineAssumption
<1>5. QED
  BY <1>1, <1>4, CmdLineAssumption DEF T

(***************************************************************************)
(* drop_arg() and what parse_cmdbuf() returns                              *)
(***************************************************************************)
Commands == [argv: Tokens, count: Int, nowildcard: BOOLEAN, wc_index: Nat, redirect: BOOLEAN]

\* The count is the length, unless it says that the line is in error.
Counted(r) == r \in Commands /\ Len(r.argv) <= MAX_ARGS - 1 /\ r.count \in {-1, Len(r.argv)}

\* A vector without the two arguments that C counts from x on.
Cut(argv, x) == [y \in 1 .. Len(argv) - 2 |-> IF y <= x THEN argv[y] ELSE argv[y + 2]]

LEMMA RemoveIs ==
  ASSUME NEW argv \in Tokens, NEW x \in Nat, x < Len(argv)
  PROVE  /\ RemoveAt(argv, x + 1) \in Tokens
         /\ Len(RemoveAt(argv, x + 1)) = Len(argv) - 1
         /\ \A y \in 1 .. Len(argv) - 1 :
              RemoveAt(argv, x + 1)[y] = IF y <= x THEN argv[y] ELSE argv[y + 1]
<1> DEFINE a == SubSeq(argv, 1, (x + 1) - 1)
           b == SubSeq(argv, (x + 1) + 1, Len(argv))
<1>1. Len(argv) \in Nat /\ \A i \in 1 .. Len(argv) : argv[i] \in Lines
  BY LenProperties, ElementOfSeq DEF Tokens
<1>2. a \in Tokens /\ Len(a) = x /\ \A y \in 1 .. x : a[y] = argv[y]
  <2>1. \A i \in 1 .. (x + 1) - 1 : argv[i] \in Lines
    BY <1>1
  <2>2. /\ a \in Seq(Lines) /\ Len(a) = IF 1 <= (x + 1) - 1 THEN ((x + 1) - 1) - 1 + 1 ELSE 0
        /\ \A i \in 1 .. ((x + 1) - 1) - 1 + 1 : a[i] = argv[1 + i - 1]
    BY <2>1, SubSeqProperties
  <2> HIDE DEF a
  <2>3. QED
    BY <2>2 DEF Tokens
<1>3. b \in Tokens /\ Len(b) = Len(argv) - x - 1
      /\ \A y \in 1 .. Len(argv) - x - 1 : b[y] = argv[y + x + 1]
  <2>1. \A i \in (x + 1) + 1 .. Len(argv) : argv[i] \in Lines
    BY <1>1
  <2>2. /\ b \in Seq(Lines)
        /\ Len(b) = IF (x + 1) + 1 <= Len(argv) THEN Len(argv) - ((x + 1) + 1) + 1 ELSE 0
        /\ \A i \in 1 .. Len(argv) - ((x + 1) + 1) + 1 : b[i] = argv[((x + 1) + 1) + i - 1]
    BY <1>1, <2>1, SubSeqProperties
  <2> HIDE DEF b
  <2>3. \A y \in 1 .. Len(argv) - x - 1 : b[y] = argv[y + x + 1]
    <3> SUFFICES ASSUME NEW y \in 1 .. Len(argv) - x - 1 PROVE b[y] = argv[y + x + 1]
      OBVIOUS
    <3>1. y \in 1 .. Len(argv) - ((x + 1) + 1) + 1 /\ ((x + 1) + 1) + y - 1 = y + x + 1
      BY <1>1
    <3>2. QED
      BY <2>2, <3>1
  <2>4. QED
    BY <1>1, <2>2, <2>3 DEF Tokens
<1>4. RemoveAt(argv, x + 1) = a \o b
  BY DEF RemoveAt
<1> HIDE DEF a, b
<1>5. /\ a \o b \in Tokens /\ Len(a \o b) = Len(a) + Len(b)
      /\ \A i \in 1 .. Len(a) + Len(b) : (a \o b)[i] = IF i <= Len(a) THEN a[i] ELSE b[i - Len(a)]
  <2>1. a \in Seq(Lines) /\ b \in Seq(Lines)
    BY <1>2, <1>3 DEF Tokens
  <2>2. QED
    BY <2>1, ConcatProperties DEF Tokens
<1>6. ASSUME NEW y \in 1 .. Len(argv) - 1
      PROVE  (a \o b)[y] = IF y <= x THEN argv[y] ELSE argv[y + 1]
  <2>1. (a \o b)[y] = IF y <= x THEN a[y] ELSE b[y - x]
    BY <1>1, <1>2, <1>3, <1>5
  <2>2. CASE y <= x
    BY <1>1, <1>2, <2>1, <2>2
  <2>3. CASE ~(y <= x)
    <3>1. y - x \in 1 .. Len(argv) - x - 1 /\ (y - x) + x + 1 = y + 1
      BY <1>1, <2>3
    <3>2. b[y - x] = argv[y + 1]
      BY <1>3, <3>1
    <3>3. QED
      BY <2>1, <2>3, <3>2
  <2>4. QED
    BY <2>2, <2>3
<1>7. Len(a \o b) = Len(argv) - 1
  BY <1>1, <1>2, <1>3, <1>5
<1>8. QED
  BY <1>4, <1>5, <1>6, <1>7

LEMMA DropIs ==
  ASSUME NEW r \in Commands, r.count = Len(r.argv), NEW x \in Nat, x < Len(r.argv)
  PROVE  LET t == drop_arg(r, x)
         IN  /\ t \in Commands /\ t.count = Len(t.argv)
             /\ t.argv = RemoveAt(r.argv, x + 1) /\ Len(t.argv) = Len(r.argv) - 1
             /\ t.nowildcard = r.nowildcard /\ t.wc_index = r.wc_index
<1>1. r.argv \in Tokens /\ Len(r.argv) \in Nat
  BY LenProperties DEF Commands, Tokens
<1>2. drop_arg(r, x) = [r EXCEPT !.argv = RemoveAt(r.argv, x + 1), !.count = r.count - 1]
  BY <1>1 DEF drop_arg
<1>3. RemoveAt(r.argv, x + 1) \in Tokens /\ Len(RemoveAt(r.argv, x + 1)) = Len(r.argv) - 1
  BY <1>1, RemoveIs
<1> DEFINE a == RemoveAt(r.argv, x + 1)
           c == r.count - 1
<1>4. c \in Int /\ c = Len(a) /\ a \in Tokens
  BY <1>1, <1>3 DEF Commands
<1>5. drop_arg(r, x) = [r EXCEPT !.argv = a, !.count = c]
  BY <1>2
<1>6. Len(a) = Len(r.argv) - 1
  BY <1>3
<1> HIDE DEF a, c
<1>7. /\ drop_arg(r, x) \in Commands /\ drop_arg(r, x).argv = a /\ drop_arg(r, x).count = c
      /\ drop_arg(r, x).nowildcard = r.nowildcard /\ drop_arg(r, x).wc_index = r.wc_index
  BY <1>4, <1>5 DEF Commands
<1>8. QED
  BY <1>4, <1>6, <1>7 DEF a

\* A redirection and its file are dropped.
LEMMA DropRedirectionIs ==
  ASSUME NEW r \in Commands, r.count = Len(r.argv), NEW x \in Nat, x > 0, x + 1 < Len(r.argv)
  PROVE  LET t == DropRedirection(r, x)
         IN  /\ t \in Commands /\ t.count = Len(t.argv)
             /\ t.argv = Cut(r.argv, x) /\ Len(t.argv) = Len(r.argv) - 2
<1> DEFINE s == drop_arg(r, x)
           t == drop_arg(s, x)
<1>1. r.argv \in Tokens /\ Len(r.argv) \in Nat
  BY LenProperties DEF Commands, Tokens
<1>2. /\ s \in Commands /\ s.count = Len(s.argv)
      /\ s.argv = RemoveAt(r.argv, x + 1) /\ Len(s.argv) = Len(r.argv) - 1
  BY <1>1, DropIs
<1> HIDE DEF s
<1>3. /\ t \in Commands /\ t.count = Len(t.argv)
      /\ t.argv = RemoveAt(s.argv, x + 1) /\ Len(t.argv) = Len(s.argv) - 1
  BY <1>1, <1>2, DropIs
<1> HIDE DEF t
<1>4. s.argv \in Tokens /\ t.argv \in Tokens
  BY <1>2, <1>3 DEF Commands
<1>5. \A y \in 1 .. Len(r.argv) - 2 : t.argv[y] = IF y <= x THEN r.argv[y] ELSE r.argv[y + 2]
  <2> SUFFICES ASSUME NEW y \in 1 .. Len(r.argv) - 2
               PROVE  t.argv[y] = IF y <= x THEN r.argv[y] ELSE r.argv[y + 2]
    OBVIOUS
  <2>0. x < Len(s.argv) /\ y \in 1 .. Len(s.argv) - 1 /\ x < Len(r.argv)
    BY <1>1, <1>2
  <2>1. t.argv[y] = IF y <= x THEN s.argv[y] ELSE s.argv[y + 1]
    BY <1>3, <1>4, <2>0, RemoveIs
  <2>2. y \in 1 .. Len(r.argv) - 1 /\ y + 1 \in 1 .. Len(r.argv) - 1
    BY <1>1
  <2>3. \A z \in 1 .. Len(r.argv) - 1 : s.argv[z] = IF z <= x THEN r.argv[z] ELSE r.argv[z + 1]
    BY <1>1, <1>2, <2>0, RemoveIs, SMTT(40)
  <2>4. s.argv[y] = (IF y <= x THEN r.argv[y] ELSE r.argv[y + 1])
        /\ s.argv[y + 1] = (IF y + 1 <= x THEN r.argv[y + 1] ELSE r.argv[(y + 1) + 1])
    BY <2>2, <2>3
  <2>5. QED
    BY <2>1, <2>4
<1>6. t.argv = Cut(r.argv, x)
  <2>1. t.argv = [y \in 1 .. Len(t.argv) |-> t.argv[y]] /\ Len(t.argv) = Len(r.argv) - 2
    BY <1>1, <1>2, <1>3, <1>4, LenProperties, SMTT(40) DEF Tokens
  <2>2. QED
    BY <1>5, <2>1 DEF Cut
<1>7. DropRedirection(r, x) = t
  BY DEF DropRedirection, t, s
<1>8. QED
  BY <1>1, <1>2, <1>3, <1>6, <1>7

\* What is left of the tokens, and when.
Left(p) ==
  IF p.inredir_j = 0 /\ p.outredir_j = 0 THEN p.argv
  ELSE IF p.outredir_j = 0 THEN Cut(p.argv, p.inredir_j)
  ELSE IF p.inredir_j = 0 THEN Cut(p.argv, p.outredir_j)
  ELSE IF p.inredir_j > p.outredir_j THEN Cut(Cut(p.argv, p.inredir_j), p.outredir_j)
  ELSE Cut(Cut(p.argv, p.outredir_j), p.inredir_j)

\* Redirections have their files, and are apart from each other.
Apart(p) ==
  /\ ~p.inquote
  /\ p.inredir_j > 0 => p.inredir_j + 1 < Len(p.argv)
  /\ p.outredir_j > 0 => p.outredir_j + 1 < Len(p.argv)
  /\ p.inredir_j > 0 /\ p.outredir_j > 0 =>
       \/ p.inredir_j > p.outredir_j + 1
       \/ p.outredir_j > p.inredir_j + 1

LEMMA FinishIs ==
  ASSUME NEW line \in Lines, NEW p, Parsing(p, line)
  PROVE  /\ Counted(Finish(p))
         /\ Finish(p).count # -1 => Apart(p) /\ Finish(p).argv = Left(p)
<1> DEFINE r == [argv |-> p.argv, count |-> Len(p.argv), nowildcard |-> p.nowildcard,
                 wc_index |-> p.wc_index, redirect |-> p.in_redir \/ p.out_redir]
           in == p.inredir_j
           out == p.outredir_j
           bad == \/ p.inquote
                  \/ in > 0 /\ ~Target(p.argv, in, ">")
                  \/ out > 0 /\ ~Target(p.argv, out, "<")
<1>1. p.argv \in Tokens /\ Len(p.argv) \in Nat /\ in \in Nat /\ out \in Nat
      /\ p.nowildcard \in BOOLEAN /\ p.wc_index \in Nat /\ Len(p.argv) <= MAX_ARGS - 1
  BY LenProperties DEF Parsing, Parsed, Tokens
<1>2. r \in Commands
  <2>1. (p.in_redir \/ p.out_redir) \in BOOLEAN
    OBVIOUS
  <2>2. Len(p.argv) \in Int
    BY <1>1
  <2>3. QED
    BY <1>1, <2>1, <2>2, Zenon DEF Commands
<1>3. r.argv = p.argv /\ r.count = Len(p.argv)
  OBVIOUS
<1>4. Finish(p) = IF bad THEN [r EXCEPT !.count = -1]
                  ELSE IF in > out THEN DropRedirection(DropRedirection(r, in), out)
                  ELSE DropRedirection(DropRedirection(r, out), in)
  BY DEF Finish
<1> HIDE DEF r
<1>5. CASE bad
  <2>1. Finish(p) = [r EXCEPT !.count = -1]
    BY <1>4, <1>5
  <2> HIDE DEF bad
  <2>2. QED
    BY <1>1, <1>2, <1>3, <2>1 DEF Counted, Commands
<1>6. CASE ~bad
  <2>1. Apart(p)
    <3>1. in > 0 => in + 1 < Len(p.argv) /\ p.argv[in + 2] # <<">">> /\ p.argv[in + 1] = <<"<">>
      BY <1>1, <1>6 DEF Target, Parsing
    <3>2. out > 0 => out + 1 < Len(p.argv) /\ p.argv[out + 2] # <<"<">> /\ p.argv[out + 1] = <<">">>
      BY <1>1, <1>6 DEF Target, Parsing
    <3>3. <<"<">> # <<">">>
      OBVIOUS
    <3>4. in > 0 /\ out > 0 => in # out /\ in # out + 1 /\ out # in + 1
      <4> SUFFICES ASSUME in > 0, out > 0 PROVE in # out /\ in # out + 1 /\ out # in + 1
        OBVIOUS
      <4>1. (out + 1) + 1 = out + 2 /\ (in + 1) + 1 = in + 2
        BY <1>1
      <4>2. in # out
        BY <3>1, <3>2, <3>3
      <4>3. in # out + 1
        BY <3>1, <3>2, <4>1
      <4>4. out # in + 1
        BY <3>1, <3>2, <4>1
      <4>5. QED
        BY <4>2, <4>3, <4>4
    <3>5. ~p.inquote
      BY <1>6
    <3> HIDE DEF bad
    <3>6. in > 0 /\ out > 0 => in > out + 1 \/ out > in + 1
      BY <1>1, <3>4
    <3>7. QED
      BY <3>1, <3>2, <3>5, <3>6 DEF Apart
  <2>2. Finish(p) = IF in > out THEN DropRedirection(DropRedirection(r, in), out)
                    ELSE DropRedirection(DropRedirection(r, out), in)
    BY <1>4, <1>6
  <2> HIDE DEF bad
  <2>3. \A t : DropRedirection(t, 0) = t
    BY DEF DropRedirection
  <2>4. ASSUME NEW x \in Nat, x > 0 => x + 1 < Len(p.argv)
        PROVE  LET t == DropRedirection(r, x)
               IN  /\ t \in Commands /\ t.count = Len(t.argv)
                   /\ t.argv = IF x = 0 THEN p.argv ELSE Cut(p.argv, x)
                   /\ Len(t.argv) = IF x = 0 THEN Len(p.argv) ELSE Len(p.argv) - 2
    <3>1. CASE x = 0
      BY <1>2, <1>3, <2>3, <3>1
    <3>2. CASE x # 0
      BY <1>2, <1>3, <2>4, <3>2, DropRedirectionIs
    <3>3. QED
      BY <3>1, <3>2
  <2>5. ASSUME NEW x \in Nat, NEW y \in Nat, x > 0 => x + 1 < Len(p.argv),
               x > 0 /\ y > 0 => x > y + 1, y > 0 => x > 0
        PROVE  LET t == DropRedirection(DropRedirection(r, x), y)
               IN  /\ t \in Commands /\ t.count = Len(t.argv) /\ Len(t.argv) <= Len(p.argv)
                   /\ t.argv = IF x = 0 THEN p.argv ELSE IF y = 0 THEN Cut(p.argv, x)
                               ELSE Cut(Cut(p.argv, x), y)
    <3> DEFINE u == DropRedirection(r, x)
    <3>1. /\ u \in Commands /\ u.count = Len(u.argv)
          /\ u.argv = IF x = 0 THEN p.argv ELSE Cut(p.argv, x)
          /\ Len(u.argv) = IF x = 0 THEN Len(p.argv) ELSE Len(p.argv) - 2
      BY <2>4, <2>5
    <3> HIDE DEF u
    <3>2. CASE y = 0
      <4>1. DropRedirection(u, y) = u
        BY <2>3, <3>2
      <4>2. QED
        BY <1>1, <3>1, <3>2, <4>1 DEF u
    <3>3. CASE y # 0
      <4>1. x > y + 1 /\ x # 0 /\ y + 1 < Len(u.argv) /\ y > 0
        BY <1>1, <2>5, <3>1, <3>3
      <4>2. LET t == DropRedirection(u, y)
            IN  /\ t \in Commands /\ t.count = Len(t.argv)
                /\ t.argv = Cut(u.argv, y) /\ Len(t.argv) = Len(u.argv) - 2
        BY <3>1, <4>1, DropRedirectionIs
      <4>3. QED
        BY <1>1, <3>1, <3>3, <4>1, <4>2 DEF u
    <3>4. QED
      BY <3>2, <3>3
  <2>6. CASE in > out
    <3>1. in > 0 => in + 1 < Len(p.argv)
      BY <2>1 DEF Apart
    <3>2. (in > 0 /\ out > 0 => in > out + 1) /\ (out > 0 => in > 0)
      BY <1>1, <2>1, <2>6 DEF Apart
    <3>3. LET t == DropRedirection(DropRedirection(r, in), out)
          IN  /\ t \in Commands /\ t.count = Len(t.argv) /\ Len(t.argv) <= Len(p.argv)
              /\ t.argv = IF in = 0 THEN p.argv ELSE IF out = 0 THEN Cut(p.argv, in)
                          ELSE Cut(Cut(p.argv, in), out)
      BY <1>1, <2>5, <3>1, <3>2
    <3>4. Finish(p) = DropRedirection(DropRedirection(r, in), out)
      BY <2>2, <2>6
    <3>5. Finish(p).argv = Left(p)
      BY <1>1, <2>6, <3>3, <3>4 DEF Left
    <3>6. Counted(Finish(p))
      <4>1. /\ Finish(p) \in Commands /\ Finish(p).count = Len(Finish(p).argv)
            /\ Len(Finish(p).argv) <= Len(p.argv)
        BY <3>3, <3>4
      <4>2. Len(Finish(p).argv) \in Nat
        BY <4>1, LenProperties DEF Commands, Tokens
      <4>3. Len(Finish(p).argv) <= MAX_ARGS - 1
        BY <1>1, <4>1, <4>2, CmdLineAssumption
      <4>4. QED
        BY <4>1, <4>3 DEF Counted
    <3>7. QED
      BY <2>1, <3>5, <3>6
  <2>7. CASE ~(in > out)
    <3>1. out > 0 => out + 1 < Len(p.argv)
      BY <2>1 DEF Apart
    <3>2. (out > 0 /\ in > 0 => out > in + 1) /\ (in > 0 => out > 0)
      BY <1>1, <2>1, <2>7 DEF Apart
    <3>3. LET t == DropRedirection(DropRedirection(r, out), in)
          IN  /\ t \in Commands /\ t.count = Len(t.argv) /\ Len(t.argv) <= Len(p.argv)
              /\ t.argv = IF out = 0 THEN p.argv ELSE IF in = 0 THEN Cut(p.argv, out)
                          ELSE Cut(Cut(p.argv, out), in)
      BY <1>1, <2>5, <3>1, <3>2
    <3>4. Finish(p) = DropRedirection(DropRedirection(r, out), in)
      BY <2>2, <2>7
    <3>5. Finish(p).argv = Left(p)
      BY <1>1, <2>7, <3>2, <3>3, <3>4 DEF Left
    <3>6. Counted(Finish(p))
      <4>1. /\ Finish(p) \in Commands /\ Finish(p).count = Len(Finish(p).argv)
            /\ Len(Finish(p).argv) <= Len(p.argv)
        BY <3>3, <3>4
      <4>2. Len(Finish(p).argv) \in Nat
        BY <4>1, LenProperties DEF Commands, Tokens
      <4>3. Len(Finish(p).argv) <= MAX_ARGS - 1
        BY <1>1, <4>1, <4>2, CmdLineAssumption
      <4>4. QED
        BY <4>1, <4>3 DEF Counted
    <3>7. QED
      BY <2>1, <3>5, <3>6
  <2>8. QED
    BY <2>6, <2>7
<1>7. QED
  BY <1>5, <1>6

LEMMA parse_cmdbufIs ==
  ASSUME NEW line \in Lines
  PROVE  LET p == ParseTokens(Start(line))
             r == parse_cmdbuf(line)
         IN  /\ Parsing(p, line) /\ Counted(r)
             /\ r.count # -1 => Apart(p) /\ r.argv = Left(p)
<1>1. parse_cmdbuf(line) = Finish(ParseTokens(Start(line)))
  BY DEF parse_cmdbuf, Start
<1>2. QED
  BY <1>1, LoopParses, FinishIs

(***************************************************************************)
(* getcmd() and main(): the invariant                                      *)
(***************************************************************************)
Entry == [raw: Lines, num: Nat,
          pid: {UNSUPPORT_ERR, SYNTAX_ERR, EXEC_FAILED, INTERNAL, Pid, 0}]

\* The buffers hold lines, and cmd is a vector with its count.
Buffers ==
  /\ place \in {"prompt", "getcmd", "main", "command", "exited", "crashed"}
  /\ keyboard \in DOMAIN Keyboards
  /\ input \in Lines
  /\ cmdbuf \in Lines /\ Len(cmdbuf) < MAX_LINEL
  /\ last_cmd \in Ring /\ command_num \in Nat
  /\ lines \in Seq(Lines) /\ Len(lines) = command_num
  /\ history \in [Ring -> Entry]
  /\ Counted(cmd)
  /\ DOMAIN cmdexp = 0 .. MAX_ARGS - 1

\* main() looks at the tokens of the line that the history has.
CmdParsed ==
  place = "main" => cmd.count = -1 \/ cmd = parse_cmdbuf(history[last_cmd].raw)

\* How many commands ago an entry of the ring was filled; the entries that were
\* filled have their number and, once it is read, their line.
Age(i) == IF i <= last_cmd THEN last_cmd - i ELSE last_cmd - i + HISTORY_LINES
Read == IF place \in {"getcmd", "exited"} THEN 1 ELSE 0
Aged ==
  \A i \in Ring :
    /\ history[i].num = IF command_num > Age(i) THEN command_num - Age(i) ELSE 0
    /\ command_num > Age(i) /\ Age(i) >= Read =>
         history[i].raw = lines[command_num - Age(i)]

CmdInv == Buffers /\ CmdParsed /\ Aged

LEMMA RingIs ==
  /\ HISTORY_LINES \in Nat /\ HISTORY_LINES > 1
  /\ \A i \in Ring : i \in Nat /\ i < HISTORY_LINES
  /\ last_cmd \in Ring =>
       /\ \A i \in Ring : /\ Age(i) \in Nat /\ Age(i) < HISTORY_LINES
                          /\ Age(i) = 0 <=> i = last_cmd
       /\ NextIndex \in Ring /\ NextIndex \in Nat
<1>1. HISTORY_LINES \in Nat /\ HISTORY_LINES > 1
  BY CmdLineAssumption
<1>2. \A i \in Ring : i \in Nat /\ i < HISTORY_LINES
  BY <1>1 DEF Ring
<1>3. ASSUME last_cmd \in Ring
      PROVE  NextIndex \in Ring /\ NextIndex \in Nat
  BY <1>1, <1>3 DEF NextIndex, Ring
<1>4. ASSUME last_cmd \in Ring, NEW i \in Ring
      PROVE  Age(i) \in Nat /\ Age(i) < HISTORY_LINES /\ (Age(i) = 0 <=> i = last_cmd)
  BY <1>1, <1>4 DEF Age, Ring
<1>5. QED
  BY <1>1, <1>2, <1>3, <1>4

LEMMA InitCmdInv == CmdInit => CmdInv
<1> SUFFICES ASSUME CmdInit PROVE CmdInv
  OBVIOUS
<1> USE DEF CmdInit
<1>1. <<>> \in Lines /\ <<>> \in Seq(Lines) /\ <<>> \in Tokens /\ Len(<<>>) = 0
  BY EmptySeq DEF Lines, Tokens
<1>2. last_cmd \in Ring
  BY RingIs DEF Ring
<1>3. history \in [Ring -> Entry]
  BY <1>1 DEF Entry
<1>4. Counted(cmd)
  BY <1>1, CmdLineAssumption DEF Counted, Commands, NoCommand
<1>5. Buffers
  BY <1>1, <1>2, <1>3, <1>4, CmdLineAssumption DEF Buffers
<1>6. Aged
  <2> SUFFICES ASSUME NEW i \in Ring
               PROVE  ~(command_num > Age(i)) /\ history[i].num = 0
    BY DEF Aged
  <2>1. Age(i) \in Nat
    BY <1>2, RingIs
  <2>2. QED
    BY <2>1
<1>7. CmdParsed
  BY DEF CmdParsed
<1>8. QED
  BY <1>5, <1>6, <1>7 DEF CmdInv

\* Steps that leave the history and the ring alone.
LEMMA RingStays ==
  ASSUME CmdInv, UNCHANGED <<last_cmd, command_num, lines>>,
         \A i \in Ring : history'[i].num = history[i].num /\ history'[i].raw = history[i].raw,
         place' \in {"getcmd", "exited"} \/ place \notin {"getcmd", "exited"}
  PROVE  Aged'
<1> SUFFICES ASSUME NEW i \in Ring
             PROVE  /\ history'[i].num = IF command_num > Age(i) THEN command_num - Age(i) ELSE 0
                    /\ command_num > Age(i) /\ Age(i) >= Read' =>
                         history'[i].raw = lines[command_num - Age(i)]
  BY DEF Aged, Age
<1>1. Age(i) \in Nat
  BY RingIs DEF CmdInv, Buffers
<1>2. Read' >= Read /\ Read \in Nat /\ Read' \in Nat
  BY DEF Read
<1>3. QED
  BY <1>1, <1>2 DEF CmdInv, Aged

\* Where a line of the history that is numbered is.
LEMMA RepeatedIs ==
  ASSUME CmdInv, place = "getcmd", NEW n \in Nat, n > 0, Repeatable(n)
  PROVE  n < command_num /\ n \in 1 .. Len(lines) /\ Repeated(n) = lines[n]
<1> DEFINE S == {i \in Ring : history[i].num = n}
<1>1. S # {} /\ S \subseteq Nat /\ n < command_num
  BY RingIs DEF Repeatable
<1>2. Least(S) \in S
  BY <1>1, LeastIs
<1> DEFINE i == Least(S)
<1>3. i \in Ring /\ history[i].num = n /\ Repeated(n) = history[i].raw
  BY <1>2 DEF Repeated
<1> HIDE DEF i, S
<1>4. Age(i) \in Nat /\ command_num \in Nat
  BY <1>3, RingIs DEF CmdInv, Buffers
<1>5. command_num > Age(i) /\ n = command_num - Age(i)
  <2>1. history[i].num = IF command_num > Age(i) THEN command_num - Age(i) ELSE 0
    BY <1>3 DEF CmdInv, Aged
  <2>2. QED
    BY <1>3, <2>1
<1>6. Age(i) >= Read
  BY <1>1, <1>4, <1>5 DEF Read
<1>7. history[i].raw = lines[command_num - Age(i)]
  BY <1>3, <1>5, <1>6 DEF CmdInv, Aged
<1>8. QED
  BY <1>1, <1>3, <1>5, <1>7 DEF CmdInv, Buffers

\* Some line of the history.
LEMMA RepeatedTypes ==
  ASSUME Buffers, NEW n, Repeatable(n) PROVE Repeated(n) \in Lines
<1> DEFINE S == {i \in Ring : history[i].num = n}
<1>1. S # {} /\ S \subseteq Nat
  BY RingIs DEF Repeatable
<1>2. Least(S) \in Ring
  BY <1>1, LeastIs
<1> HIDE DEF S
<1>3. history[Least(S)].raw \in Lines
  BY <1>2 DEF Buffers, Entry
<1>4. QED
  BY <1>3 DEF Repeated, S

LEMMA PromptSteps == ASSUME CmdInv, NextCommand PROVE CmdInv'
<1> USE DEF NextCommand
<1>1. NextIndex \in Ring /\ history \in [Ring -> Entry] /\ command_num \in Nat
      /\ lines \in Seq(Lines) /\ Len(lines) = command_num /\ last_cmd \in Ring
  BY RingIs DEF CmdInv, Buffers
<1>2. history' \in [Ring -> Entry]
  <2>1. command_num + 1 \in Nat
    BY <1>1
  <2> DEFINE m == command_num + 1
             x == NextIndex
  <2>2. history' = [history EXCEPT ![x].num = m, ![x].pid = EXEC_FAILED]
    OBVIOUS
  <2> HIDE DEF m, x
  <2>3. x \in Ring /\ m \in Nat
    BY <1>1, <2>1 DEF m, x
  <2>4. \A i \in Ring : history'[i] = IF i = x THEN [history[i] EXCEPT !.num = m, !.pid = EXEC_FAILED]
                                     ELSE history[i]
    BY <1>1, <2>2, <2>3
  <2>5. \A h \in Entry : [h EXCEPT !.num = m, !.pid = EXEC_FAILED] \in Entry
    BY <2>3 DEF Entry
  <2>6. \A i \in Ring : history'[i] \in Entry
    BY <1>1, <2>4, <2>5
  <2>7. history' = [i \in Ring |-> history'[i]]
    BY <1>1, <2>2
  <2>8. QED
    BY <2>6, <2>7
<1>3. <<>> \in Lines
  BY EmptySeq DEF Lines
<1>4. /\ lines' \in Seq(Lines) /\ Len(lines') = command_num + 1
      /\ \A n \in 1 .. command_num : lines'[n] = lines[n]
  BY <1>1, <1>3, AppendProperties
<1>5. Buffers'
  <2>1. command_num + 1 \in Nat
    BY <1>1
  <2>2. cmd' = cmd /\ cmdexp' = cmdexp /\ cmdbuf' = cmdbuf /\ keyboard' = keyboard /\ input' = input
    BY DEF ttyVars
  <2>3. QED
    BY <1>1, <1>2, <1>4, <2>1, <2>2 DEF CmdInv, Buffers, Counted
<1>6. ASSUME NEW i \in Ring
      PROVE  /\ history'[i].num = IF command_num' > Age(i)' THEN command_num' - Age(i)' ELSE 0
             /\ command_num' > Age(i)' /\ Age(i)' >= Read' =>
                  history'[i].raw = lines'[command_num' - Age(i)']
  <2>0. Age(i) \in Nat /\ Age(i) < HISTORY_LINES /\ i \in Nat /\ i < HISTORY_LINES /\ last_cmd \in Nat
        /\ last_cmd < HISTORY_LINES /\ HISTORY_LINES \in Nat
    BY <1>1, RingIs
  <2>a. last_cmd' = NextIndex /\ NextIndex \in Nat
    BY <1>1, RingIs
  <2> HIDE DEF NextCommand
  <2>1. Read = 0 /\ Read' = 1
    BY DEF Read, NextCommand
  <2>2. CASE i = NextIndex
    <3>1. Age(i)' = 0
      BY <2>a, <2>2 DEF Age
    <3>2. history'[i].num = command_num + 1
      BY <1>1, <2>2 DEF Entry, NextCommand
    <3>3. command_num' = command_num + 1
      BY DEF NextCommand
    <3>4. QED
      BY <1>1, <2>1, <3>1, <3>2, <3>3
  <2>3. CASE i # NextIndex
    <3>1. Age(i)' = Age(i) + 1
      <4>1. CASE last_cmd + 1 = HISTORY_LINES
        BY <2>0, <2>a, <2>3, <4>1 DEF Age, NextIndex
      <4>2. CASE last_cmd + 1 # HISTORY_LINES
        <5>1. last_cmd' = last_cmd + 1 /\ i # last_cmd + 1
          BY <2>a, <2>3, <4>2 DEF NextIndex
        <5>2. QED
          BY <2>0, <5>1 DEF Age
      <4>3. QED
        BY <4>1, <4>2
    <3>2. history'[i] = history[i]
      BY <1>1, <2>3 DEF NextCommand
    <3>3. /\ history[i].num = IF command_num > Age(i) THEN command_num - Age(i) ELSE 0
          /\ command_num > Age(i) => history[i].raw = lines[command_num - Age(i)]
      BY <2>0, <2>1 DEF CmdInv, Aged
    <3>4. command_num' = command_num + 1
      BY DEF NextCommand
    <3>5. command_num > Age(i) => command_num - Age(i) \in 1 .. command_num
      BY <1>1, <2>0
    <3>6. command_num' - Age(i)' = command_num - Age(i) /\ (command_num' > Age(i)' <=> command_num > Age(i))
      <4> DEFINE a == Age(i)'
      <4>1. a = Age(i) + 1
        BY <3>1
      <4> HIDE DEF a
      <4>2. command_num' - a = command_num - Age(i) /\ (command_num' > a <=> command_num > Age(i))
        BY <1>1, <2>0, <3>4, <4>1
      <4>3. QED
        BY <4>2 DEF a
    <3>7. QED
      BY <1>4, <3>2, <3>3, <3>5, <3>6
  <2>4. QED
    BY <2>2, <2>3
<1>7. Aged'
  BY <1>6 DEF Aged
<1>8. CmdParsed'
  BY DEF CmdParsed
<1>9. QED
  BY <1>5, <1>7, <1>8 DEF CmdInv

LEMMA TypingSteps ==
  ASSUME CmdInv, \/ \E k \in Keyboards[keyboard].keys : Strike(k)
                 \/ \E b \in ToSet(input) : Type(b)
                 \/ EndOfInput \/ SkipEmpty
  PROVE  CmdInv'
<1>1. Buffers
  BY DEF CmdInv
<1>2. /\ UNCHANGED <<histVars, cmd, cmdexp, keyboard>>
      /\ place' \in {"getcmd", "exited"}
      /\ input' \in Lines /\ cmdbuf' \in Lines /\ Len(cmdbuf') < MAX_LINEL
  <2>1. ASSUME NEW k \in Keyboards[keyboard].keys, Strike(k)
        PROVE  /\ UNCHANGED <<histVars, cmd, cmdexp, keyboard>>
               /\ place' \in {"getcmd", "exited"}
               /\ input' \in Lines /\ cmdbuf' \in Lines /\ Len(cmdbuf') < MAX_LINEL
    <3>1. Keyboards[keyboard] \in [keys: SUBSET Seq(Byte), max: Nat]
      <4>1. keyboard \in 1 .. Len(Keyboards)
        BY <1>1, CmdLineAssumption, LenProperties DEF Buffers
      <4>2. QED
        BY <4>1, CmdLineAssumption, ElementOfSeq
    <3>2. k \in Lines
      BY <3>1 DEF Lines
    <3>3. QED
      BY <1>1, <2>1, <3>2 DEF Strike, Buffers
  <2>2. ASSUME NEW b \in ToSet(input), Type(b)
        PROVE  /\ UNCHANGED <<histVars, cmd, cmdexp, keyboard>>
               /\ place' \in {"getcmd", "exited"}
               /\ input' \in Lines /\ cmdbuf' \in Lines /\ Len(cmdbuf') < MAX_LINEL
    <3>1. input \in Seq(Byte) /\ input # <<>> /\ b = Head(input) /\ input' = Tail(input) /\ place = "getcmd"
      BY <1>1, <2>2 DEF Type, Reads, Buffers, Lines
    <3>2. b \in Byte /\ input' \in Seq(Byte)
      BY <3>1, HeadTailProperties
    <3>3. cmdbuf \in Seq(Byte) /\ Len(cmdbuf) \in Nat /\ Len(cmdbuf) < MAX_LINEL - 1
      <4>1. cmdbuf \in Seq(Byte) /\ Len(cmdbuf) < MAX_LINEL /\ Len(cmdbuf) # MAX_LINEL - 1
        BY <1>1, <2>2 DEF Buffers, Lines, Type, LineFull
      <4>2. QED
        BY <4>1, LenProperties, CmdLineAssumption
    <3>4. Append(cmdbuf, b) \in Seq(Byte) /\ Len(Append(cmdbuf, b)) = Len(cmdbuf) + 1
      BY <3>2, <3>3, AppendProperties
    <3>5. cmdbuf # <<>> => Front(cmdbuf) \in Seq(Byte) /\ Len(Front(cmdbuf)) <= Len(cmdbuf)
      <4> SUFFICES ASSUME cmdbuf # <<>>
                   PROVE  Front(cmdbuf) \in Seq(Byte) /\ Len(Front(cmdbuf)) <= Len(cmdbuf)
        OBVIOUS
      <4>1. Len(cmdbuf) > 0
        BY <3>3, EmptySeq
      <4>2. \A i \in 1 .. Len(cmdbuf) - 1 : cmdbuf[i] \in Byte
        BY <3>3, ElementOfSeq
      <4>3. /\ SubSeq(cmdbuf, 1, Len(cmdbuf) - 1) \in Seq(Byte)
            /\ Len(SubSeq(cmdbuf, 1, Len(cmdbuf) - 1)) =
                 IF 1 <= Len(cmdbuf) - 1 THEN (Len(cmdbuf) - 1) - 1 + 1 ELSE 0
        BY <3>3, <4>2, SubSeqProperties
      <4>4. QED
        BY <3>3, <4>3 DEF Front
    <3>6. cmdbuf' = cmdbuf \/ cmdbuf' = Append(cmdbuf, b)
          \/ (cmdbuf # <<>> /\ cmdbuf' = Front(cmdbuf))
      BY <2>2 DEF Type
    <3>7. cmdbuf' \in Lines /\ Len(cmdbuf') < MAX_LINEL
      <4>1. MAX_LINEL \in Nat
        BY CmdLineAssumption
      <4>2. CASE cmdbuf' = cmdbuf
        BY <3>3, <4>1, <4>2 DEF Lines
      <4>3. CASE cmdbuf' = Append(cmdbuf, b)
        BY <3>3, <3>4, <4>1, <4>3 DEF Lines
      <4>4. CASE cmdbuf # <<>> /\ cmdbuf' = Front(cmdbuf)
        <5>1. cmdbuf' \in Lines /\ Len(cmdbuf') <= Len(cmdbuf)
          BY <3>5, <4>4 DEF Lines
        <5>2. Len(cmdbuf') \in Nat
          BY <5>1, LenProperties DEF Lines
        <5>3. QED
          BY <3>3, <4>1, <5>1, <5>2
      <4>5. QED
        BY <3>6, <4>2, <4>3, <4>4
    <3>8. QED
      BY <2>2, <3>1, <3>2, <3>7 DEF Type, Lines
  <2>3. CASE EndOfInput \/ SkipEmpty
    BY <1>1, <2>3 DEF EndOfInput, SkipEmpty, Buffers, ttyVars
  <2>4. QED
    BY <2>1, <2>2, <2>3
<1>3. Buffers'
  BY <1>1, <1>2 DEF Buffers, Counted, histVars
<1>4. Aged'
  BY <1>2, RingStays DEF histVars
<1>5. CmdParsed'
  BY <1>2 DEF CmdParsed
<1>6. QED
  BY <1>3, <1>4, <1>5 DEF CmdInv

\* What Resolve() makes of the entry of the command.
LEMMA Resolves ==
  ASSUME CmdInv, NEW first, NEW raw \in Lines, NEW found \in BOOLEAN, Resolve(first, raw, found),
         place = "getcmd", place' = "main", UNCHANGED <<last_cmd, command_num>>
  PROVE  /\ Aged' /\ history' \in [Ring -> Entry]
         /\ lines' \in Seq(Lines) /\ Len(lines') = command_num
         /\ history'[last_cmd].raw = raw
<1>1. /\ history \in [Ring -> Entry] /\ last_cmd \in Ring /\ command_num \in Nat
      /\ lines \in Seq(Lines) /\ Len(lines) = command_num
  BY DEF CmdInv, Buffers
<1>2. /\ history' = [history EXCEPT ![last_cmd].raw = raw]
      /\ lines' = [lines EXCEPT ![command_num] = raw]
  BY DEF Resolve
<1>3. history' \in [Ring -> Entry] /\ history'[last_cmd].raw = raw
  BY <1>1, <1>2 DEF Entry
<1>4. lines' \in Seq(Lines) /\ Len(lines') = command_num
      /\ \A n \in 1 .. command_num : lines'[n] = IF n = command_num THEN raw ELSE lines[n]
  <2>1. lines \in [1 .. command_num -> Lines]
    BY <1>1, LenProperties
  <2>2. lines' \in [1 .. command_num -> Lines]
        /\ \A n \in 1 .. command_num : lines'[n] = IF n = command_num THEN raw ELSE lines[n]
    BY <1>1, <1>2, <2>1
  <2>3. lines' \in Seq(Lines)
    BY <1>1, <2>2, IsASeq
  <2>4. QED
    BY <1>1, <2>2, <2>3, LenProperties
<1>5. ASSUME NEW i \in Ring
      PROVE  /\ history'[i].num = IF command_num > Age(i) THEN command_num - Age(i) ELSE 0
             /\ command_num > Age(i) => history'[i].raw = lines'[command_num - Age(i)]
  <2>1. Age(i) \in Nat /\ (Age(i) = 0 <=> i = last_cmd)
    BY <1>1, RingIs
  <2>2. /\ history[i].num = IF command_num > Age(i) THEN command_num - Age(i) ELSE 0
        /\ command_num > Age(i) /\ Age(i) >= 1 => history[i].raw = lines[command_num - Age(i)]
    BY DEF CmdInv, Aged, Read
  <2>3. history'[i].num = history[i].num /\ (i # last_cmd => history'[i].raw = history[i].raw)
    BY <1>1, <1>2 DEF Entry
  <2>4. ASSUME command_num > Age(i)
        PROVE  history'[i].raw = lines'[command_num - Age(i)]
    <3>1. command_num - Age(i) \in 1 .. command_num
      BY <1>1, <2>1, <2>4
    <3>2. CASE i = last_cmd
      <4>1. command_num - Age(i) = command_num
        BY <1>1, <2>1, <3>2
      <4>2. QED
        BY <1>3, <1>4, <3>1, <3>2, <4>1
    <3>3. CASE i # last_cmd
      <4>1. command_num - Age(i) # command_num /\ Age(i) >= 1
        BY <1>1, <2>1, <3>3
      <4>2. QED
        BY <1>4, <2>2, <2>3, <2>4, <3>1, <3>3, <4>1
    <3>4. QED
      BY <3>2, <3>3
  <2>5. QED
    BY <2>2, <2>3, <2>4
<1>6. Aged'
  BY <1>5 DEF Aged, Age
<1>7. QED
  BY <1>3, <1>4, <1>6

LEMMA EnterSteps ==
  ASSUME CmdInv, NEW b, EnterLine(b) PROVE CmdInv'
<1> DEFINE first == parse_cmdbuf(cmdbuf)
<1>1. Buffers
  BY DEF CmdInv
<1>2. /\ place = "getcmd" /\ input # <<>> /\ input' = Tail(input) /\ Enter(first)
      /\ place' = "main" /\ cmdbuf' = <<>>
      /\ UNCHANGED <<keyboard, typed, last_cmd, command_num, cmdexp, executed>>
  BY Zenon DEF EnterLine, Reads
<1>3. cmdbuf \in Lines /\ Counted(first)
  BY <1>1, parse_cmdbufIs DEF Buffers
<1> HIDE DEF first
<1>4. PICK raw, found, f :
        /\ raw \in Lines /\ found \in BOOLEAN
        /\ Resolve(f, raw, found)
        /\ Counted(f)
        /\ found \/ f.count = -1 \/ (f = first /\ raw = cmdbuf)
  <2>1. CASE first.count > 1 /\ first.argv[1] = <<"!">> /\ Repeatable(Atoi(first.argv[2]))
    <3>1. Resolve(first, Repeated(Atoi(first.argv[2])), TRUE)
      BY <1>2, <2>1, Zenon DEF Enter, Repeat
    <3>2. Repeated(Atoi(first.argv[2])) \in Lines
      BY <1>1, <2>1, RepeatedTypes
    <3>3. QED
      BY <1>3, <3>1, <3>2
  <2>2. CASE first.count > 1 /\ first.argv[1] = <<"!">> /\ ~Repeatable(Atoi(first.argv[2]))
    <3>1. Resolve([first EXCEPT !.count = -1], cmdbuf, FALSE)
      BY <1>2, <2>2, Zenon DEF Enter, Repeat
    <3>2. Counted([first EXCEPT !.count = -1]) /\ [first EXCEPT !.count = -1].count = -1
      BY <1>3 DEF Counted, Commands
    <3>3. QED
      BY <1>3, <3>1, <3>2
  <2>3. CASE ~(first.count > 1 /\ first.argv[1] = <<"!">>)
    <3>1. Resolve(first, cmdbuf, FALSE)
      BY <1>2, <2>3, Zenon DEF Enter
    <3>2. QED
      BY <1>3, <3>1
  <2>4. QED
    BY <2>1, <2>2, <2>3
<1>5. /\ Aged' /\ history' \in [Ring -> Entry]
      /\ lines' \in Seq(Lines) /\ Len(lines') = command_num
      /\ history'[last_cmd].raw = raw
  BY <1>2, <1>4, Resolves
<1>6. cmd' = IF found THEN parse_cmdbuf(raw) ELSE f
  BY <1>4 DEF Resolve
<1>7. Counted(cmd)'
  <2>1. Counted(parse_cmdbuf(raw))
    BY <1>4, parse_cmdbufIs
  <2>2. QED
    BY <1>4, <1>6, <2>1 DEF Counted
<1>8. CmdParsed'
  <2>1. cmd'.count = -1 \/ cmd' = parse_cmdbuf(raw)
    BY <1>4, <1>6 DEF first
  <2>2. QED
    BY <1>2, <1>5, <2>1 DEF CmdParsed
<1>9. Buffers'
  <2>1. input' \in Lines
    BY <1>1, <1>2, HeadTailProperties DEF Buffers, Lines
  <2>2. <<>> \in Lines /\ Len(<<>>) < MAX_LINEL
    BY EmptySeq, CmdLineAssumption DEF Lines
  <2>3. QED
    BY <1>1, <1>2, <1>5, <1>7, <2>1, <2>2 DEF Buffers
<1>10. QED
  BY <1>5, <1>8, <1>9 DEF CmdInv

\* The steps that run the command, or do not.
LEMMA OutcomeKeeps ==
  ASSUME CmdInv, place \in {"main", "command"},
         \E status \in {UNSUPPORT_ERR, SYNTAX_ERR, EXEC_FAILED, INTERNAL, Pid} : Outcome(status),
         UNCHANGED cmd, DOMAIN cmdexp' = DOMAIN cmdexp
  PROVE  CmdInv'
<1>1. PICK status \in {UNSUPPORT_ERR, SYNTAX_ERR, EXEC_FAILED, INTERNAL, Pid} : Outcome(status)
  OBVIOUS
<1>2. /\ history' = [history EXCEPT ![last_cmd].pid = status] /\ place' = "prompt"
      /\ UNCHANGED <<keyboard, input, cmdbuf, last_cmd, command_num, lines>>
  BY <1>1 DEF Outcome, ttyVars
<1>3. history \in [Ring -> Entry] /\ last_cmd \in Ring
  BY DEF CmdInv, Buffers
<1>4. history' \in [Ring -> Entry]
      /\ \A i \in Ring : history'[i].num = history[i].num /\ history'[i].raw = history[i].raw
  BY <1>2, <1>3 DEF Entry
<1>5. Buffers'
  BY <1>2, <1>4 DEF CmdInv, Buffers, Counted
<1>6. Aged'
  BY <1>2, <1>4, RingStays
<1>7. QED
  BY <1>2, <1>5, <1>6 DEF CmdInv, CmdParsed

LEMMA CountIs ==
  ASSUME NEW r, Counted(r)
  PROVE  /\ r \in Commands /\ r.argv \in Tokens /\ Len(r.argv) \in Nat /\ r.count \in Int
         /\ r.count >= 0 => r.count = Len(r.argv)
         /\ r.count \in -1 .. MAX_ARGS - 1 /\ Len(r.argv) < MAX_ARGS
         /\ r.wc_index \in Nat
<1>1. /\ r \in Commands /\ r.argv \in Tokens /\ r.count \in Int /\ r.wc_index \in Nat
      /\ Len(r.argv) <= MAX_ARGS - 1 /\ r.count \in {-1, Len(r.argv)}
  BY DEF Counted, Commands
<1>2. Len(r.argv) \in Nat
  BY <1>1, LenProperties DEF Tokens
<1>3. QED
  BY <1>1, <1>2, CmdLineAssumption, SMTT(40)

LEMMA MainSteps ==
  ASSUME CmdInv, \/ SyntaxError \/ Redirected \/ Background
                 \/ NotExecuted \/ Execute \/ ExpandOverrun
  PROVE  CmdInv'
<1>1. CASE SyntaxError \/ Redirected \/ NotExecuted \/ Execute
  <2>1. place \in {"main", "command"}
    BY <1>1 DEF SyntaxError, Redirected, Good, NotExecuted, Execute, Ready
  <2>2. /\ \E status \in {UNSUPPORT_ERR, SYNTAX_ERR, EXEC_FAILED, INTERNAL, Pid} : Outcome(status)
        /\ UNCHANGED <<cmd, cmdexp>>
    BY <1>1 DEF SyntaxError, Redirected, NotExecuted, Execute
  <2>3. QED
    BY <2>1, <2>2, OutcomeKeeps
<1>2. CASE Background
  <2>1. /\ cmd' = drop_arg(cmd, cmd.count - 1) /\ place' \in {"prompt", "command"}
        /\ UNCHANGED <<ttyVars, cmdbuf, last_cmd, command_num, lines, history, cmdexp>>
        /\ cmd.count > 1 /\ place = "main"
    BY <1>2 DEF Background, Good
  <2>2. Counted(cmd)
    BY DEF CmdInv, Buffers
  <2>3. cmd \in Commands /\ cmd.count = Len(cmd.argv) /\ Len(cmd.argv) \in Nat
    BY <2>1, <2>2, CountIs
  <2>4. cmd.count - 1 \in Nat /\ cmd.count - 1 < Len(cmd.argv)
    BY <2>1, <2>3
  <2>5. /\ cmd' \in Commands /\ cmd'.count = Len(cmd'.argv)
        /\ Len(cmd'.argv) = Len(cmd.argv) - 1
    BY <2>1, <2>3, <2>4, DropIs
  <2>6. Counted(cmd)'
    BY <2>2, <2>3, <2>5, CmdLineAssumption DEF Counted
  <2>7. Buffers'
    BY <2>1, <2>6 DEF CmdInv, Buffers, ttyVars
  <2>8. Aged'
    BY <2>1, RingStays
  <2>9. QED
    BY <2>1, <2>7, <2>8 DEF CmdInv, CmdParsed
<1>3. CASE ExpandOverrun
  <2>1. /\ place' = "crashed" /\ place \in {"main", "command"}
        /\ UNCHANGED <<ttyVars, cmdbuf, histVars, cmd, cmdexp>>
    BY <1>3 DEF ExpandOverrun, Wild, Ready, Good
  <2>2. Buffers'
    BY <2>1 DEF CmdInv, Buffers, ttyVars, histVars, Counted
  <2>3. Aged'
    BY <2>1, RingStays DEF histVars
  <2>4. QED
    BY <2>1, <2>2, <2>3 DEF CmdInv, CmdParsed
<1>4. QED
  BY <1>1, <1>2, <1>3

LEMMA WildSteps ==
  ASSUME CmdInv, ExecuteWild \/ NoDirectory PROVE CmdInv'
<1>1. place \in {"main", "command"} /\ UNCHANGED cmd
  BY DEF ExecuteWild, NoDirectory, Wild, Ready, Good
<1>2. /\ \E status \in {UNSUPPORT_ERR, SYNTAX_ERR, EXEC_FAILED, INTERNAL, Pid} : Outcome(status)
      /\ \/ cmdexp' = CopyBefore
         \/ \E names : cmdexp' = expand_wcard(names)
  BY DEF ExecuteWild, NoDirectory
<1>3. DOMAIN cmdexp' = DOMAIN cmdexp
  <2>1. DOMAIN CopyBefore = DOMAIN cmdexp
    BY DEF CopyBefore
  <2>2. ASSUME NEW names PROVE DOMAIN expand_wcard(names) = DOMAIN cmdexp
    BY DEF expand_wcard, CopyAfter
  <2>3. QED
    BY <1>2, <2>1, <2>2
<1>4. QED
  BY <1>1, <1>2, <1>3, OutcomeKeeps

LEMMA NextCmdInv == ASSUME CmdInv, [CmdNext]_cmdVars PROVE CmdInv'
<1>1. CASE CmdNext
  <2>1. CASE NextCommand
    BY <2>1, PromptSteps
  <2>2. CASE \/ \E k \in Keyboards[keyboard].keys : Strike(k)
             \/ \E b \in ToSet(input) : Type(b)
             \/ EndOfInput \/ SkipEmpty
    BY <2>2, TypingSteps
  <2>3. CASE \E b \in ToSet(input) : EnterLine(b)
    BY <2>3, EnterSteps
  <2>4. CASE \/ SyntaxError \/ Redirected \/ Background
             \/ NotExecuted \/ Execute \/ ExpandOverrun
    BY <2>4, MainSteps
  <2>5. CASE ExecuteWild \/ NoDirectory
    BY <2>5, WildSteps
  <2>6. QED
    BY <1>1, <2>1, <2>2, <2>3, <2>4, <2>5 DEF CmdNext
<1>2. CASE UNCHANGED cmdVars
  <2>1. Buffers'
    BY <1>2 DEF CmdInv, Buffers, cmdVars, ttyVars, histVars, Counted
  <2>2. Aged'
    BY <1>2 DEF CmdInv, Aged, Age, Read, cmdVars, histVars
  <2>3. CmdParsed'
    BY <1>2 DEF CmdInv, CmdParsed, cmdVars, histVars
  <2>4. QED
    BY <2>1, <2>2, <2>3 DEF CmdInv
<1>3. QED
  BY <1>1, <1>2

LEMMA AlwaysCmdInv == CmdSpec => []CmdInv
  BY InitCmdInv, NextCmdInv, PTL DEF CmdSpec

\* The ring is what "history" lists.
LEMMA RingListed == ASSUME CmdInv PROVE HistoryRing
<1> SUFFICES ASSUME place \in {"main", "command"}
             PROVE  LET oldest == command_num - HISTORY_LINES
                    IN  /\ Filled = {x \in 1 .. HISTORY_LINES : oldest + x > 0}
                        /\ \A x \in Filled : /\ hist_internal[x].num = oldest + x
                                              /\ hist_internal[x].raw = lines[oldest + x]
  BY DEF HistoryRing
<1>1. last_cmd \in Ring /\ command_num \in Nat
  BY DEF CmdInv, Buffers
<1>2. HISTORY_LINES \in Nat /\ HISTORY_LINES > 1 /\ last_cmd \in Nat /\ last_cmd < HISTORY_LINES
  BY <1>1, RingIs
<1>3. ASSUME NEW x \in 1 .. HISTORY_LINES
      PROVE  /\ history[Looked(x)].num = IF command_num - HISTORY_LINES + x > 0
                                          THEN command_num - HISTORY_LINES + x ELSE 0
             /\ command_num - HISTORY_LINES + x > 0 =>
                  history[Looked(x)].raw = lines[command_num - HISTORY_LINES + x]
  <2>1. Looked(x) \in Ring /\ Age(Looked(x)) = HISTORY_LINES - x
    BY <1>2 DEF Looked, Age, Ring
  <2>2. Read = 0
    BY DEF Read
  <2>3. /\ history[Looked(x)].num = IF command_num > HISTORY_LINES - x
                                     THEN command_num - (HISTORY_LINES - x) ELSE 0
        /\ command_num > HISTORY_LINES - x =>
             history[Looked(x)].raw = lines[command_num - (HISTORY_LINES - x)]
    <3>1. HISTORY_LINES - x >= 0
      BY <1>2
    <3>2. QED
      BY <2>1, <2>2, <3>1 DEF CmdInv, Aged
  <2>4. command_num - (HISTORY_LINES - x) = command_num - HISTORY_LINES + x
        /\ (command_num > HISTORY_LINES - x <=> command_num - HISTORY_LINES + x > 0)
    BY <1>1, <1>2
  <2>5. QED
    BY <2>3, <2>4
<1>4. Filled = {x \in 1 .. HISTORY_LINES : command_num - HISTORY_LINES + x > 0}
  BY <1>1, <1>2, <1>3 DEF Filled
<1>5. ASSUME NEW x \in Filled
      PROVE  /\ hist_internal[x].num = command_num - HISTORY_LINES + x
             /\ hist_internal[x].raw = lines[command_num - HISTORY_LINES + x]
  <2>1. hist_internal[x] = history[Looked(x)]
    BY DEF hist_internal
  <2>2. QED
    BY <1>3, <1>4, <2>1
<1>6. QED
  BY <1>4, <1>5

(***************************************************************************)
(* The words of an ordinary line                                           *)
(***************************************************************************)
In(line, k) == InQuote(line, 0, FALSE, k)

LEMMA InIs ==
  ASSUME NEW line
  PROVE  /\ In(line, 0) = FALSE
         /\ \A k \in Nat : /\ In(line, k) \in BOOLEAN
                           /\ In(line, k + 1) = IF At(line, k) = "quote" THEN ~In(line, k)
                                                ELSE In(line, k)
<1> DEFINE open == FALSE
<1>1. 0 \in Nat /\ open \in BOOLEAN
  OBVIOUS
<1> HIDE DEF open
<1>2. /\ InQuote(line, 0, open, 0) = open
      /\ \A k \in Nat : 0 <= k =>
              /\ InQuote(line, 0, open, k) \in BOOLEAN
              /\ InQuote(line, 0, open, k + 1) =
                   IF At(line, k) = "quote" THEN ~InQuote(line, 0, open, k)
                   ELSE InQuote(line, 0, open, k)
  BY <1>1, QuotesAre
<1>3. \A k \in Nat : 0 <= k
  OBVIOUS
<1>4. QED
  BY <1>2, <1>3, Zenon DEF In, open

\* Where no quote is, nothing opens or closes.
LEMMA InStays ==
  ASSUME NEW line, NEW s \in Nat, NEW k \in Nat, s <= k,
         \A q \in s .. k - 1 : At(line, q) # "quote"
  PROVE  In(line, k) = In(line, s)
<1> DEFINE T == {n \in Nat : s + n <= k => In(line, s + n) = In(line, s)}
<1>1. 0 \in T
  OBVIOUS
<1>2. ASSUME NEW n \in Nat, n \in T PROVE n + 1 \in T
  <2> SUFFICES ASSUME s + (n + 1) <= k PROVE In(line, s + (n + 1)) = In(line, s)
    OBVIOUS
  <2>1. s + n \in Nat /\ s + n <= k /\ s + n \in s .. k - 1 /\ s + (n + 1) = (s + n) + 1
    OBVIOUS
  <2>2. At(line, s + n) # "quote" /\ In(line, s + n) = In(line, s)
    BY <1>2, <2>1
  <2>3. In(line, (s + n) + 1) = In(line, s + n)
    <3> DEFINE k1 == s + n
    <3>1. k1 \in Nat /\ At(line, k1) # "quote"
      BY <2>1, <2>2
    <3> HIDE DEF k1
    <3>2. In(line, k1 + 1) = In(line, k1)
      BY <3>1, InIs
    <3>3. QED
      BY <3>2 DEF k1
  <2>4. QED
    BY <2>1, <2>2, <2>3, Zenon
<1> HIDE DEF T
<1>3. k - s \in T
  BY <1>1, <1>2, AllNumbers
<1>4. QED
  BY <1>3 DEF T

\* The bytes of an ordinary line.
LEMMA OrdinaryBytes ==
  ASSUME NEW line \in Lines, Ordinary(line)
  PROVE  /\ Len(line) \in Nat /\ ~In(line, Len(line)) /\ At(line, Len(line)) = NUL
         /\ \A k \in Nat : k < Len(line) =>
              /\ At(line, k) # NUL
              /\ At(line, k) \in Blanks \/ Printing(At(line, k))
<1>1. Len(line) \in Nat /\ At(line, Len(line)) = NUL
  BY LineIs
<1>2. ASSUME NEW k \in Nat, k < Len(line)
      PROVE  At(line, k) # NUL /\ (At(line, k) \in Blanks \/ Printing(At(line, k)))
  <2>1. At(line, k) = line[k + 1] /\ k + 1 \in DOMAIN line
    BY <1>1, <1>2, LineIs, LenProperties DEF Lines
  <2>2. At(line, k) \in ToSet(line)
    BY <2>1 DEF ToSet
  <2>3. At(line, k) \in Blanks \/ Printing(At(line, k))
    BY <2>2 DEF Ordinary
  <2>4. QED
    BY <2>3 DEF Printing, Blanks, NUL
<1>3. ~In(line, Len(line))
  BY DEF Ordinary, In
<1>4. QED
  BY <1>1, <1>2, <1>3

LEMMA EndOfIs ==
  ASSUME NEW line \in Lines, NEW s \in Nat, s <= Len(line)
  PROVE  /\ EndOf(line, s) \in Nat /\ s <= EndOf(line, s) /\ EndOf(line, s) <= Len(line)
         /\ EndOf(line, s) = Len(line) \/ Delimiter(line, EndOf(line, s))
         /\ \A k \in Nat : s <= k /\ k < EndOf(line, s) => ~Delimiter(line, k)
<1> DEFINE S == {k \in s .. Len(line) : k = Len(line) \/ Delimiter(line, k)}
<1>1. Len(line) \in Nat
  BY LineIs
<1>2. Len(line) \in S /\ S \subseteq Nat
  BY <1>1
<1>3. EndOf(line, s) = Least(S)
  BY DEF EndOf
<1>4. Least(S) \in S /\ \A m \in S : Least(S) <= m
  BY <1>2, LeastIs
<1>5. ASSUME NEW k \in Nat, s <= k, k < Least(S) PROVE ~Delimiter(line, k)
  <2>1. Least(S) \in s .. Len(line)
    BY <1>4
  <2>2. k \in s .. Len(line) /\ ~(Least(S) <= k)
    <3> HIDE DEF S
    <3> QED BY <1>1, <1>5, <2>1
  <2>3. k \notin S
    BY <1>4, <2>2
  <2>4. QED
    BY <2>2, <2>3
<1>6. Least(S) \in s .. Len(line) /\ (Least(S) = Len(line) \/ Delimiter(line, Least(S)))
  BY <1>4
<1> HIDE DEF S
<1>7. QED
  BY <1>1, <1>3, <1>5, <1>6

\* A word begins and ends with its quotes, or has none, and the scan of its
\* token ends where it does.
LEMMA WordIs ==
  ASSUME NEW line \in Lines, Ordinary(line), NEW s \in Starts(line)
  PROVE  LET e == EndOf(line, s)
         IN  /\ s \in Nat /\ e \in Nat /\ s < e /\ e <= Len(line) /\ s < MAX_LINEL - MAX_ARGLEN
             /\ ~In(line, s) /\ ~In(line, e)
             /\ TokenEnd(line, s, FALSE) = e
             /\ TokenText(line, s, e, FALSE) = Word(line, s)
             /\ InQuote(line, s, FALSE, e) = FALSE
<1> DEFINE e == EndOf(line, s)
<1>1. /\ Len(line) \in Nat /\ ~In(line, Len(line)) /\ At(line, Len(line)) = NUL
      /\ \A k \in Nat : k < Len(line) =>
           At(line, k) # NUL /\ (At(line, k) \in Blanks \/ Printing(At(line, k)))
  BY OrdinaryBytes
<1>2. s \in Nat /\ s < Len(line) /\ ~Delimiter(line, s) /\ (s = 0 \/ Delimiter(line, s - 1))
  BY <1>1 DEF Starts
<1>3. /\ e \in Nat /\ s <= e /\ e <= Len(line)
      /\ e = Len(line) \/ Delimiter(line, e)
      /\ \A k \in Nat : s <= k /\ k < e => ~Delimiter(line, k)
  BY <1>1, <1>2, EndOfIs
<1>4. s < e
  BY <1>2, <1>3
<1>5. ~In(line, s)
  <2>1. CASE s = 0
    BY <2>1, InIs
  <2>2. CASE s # 0
    <3>1. s - 1 \in Nat /\ (s - 1) + 1 = s
      BY <1>2, <2>2
    <3>2. At(line, s - 1) \in Blanks /\ ~In(line, s - 1)
      BY <1>2, <2>2 DEF Delimiter, In
    <3>3. At(line, s - 1) # "quote"
      BY <3>2 DEF Blanks
    <3>4. In(line, (s - 1) + 1) = In(line, s - 1)
      BY <3>1, <3>3, InIs
    <3>5. QED
      BY <3>1, <3>2, <3>4
  <2>3. QED
    BY <2>1, <2>2
<1>6. ~In(line, e)
  BY <1>1, <1>3 DEF Delimiter, In
<1>7. /\ e - s < MAX_ARGLEN /\ s < MAX_LINEL - MAX_ARGLEN
      /\ \A q \in s .. e - 1 : At(line, q) = "quote" => q \in {s, e - 1}
      /\ \A q \in s .. e - 1 : At(line, q) # "tab"
  BY DEF Ordinary
<1>8. \A k \in Nat : s <= k => InQuote(line, s, FALSE, k) = In(line, k)
  <2> SUFFICES ASSUME NEW k \in Nat, s <= k PROVE InQuote(line, s, FALSE, k) = In(line, k)
    OBVIOUS
  <2>1. InQuote(line, 0, FALSE, s) = FALSE
    BY <1>2, <1>5, InIs DEF In
  <2>2. InQuote(line, s, InQuote(line, 0, FALSE, s), k) = InQuote(line, 0, FALSE, k)
    BY <1>2, QuotesGoOn
  <2>3. QED
    BY <2>1, <2>2 DEF In
<1> HIDE DEF e
<1>9. TokenEnd(line, s, FALSE) = e
  <2> DEFINE open == FALSE
             t == TokenEnd(line, s, open)
  <2>0. open \in BOOLEAN
    OBVIOUS
  <2> HIDE DEF open
  <2>1. /\ t \in Nat /\ s <= t /\ t <= Len(line) /\ Stops(line, s, open, t)
        /\ \A k \in Nat : s <= k /\ k < t => ~Stops(line, s, open, k)
    BY <1>1, <1>2, <2>0, TokenEndIs
  <2> USE DEF open
  <2> HIDE DEF t
  <2>2. Stops(line, s, FALSE, e)
    <3>1. CASE e = Len(line)
      BY <1>1, <3>1 DEF Stops
    <3>2. CASE Delimiter(line, e)
      <4>1. At(line, e) \in Blanks /\ ~InQuote(line, s, FALSE, e)
        BY <1>3, <1>6, <1>8, <3>2 DEF Delimiter
      <4>2. QED
        BY <4>1 DEF Stops, Printing
    <3>3. QED
      BY <1>3, <3>1, <3>2
  <2>3. ASSUME NEW k \in Nat, s <= k, k < e PROVE ~Stops(line, s, FALSE, k)
    <3>1. k - s # MAX_ARGLEN - 1
      BY <1>2, <1>3, <1>7, <2>3, CmdLineAssumption
    <3>2. k < Len(line) /\ k \in s .. e - 1
      BY <1>1, <1>2, <1>3, <2>3
    <3>3. At(line, k) # NUL /\ (At(line, k) \in Blanks \/ Printing(At(line, k)))
      BY <1>1, <3>2
    <3>4. ~Delimiter(line, k) /\ At(line, k) # "tab"
      BY <1>3, <1>7, <2>3, <3>2
    <3>5. At(line, k) \in Blanks => At(line, k) = "sp" /\ InQuote(line, s, FALSE, k)
      BY <1>8, <2>3, <3>4 DEF Blanks, Delimiter, In
    <3>6. QED
      BY <3>1, <3>3, <3>5 DEF Stops
  <2>4. ~(t < e) /\ ~(e < t)
    BY <1>3, <2>1, <2>2, <2>3
  <2>5. t = e
    BY <1>3, <2>1, <2>4
  <2>6. QED
    BY <2>5 DEF t
<1>10. TokenText(line, s, e, FALSE) = Word(line, s)
  <2> DEFINE quotes == Quotes(line, s, e)
             opening == {q \in quotes : ~InQuote(line, s, FALSE, q)}
             first == s + Cardinality(opening)
             ends == {q \in quotes : InQuote(line, s, FALSE, q) /\ q >= first}
  <2>1. TokenText(line, s, e, FALSE) = SubSeq(line, first + 1, Least(ends \cup {e}))
    BY DEF TokenText
  <2>2. quotes \subseteq {s, e - 1}
    BY <1>7 DEF Quotes
  <2>3. \A q \in quotes : q \in Nat /\ s <= q
    BY <1>2 DEF Quotes
  <2>4. CASE At(line, s) = "quote"
    <3>1. In(line, s + 1)
      BY <1>2, <1>5, <2>4, InIs
    <3>2. s + 1 # e
      BY <1>6, <3>1
    <3>3. e - 1 \in Nat /\ s + 1 \in Nat /\ s + 1 <= e - 1 /\ (e - 1) + 1 = e
      BY <1>2, <1>3, <1>4, <3>2
    <3>4. \A q \in s + 1 .. (e - 1) - 1 : At(line, q) # "quote"
      <4> SUFFICES ASSUME NEW q \in s + 1 .. (e - 1) - 1 PROVE At(line, q) # "quote"
        OBVIOUS
      <4>1. q \in s .. e - 1 /\ q # s /\ q # e - 1
        BY <1>2, <1>3
      <4>2. QED
        BY <1>7, <4>1
    <3>5. In(line, e - 1)
      BY <3>1, <3>3, <3>4, InStays
    <3>6. At(line, e - 1) = "quote"
      BY <1>6, <3>3, <3>5, InIs
    <3>7. quotes = {s, e - 1}
      <4>1. s \in s .. e - 1 /\ e - 1 \in s .. e - 1
        BY <1>2, <1>3, <3>3
      <4>2. QED
        BY <2>2, <2>4, <3>6, <4>1 DEF Quotes
    <3>8. ~InQuote(line, s, FALSE, s) /\ InQuote(line, s, FALSE, e - 1)
      <4>1. /\ InQuote(line, s, FALSE, s) = In(line, s)
            /\ InQuote(line, s, FALSE, e - 1) = In(line, e - 1)
        <5>1. s <= s /\ s <= e - 1
          BY <1>2, <3>3
        <5>2. QED
          BY <1>2, <1>8, <3>3, <5>1, Zenon
      <4>2. QED
        BY <1>5, <3>5, <4>1, Zenon
    <3> HIDE DEF quotes
    <3>9. opening = {s}
      BY <3>7, <3>8
    <3>10. first = s + 1
      BY <3>9, FS_Singleton
    <3>11. ends = {e - 1}
      <4> HIDE DEF first
      <4>1. e - 1 >= first
        BY <1>2, <3>3, <3>10
      <4>2. QED
        BY <3>7, <3>8, <4>1
    <3> HIDE DEF first, ends
    <3>12. Least(ends \cup {e}) = e - 1
      <4>1. ends \cup {e} \subseteq Nat /\ ends \cup {e} # {}
        BY <1>3, <3>3, <3>11
      <4>2. Least(ends \cup {e}) \in {e - 1, e} /\ Least(ends \cup {e}) <= e - 1
        BY <3>11, <4>1, LeastIs
      <4>3. QED
        BY <1>3, <4>2
    <3>13. first + 1 = s + 2
      BY <1>2, <3>10
    <3>14. QED
      BY <2>1, <2>4, <3>12, <3>13 DEF Word, e
  <2>5. CASE At(line, s) # "quote"
    <3>1. At(line, e - 1) # "quote"
      <4> SUFFICES ASSUME At(line, e - 1) = "quote" PROVE FALSE
        OBVIOUS
      <4>1. e - 1 \in Nat /\ s <= e - 1 /\ (e - 1) + 1 = e
        BY <1>2, <1>3, <1>4
      <4>2. \A q \in s .. (e - 1) - 1 : At(line, q) # "quote"
        <5> SUFFICES ASSUME NEW q \in s .. (e - 1) - 1 PROVE At(line, q) # "quote"
          OBVIOUS
        <5>1. q \in s .. e - 1 /\ q # e - 1
          BY <1>2, <1>3
        <5>2. QED
          BY <1>7, <2>5, <5>1
      <4>3. In(line, e - 1) = In(line, s)
        BY <1>2, <4>1, <4>2, InStays
      <4>4. QED
        BY <1>5, <1>6, <4>1, <4>3, InIs
    <3>2. quotes = {}
      BY <2>2, <2>5, <3>1 DEF Quotes
    <3> HIDE DEF quotes
    <3>3. opening = {} /\ ends = {}
      BY <3>2
    <3>4. first = s
      <4>1. Cardinality(opening) = 0
        BY <3>3, FS_EmptySet
      <4> HIDE DEF opening
      <4>2. QED
        BY <1>2, <4>1
    <3> HIDE DEF first
    <3> HIDE DEF ends
    <3>5. Least(ends \cup {e}) = e
      <4>1. ends \cup {e} = {e} /\ {e} \subseteq Nat /\ {e} # {}
        BY <1>3, <3>3
      <4>2. QED
        BY <4>1, LeastIs
    <3>6. QED
      BY <2>1, <2>5, <3>4, <3>5 DEF Word, e
  <2>6. QED
    BY <2>4, <2>5
<1>11. InQuote(line, s, FALSE, e) = FALSE
  BY <1>3, <1>6, <1>8, InIs
<1>12. QED
  BY <1>2, <1>3, <1>4, <1>5, <1>6, <1>7, <1>9, <1>10, <1>11 DEF e

\* No more numbers go upwards through a set than it has.
LEMMA IncreasingFits ==
  ASSUME NEW S, IsFiniteSet(S), S \subseteq Nat, NEW n \in Nat, NEW at \in Increasing(n, S)
  PROVE  n <= Cardinality(S)
<1> SUFFICES ASSUME ~(n <= Cardinality(S)) PROVE FALSE
  OBVIOUS
<1>1. Cardinality(S) \in Nat
  BY FS_CardinalityType
<1>2. IsFiniteSet(1 .. n) /\ Cardinality(1 .. n) = n
  <2>1. 1 \in Int /\ n \in Int /\ (1 > n => n = 0) /\ n - 1 + 1 = n
    OBVIOUS
  <2>2. QED
    BY <2>1, FS_Interval
<1>3. at \in [1 .. n -> S] /\ \A x, y \in 1 .. n : x < y => at[x] < at[y]
  BY DEF Increasing
<1>4. \E x, y \in 1 .. n : x # y /\ at[x] = at[y]
  <2>1. Cardinality(S) < Cardinality(1 .. n)
    BY <1>1, <1>2
  <2>2. QED
    BY <1>2, <1>3, <2>1, FS_PigeonHole
<1>5. PICK x \in 1 .. n, y \in 1 .. n : x # y /\ at[x] = at[y]
  BY <1>4
<1>6. at[x] \in Nat /\ at[y] \in Nat
  BY <1>3
<1>7. x < y \/ y < x
  BY <1>5
<1>8. QED
  BY <1>3, <1>5, <1>6, <1>7

\* A number behind all of them can be put behind them.
LEMMA IncreasingGrows ==
  ASSUME NEW S, S \subseteq Nat, NEW n \in Nat, NEW at \in Increasing(n, S), NEW s \in S,
         \A x \in 1 .. n : at[x] < s
  PROVE  LET g == [x \in 1 .. n + 1 |-> IF x <= n THEN at[x] ELSE s]
         IN  /\ g \in Increasing(n + 1, S)
             /\ {g[x] : x \in 1 .. n + 1} = {at[x] : x \in 1 .. n} \cup {s}
             /\ g[n + 1] = s /\ \A x \in 1 .. n : g[x] = at[x]
<1> DEFINE g == [x \in 1 .. n + 1 |-> IF x <= n THEN at[x] ELSE s]
<1>1. at \in [1 .. n -> S] /\ \A x, y \in 1 .. n : x < y => at[x] < at[y]
  BY DEF Increasing
<1>2. g[n + 1] = s /\ \A x \in 1 .. n : g[x] = at[x]
  OBVIOUS
<1>3. \A x \in 1 .. n + 1 : x = n + 1 \/ x \in 1 .. n
  OBVIOUS
<1>4. g \in [1 .. n + 1 -> S]
  BY <1>1
<1> HIDE DEF g
<1>5. ASSUME NEW x \in 1 .. n + 1, NEW y \in 1 .. n + 1, x < y PROVE g[x] < g[y]
  <2>1. x \in 1 .. n
    BY <1>5
  <2>2. CASE y = n + 1
    BY <1>2, <2>1, <2>2
  <2>3. CASE y # n + 1
    <3>1. y \in 1 .. n
      BY <2>3
    <3>2. QED
      BY <1>1, <1>2, <1>5, <2>1, <3>1
  <2>4. QED
    BY <2>2, <2>3
<1>6. g \in Increasing(n + 1, S)
  BY <1>4, <1>5 DEF Increasing
<1>7. {g[x] : x \in 1 .. n + 1} = {at[x] : x \in 1 .. n} \cup {s}
  <2>1. \A x \in 1 .. n + 1 : g[x] \in {at[y] : y \in 1 .. n} \cup {s}
    BY <1>2, <1>3
  <2>2. \A x \in 1 .. n : at[x] \in {g[y] : y \in 1 .. n + 1}
    <3> SUFFICES ASSUME NEW x \in 1 .. n PROVE at[x] \in {g[y] : y \in 1 .. n + 1}
      OBVIOUS
    <3>1. x \in 1 .. n + 1 /\ g[x] = at[x]
      BY <1>2
    <3>2. QED
      BY <3>1
  <2>3. s \in {g[y] : y \in 1 .. n + 1}
    <3>1. n + 1 \in 1 .. n + 1
      OBVIOUS
    <3>2. QED
      BY <1>2, <3>1
  <2>4. QED
    BY <2>1, <2>2, <2>3
<1>8. QED
  BY <1>2, <1>6, <1>7 DEF g

LEMMA StartsAre ==
  ASSUME NEW line \in Lines
  PROVE  /\ IsFiniteSet(Starts(line)) /\ Starts(line) \subseteq Nat
         /\ \A k \in Starts(line) : k \in Nat /\ k < Len(line)
<1>1. Len(line) \in Nat
  BY LineIs
<1>2. Starts(line) \subseteq 0 .. Len(line) - 1
  BY DEF Starts
<1>3. IsFiniteSet(0 .. Len(line) - 1)
  BY <1>1, FS_Interval
<1>4. QED
  BY <1>1, <1>2, <1>3, FS_Subset

\* What the loop over the tokens has done when it stands at p.
Reached(p, line) == IF p.done THEN Starts(line) ELSE {k \in Starts(line) : k < p.i}
WordsAt(argv, line, at) ==
  /\ at \in Increasing(Len(argv), Starts(line))
  /\ \A x \in 1 .. Len(argv) : argv[x] = Word(line, at[x])
Found(argv, sign, j) ==
  \A x \in 2 .. Len(argv) : argv[x] = <<sign>> => j > 0 /\ j < x
Held(j, argv) == j > 0 => j < Len(argv)
Walk(p, line) ==
  /\ Parsing(p, line)
  /\ ~p.inquote
  /\ Held(p.inredir_j, p.argv) /\ Held(p.outredir_j, p.argv)
  /\ ~p.done => ~In(line, p.i) /\ (p.i = 0 \/ Delimiter(line, p.i - 1))
  /\ Found(p.argv, "<", p.inredir_j) /\ Found(p.argv, ">", p.outredir_j)
  /\ \E at : WordsAt(p.argv, line, at) /\ Reached(p, line) = {at[x] : x \in 1 .. Len(p.argv)}
Stuck(p, line) == p.done \/ At(line, p.i) = NUL \/ p.i >= MAX_LINEL - MAX_ARGLEN

LEMMA StartWalks ==
  ASSUME NEW line \in Lines PROVE Walk(Start(line), line)
<1> DEFINE p == Start(line)
<1>1. Parsing(p, line)
  BY StartParses
<1>2. ~p.inquote /\ ~p.done /\ p.i = 0 /\ p.argv = <<>> /\ Len(<<>>) = 0
  BY EmptySeq DEF Start
<1>3. ~In(line, 0)
  BY InIs
<1> DEFINE at == [x \in 1 .. 0 |-> 0]
<1>4. at \in Increasing(0, Starts(line)) /\ {at[x] : x \in 1 .. 0} = {}
  BY DEF Increasing
<1>5. Reached(p, line) = {}
  BY <1>2, StartsAre DEF Reached
<1>6. WordsAt(p.argv, line, at)
  BY <1>2, <1>4 DEF WordsAt
<1>7. /\ Found(p.argv, "<", p.inredir_j) /\ Found(p.argv, ">", p.outredir_j)
      /\ Held(p.inredir_j, p.argv) /\ Held(p.outredir_j, p.argv)
  BY <1>2 DEF Found, Held, Start
<1> HIDE DEF p, at
<1>8. QED
  BY <1>1, <1>2, <1>3, <1>4, <1>5, <1>6, <1>7, Zenon DEF Walk, p

\* Between the tokens are blanks that are not quoted.
LEMMA GapIs ==
  ASSUME NEW line \in Lines, NEW i \in Nat, NEW s \in Nat, i <= s, s <= Len(line),
         ~In(line, i), \A k \in Nat : i <= k /\ k < s => At(line, k) \in Blanks
  PROVE  /\ \A k \in Nat : i <= k /\ k < s => Delimiter(line, k) /\ k \notin Starts(line)
         /\ ~In(line, s)
<1>1. \A k \in Nat : i <= k /\ k <= s => ~In(line, k)
  <2> SUFFICES ASSUME NEW k \in Nat, i <= k, k <= s PROVE ~In(line, k)
    OBVIOUS
  <2>1. \A q \in i .. k - 1 : At(line, q) # "quote"
    <3> SUFFICES ASSUME NEW q \in i .. k - 1 PROVE At(line, q) # "quote"
      OBVIOUS
    <3>1. q \in Nat /\ i <= q /\ q < s
      OBVIOUS
    <3>2. At(line, q) \in Blanks
      BY <3>1
    <3>3. QED
      BY <3>2 DEF Blanks
  <2>2. QED
    BY <2>1, InStays
<1>2. \A k \in Nat : i <= k /\ k < s => Delimiter(line, k)
  <2> SUFFICES ASSUME NEW k \in Nat, i <= k, k < s PROVE Delimiter(line, k)
    OBVIOUS
  <2>1. At(line, k) \in Blanks /\ k <= s
    OBVIOUS
  <2>2. ~In(line, k)
    BY <1>1, <2>1
  <2>3. QED
    BY <2>1, <2>2 DEF Delimiter, In
<1>3. \A k \in Starts(line) : ~Delimiter(line, k)
  BY DEF Starts
<1>4. ~In(line, s)
  BY <1>1
<1>5. QED
  BY <1>2, <1>3, <1>4

\* One turn of the loop on an ordinary line takes the next word.
LEMMA TurnWalks ==
  ASSUME NEW line \in Lines, Ordinary(line), NEW p, Walk(p, line)
  PROVE  /\ Walk(Turn(p), line)
         /\ Stuck(p, line) => Turn(p) = p
         /\ ~Stuck(p, line) => Turn(p).done \/ Len(Turn(p).argv) = Len(p.argv) + 1
<1>1. /\ Parsing(p, line) /\ p \in Parsed(line) /\ p.line = line /\ p.i \in Nat
      /\ p.argv \in Tokens /\ Len(p.argv) \in Nat /\ ~p.inquote /\ p.inquote = FALSE
      /\ Len(p.argv) <= MAX_ARGS - 1
      /\ p.inredir_j \in Nat /\ p.outredir_j \in Nat
  BY LenProperties DEF Walk, Parsing, Parsed, Tokens
<1>2. CASE Stuck(p, line)
  <2>1. Turn(p) = p
    BY <1>1, <1>2 DEF Stuck, Turn
  <2>2. QED
    BY <1>2, <2>1
<1>3. CASE ~Stuck(p, line)
  <2> DEFINE s == Skip(line, p.i)
             e == EndOf(line, s)
             n == Len(p.argv)
  <2>0. MAX_LINEL - MAX_ARGLEN \in Nat /\ MAX_ARGS \in Nat
    BY CmdLineAssumption
  <2>1. ~p.done /\ At(line, p.i) # NUL /\ p.i < MAX_LINEL - MAX_ARGLEN
    BY <1>1, <1>3, <2>0 DEF Stuck
  <2>2. /\ ~In(line, p.i) /\ (p.i = 0 \/ Delimiter(line, p.i - 1)) /\ p.i <= Len(line)
    BY <1>1, <2>1 DEF Walk, Parsing
  <2>3. /\ s \in Nat /\ p.i <= s /\ s <= Len(line) /\ At(line, s) \notin Blanks
        /\ \A k \in Nat : p.i <= k /\ k < s => At(line, k) \in Blanks
    BY <1>1, <2>2, SkipIs
  <2>4. /\ Len(line) \in Nat /\ At(line, Len(line)) = NUL
        /\ \A k \in Nat : k < Len(line) => At(line, k) # NUL
    BY OrdinaryBytes
  <2>5. /\ \A k \in Nat : p.i <= k /\ k < s => Delimiter(line, k) /\ k \notin Starts(line)
        /\ ~In(line, s)
    BY <1>1, <2>2, <2>3, GapIs
  <2>6. PICK at : /\ WordsAt(p.argv, line, at)
                  /\ Reached(p, line) = {at[x] : x \in 1 .. Len(p.argv)}
    BY DEF Walk
  <2>7. {k \in Starts(line) : k < p.i} = {at[x] : x \in 1 .. n}
    BY <2>1, <2>6 DEF Reached
  <2>t. /\ At(line, s) = NUL => Turn(p) = [p EXCEPT !.done = TRUE]
        /\ At(line, s) # NUL =>
             \E star \in BOOLEAN :
               Turn(p) = StoreToken(Quoted(p, s), TokenEnd(line, s, p.inquote),
                                    TokenText(line, s, TokenEnd(line, s, p.inquote), p.inquote), star)
    BY <1>1, <2>1, TurnIs
  <2> HIDE DEF s
  <2>8. CASE At(line, s) = NUL
    <3> DEFINE r == [p EXCEPT !.done = TRUE]
    <3>1. Turn(p) = r
      BY <2>8, <2>t
    <3>2. /\ r.done /\ r.argv = p.argv /\ ~r.inquote
          /\ r.inredir_j = p.inredir_j /\ r.outredir_j = p.outredir_j
      BY <1>1 DEF Parsed
    <3>3. Parsing(r, line)
      BY <1>1, <3>1, TurnKeeps
    <3> HIDE DEF r
    <3>4. s = Len(line)
      BY <2>3, <2>4, <2>8
    <3>5. Starts(line) = {k \in Starts(line) : k < p.i}
      <4> SUFFICES ASSUME NEW k \in Starts(line), ~(k < p.i) PROVE FALSE
        OBVIOUS
      <4>1. k \in Nat /\ k < s
        BY <3>4, StartsAre
      <4>2. QED
        BY <1>1, <2>5, <4>1
    <3>6. Reached(r, line) = {at[x] : x \in 1 .. Len(r.argv)}
      BY <2>7, <3>2, <3>5 DEF Reached
    <3>7. WordsAt(r.argv, line, at)
      BY <2>6, <3>2
    <3>8. /\ Found(r.argv, "<", r.inredir_j) /\ Found(r.argv, ">", r.outredir_j)
          /\ Held(r.inredir_j, r.argv) /\ Held(r.outredir_j, r.argv)
      BY <3>2 DEF Walk
    <3>9. Walk(r, line)
      BY <3>2, <3>3, <3>6, <3>7, <3>8 DEF Walk
    <3>10. QED
      BY <1>3, <3>1, <3>2, <3>9
  <2>9. CASE At(line, s) # NUL
    <3>1. s < Len(line)
      BY <2>3, <2>4, <2>9
    <3>2. s \in Starts(line)
      <4>1. ~Delimiter(line, s)
        BY <2>3 DEF Delimiter
      <4>2. s = 0 \/ Delimiter(line, s - 1)
        <5>1. CASE p.i = s
          BY <2>2, <5>1
        <5>2. CASE p.i # s
          <6>1. s - 1 \in Nat /\ p.i <= s - 1 /\ s - 1 < s
            BY <1>1, <2>3, <5>2
          <6>2. QED
            BY <2>5, <6>1
        <5>3. QED
          BY <5>1, <5>2
      <4>3. s \in 0 .. Len(line) - 1
        BY <2>3, <2>4, <3>1
      <4>4. QED
        BY <4>1, <4>2, <4>3 DEF Starts
    <3>3. /\ e \in Nat /\ s < e /\ e <= Len(line)
          /\ ~In(line, e) /\ TokenEnd(line, s, FALSE) = e
          /\ TokenText(line, s, e, FALSE) = Word(line, s)
          /\ InQuote(line, s, FALSE, e) = FALSE
      BY <3>2, WordIs
    <3>4. \A k \in Nat : s <= k /\ k < e => ~Delimiter(line, k)
      BY <2>3, EndOfIs
    <3>5. e = Len(line) \/ Delimiter(line, e)
      BY <2>3, EndOfIs
    <3> HIDE DEF e
    <3> DEFINE q == Quoted(p, s)
               text == Word(line, s)
    <3>6. PICK star \in BOOLEAN : Turn(p) = StoreToken(q, e, text, star)
      BY <1>1, <2>9, <2>t, <3>3
    <3>7. /\ Parsing(q, line) /\ q.inquote = FALSE
          /\ q.argv = p.argv /\ q.inredir_j = p.inredir_j /\ q.outredir_j = p.outredir_j
          /\ ~q.done
      <4>1. /\ Parsing(q, line)
            /\ q.inquote = InQuote(line, s, p.inquote, TokenEnd(line, s, p.inquote))
            /\ q.argv = p.argv /\ q.inredir_j = p.inredir_j /\ q.outredir_j = p.outredir_j
            /\ q.done = p.done
        BY <1>1, <2>3, QuotedParses
      <4>2. q.inquote = FALSE
        BY <1>1, <3>3, <4>1, Zenon
      <4>3. QED
        BY <2>1, <4>1, <4>2
    <3> HIDE DEF q
    <3>8. text \in Lines
      <4>1. TokenText(line, s, e, p.inquote) \in Lines
        <5>1. p.inquote \in BOOLEAN /\ s <= e
          BY <1>1, <2>3, <3>3 DEF Parsed
        <5>2. QED
          BY <2>3, <3>3, <5>1, TokenTextIs
      <4>2. QED
        BY <1>1, <3>3, <4>1
    <3> HIDE DEF text
    <3> DEFINE r == Turn(p)
    <3>9. /\ Parsing(r, line) /\ r.i = e + 1 /\ r.inquote = FALSE
          /\ r.argv = IF n = MAX_ARGS - 1 THEN p.argv ELSE Append(p.argv, text)
          /\ r.inredir_j = IF p.inredir_j = 0 /\ text = <<"<">> THEN n ELSE p.inredir_j
          /\ r.outredir_j = IF p.outredir_j = 0 /\ text = <<">">> THEN n ELSE p.outredir_j
          /\ r.done <=> (n = MAX_ARGS - 1 \/ At(line, e) = NUL)
      BY <3>3, <3>6, <3>7, <3>8, StoreKeeps
    <3> HIDE DEF r
    <3> DEFINE g == [x \in 1 .. n + 1 |-> IF x <= n THEN at[x] ELSE s]
    <3>10. at \in Increasing(n, Starts(line)) /\ \A x \in 1 .. n : p.argv[x] = Word(line, at[x])
      BY <2>6 DEF WordsAt
    <3>11. \A x \in 1 .. n : at[x] < s
      <4> SUFFICES ASSUME NEW x \in 1 .. n PROVE at[x] < s
        OBVIOUS
      <4>1. at[x] \in Starts(line) /\ at[x] < p.i
        BY <2>7
      <4>2. at[x] \in Nat
        BY <4>1, StartsAre
      <4>3. QED
        BY <1>1, <2>3, <4>1, <4>2
    <3>12. /\ g \in Increasing(n + 1, Starts(line))
           /\ {g[x] : x \in 1 .. n + 1} = {at[x] : x \in 1 .. n} \cup {s}
           /\ g[n + 1] = s /\ \A x \in 1 .. n : g[x] = at[x]
      <4>1. n \in Nat /\ Starts(line) \subseteq Nat
        BY <1>1, StartsAre
      <4> HIDE DEF n
      <4>2. QED
        BY <3>2, <3>10, <3>11, <4>1, IncreasingGrows
    <3> HIDE DEF g
    <3>13. n # MAX_ARGS - 1
      <4>1. n + 1 <= Cardinality(Starts(line))
        BY <1>1, <3>12, StartsAre, IncreasingFits
      <4>2. Cardinality(Starts(line)) < MAX_ARGS /\ Cardinality(Starts(line)) \in Nat
        BY StartsAre, FS_CardinalityType DEF Ordinary
      <4>3. QED
        BY <1>1, <2>0, <4>1, <4>2
    <3>14. /\ r.argv = Append(p.argv, text) /\ Len(r.argv) = n + 1
           /\ \A x \in 1 .. n : r.argv[x] = p.argv[x]
           /\ r.argv[n + 1] = text
      BY <1>1, <3>8, <3>9, <3>13, AppendProperties DEF Tokens
    <3>15. WordsAt(r.argv, line, g)
      <4>1. \A x \in 1 .. n + 1 : r.argv[x] = Word(line, g[x])
        <5> SUFFICES ASSUME NEW x \in 1 .. n + 1 PROVE r.argv[x] = Word(line, g[x])
          OBVIOUS
        <5>1. CASE x = n + 1
          BY <3>12, <3>14, <5>1 DEF text
        <5>2. CASE x # n + 1
          <6>1. x \in 1 .. n
            BY <1>1, <5>2
          <6>2. QED
            BY <3>10, <3>12, <3>14, <6>1
        <5>3. QED
          BY <5>1, <5>2
      <4>2. QED
        BY <3>12, <3>14, <4>1 DEF WordsAt
    <3>16. {k \in Starts(line) : k < e + 1} = {k \in Starts(line) : k < p.i} \cup {s}
      <4>1. ASSUME NEW k \in Starts(line), k < e + 1, ~(k < p.i), k # s PROVE FALSE
        <5>1. k \in Nat
          BY StartsAre
        <5>2. CASE k < s
          BY <1>1, <2>5, <4>1, <5>1, <5>2
        <5>3. CASE ~(k < s)
          <6>1. k - 1 \in Nat /\ s <= k - 1 /\ k - 1 < e /\ k # 0
            BY <2>3, <3>3, <4>1, <5>1, <5>3
          <6>2. ~Delimiter(line, k - 1)
            BY <3>4, <6>1
          <6>3. QED
            BY <6>1, <6>2 DEF Starts
        <5>4. QED
          BY <5>2, <5>3
      <4>2. s < e + 1 /\ \A k \in Starts(line) : k < p.i => k < e + 1
        BY <1>1, <2>3, <3>3, StartsAre
      <4>3. QED
        BY <3>2, <4>1, <4>2
    <3>17. Reached(r, line) = {g[x] : x \in 1 .. Len(r.argv)}
      <4>1. {k \in Starts(line) : k < e + 1} = {g[x] : x \in 1 .. Len(r.argv)}
        BY <2>7, <3>12, <3>14, <3>16
      <4>2. CASE r.done
        <5>1. e = Len(line)
          BY <2>4, <3>3, <3>9, <3>13, <4>2
        <5>2. \A k \in Starts(line) : k < e + 1
          BY <2>4, <5>1, StartsAre
        <5>3. QED
          BY <4>1, <4>2, <5>2 DEF Reached
      <4>3. CASE ~r.done
        BY <3>9, <4>1, <4>3 DEF Reached
      <4>4. QED
        BY <4>2, <4>3
    <3>18. ~r.done => ~In(line, r.i) /\ Delimiter(line, r.i - 1)
      <4> SUFFICES ASSUME ~r.done PROVE ~In(line, e + 1) /\ Delimiter(line, (e + 1) - 1)
        BY <3>9
      <4>1. At(line, e) # NUL
        BY <3>9
      <4>2. Delimiter(line, e)
        BY <2>4, <3>5, <4>1
      <4>3. At(line, e) # "quote"
        BY <4>2 DEF Delimiter, Blanks
      <4>4. In(line, e + 1) = In(line, e)
        BY <3>3, <4>3, InIs
      <4>5. (e + 1) - 1 = e
        BY <3>3
      <4>6. QED
        BY <3>3, <4>2, <4>4, <4>5
    <3>19. ASSUME NEW sign, NEW j \in Nat, NEW j1, j <= n, j1 = IF j = 0 /\ text = <<sign>> THEN n ELSE j,
                  Found(p.argv, sign, j), Held(j, p.argv)
           PROVE  Found(r.argv, sign, j1) /\ Held(j1, r.argv)
      <4>0. Held(j1, r.argv)
        BY <1>1, <3>14, <3>19 DEF Held
      <4> SUFFICES ASSUME NEW x \in 2 .. n + 1, r.argv[x] = <<sign>> PROVE j1 > 0 /\ j1 < x
        BY <3>14, <4>0 DEF Found
      <4>1. CASE x = n + 1
        <5>1. text = <<sign>>
          BY <3>14, <4>1
        <5>2. CASE j = 0
          BY <1>1, <3>19, <4>1, <5>1, <5>2
        <5>3. CASE j # 0
          <6>1. j1 = j
            BY <3>19, <5>3
          <6>2. QED
            BY <1>1, <3>19, <4>1, <5>3, <6>1
        <5>4. QED
          BY <5>2, <5>3
      <4>2. CASE x # n + 1
        <5>1. x \in 2 .. n /\ x \in 1 .. n
          BY <1>1, <4>2
        <5>2. j > 0 /\ j < x
          BY <3>14, <3>19, <5>1 DEF Found
        <5>3. QED
          BY <3>19, <5>2
      <4>3. QED
        BY <4>1, <4>2
    <3>20. /\ Found(r.argv, "<", r.inredir_j) /\ Found(r.argv, ">", r.outredir_j)
           /\ Held(r.inredir_j, r.argv) /\ Held(r.outredir_j, r.argv)
      <4>1. p.inredir_j <= n /\ p.outredir_j <= n
        BY <1>1, <2>1 DEF Parsing
      <4>2. QED
        BY <1>1, <3>9, <3>19, <4>1 DEF Walk
    <3>21. Walk(r, line)
      BY <3>9, <3>15, <3>17, <3>18, <3>20 DEF Walk
    <3>22. QED
      BY <1>3, <3>14, <3>21 DEF r
  <2>10. QED
    BY <2>8, <2>9
<1>4. QED
  BY <1>2, <1>3

\* When the loop ends, every word has been taken.
LEMMA LoopWalks ==
  ASSUME NEW line \in Lines, Ordinary(line)
  PROVE  LET p == ParseTokens(Start(line))
         IN  /\ Walk(p, line)
             /\ \E at : WordsAt(p.argv, line, at)
                        /\ Starts(line) = {at[x] : x \in 1 .. Len(p.argv)}
<1> DEFINE p == ParseTokens(Start(line))
<1>0. MAX_ARGS \in Nat
  BY CmdLineAssumption
<1>1. PICK f : /\ p = f[MAX_ARGS] /\ f[0] = Start(line)
               /\ \A m \in Nat : m < MAX_ARGS => f[m + 1] = Turn(f[m])
  BY ParseTokensIs
<1> HIDE DEF p
<1> DEFINE T == {m \in Nat : m <= MAX_ARGS => /\ Walk(f[m], line)
                                              /\ Stuck(f[m], line) \/ Len(f[m].argv) >= m}
<1>2. 0 \in T
  <2>1. Walk(f[0], line)
    BY <1>1, StartWalks
  <2>2. Len(f[0].argv) \in Nat
    BY <2>1, LenProperties DEF Walk, Parsing, Parsed, Tokens
  <2>3. QED
    BY <2>1, <2>2
<1>3. ASSUME NEW m \in Nat, m \in T PROVE m + 1 \in T
  <2> SUFFICES ASSUME m + 1 <= MAX_ARGS
               PROVE  /\ Walk(f[m + 1], line)
                      /\ Stuck(f[m + 1], line) \/ Len(f[m + 1].argv) >= m + 1
    OBVIOUS
  <2>1. m < MAX_ARGS /\ m <= MAX_ARGS
    BY <1>0
  <2>2. f[m + 1] = Turn(f[m]) /\ Walk(f[m], line) /\ (Stuck(f[m], line) \/ Len(f[m].argv) >= m)
    BY <1>1, <1>3, <2>1
  <2>3. Walk(f[m + 1], line)
    BY <2>2, TurnWalks
  <2>4. CASE Stuck(f[m], line)
    BY <2>2, <2>3, <2>4, TurnWalks
  <2>5. CASE ~Stuck(f[m], line)
    <3>1. f[m + 1].done \/ Len(f[m + 1].argv) = Len(f[m].argv) + 1
      BY <2>2, <2>5, TurnWalks
    <3>2. Len(f[m].argv) \in Nat
      BY <2>2, LenProperties DEF Walk, Parsing, Parsed, Tokens
    <3>3. QED
      BY <2>2, <2>3, <2>5, <3>1, <3>2 DEF Stuck
  <2>6. QED
    BY <2>4, <2>5
<1> HIDE DEF T
<1>4. MAX_ARGS \in T
  BY <1>0, <1>2, <1>3, AllNumbers
<1>5. Walk(p, line) /\ (Stuck(p, line) \/ Len(p.argv) >= MAX_ARGS)
  BY <1>0, <1>1, <1>4 DEF T
<1>6. /\ p.argv \in Tokens /\ Len(p.argv) \in Nat /\ Len(p.argv) <= MAX_ARGS - 1 /\ p.i \in Nat
      /\ ~p.done => p.i <= Len(line)
  BY <1>5, LenProperties DEF Walk, Parsing, Parsed, Tokens
<1>7. Stuck(p, line)
  BY <1>0, <1>5, <1>6
<1>8. PICK at : WordsAt(p.argv, line, at) /\ Reached(p, line) = {at[x] : x \in 1 .. Len(p.argv)}
  BY <1>5 DEF Walk
<1>9. Reached(p, line) = Starts(line)
  <2> SUFFICES ASSUME ~p.done, NEW k \in Starts(line) PROVE k < p.i
    BY DEF Reached
  <2>1. k \in Nat /\ k < Len(line) /\ k < MAX_LINEL - MAX_ARGLEN
    BY StartsAre, WordIs
  <2>2. Len(line) \in Nat /\ \A x \in Nat : x < Len(line) => At(line, x) # NUL
    BY OrdinaryBytes
  <2>3. CASE At(line, p.i) = NUL
    <3>1. ~(p.i < Len(line))
      BY <1>6, <2>2, <2>3
    <3>2. QED
      BY <1>6, <2>1, <2>2, <3>1
  <2>4. CASE p.i >= MAX_LINEL - MAX_ARGLEN
    <3>1. MAX_LINEL - MAX_ARGLEN \in Nat
      BY CmdLineAssumption
    <3>2. QED
      BY <1>6, <2>1, <2>4, <3>1
  <2>5. QED
    BY <1>7, <2>3, <2>4 DEF Stuck
<1>10. QED
  BY <1>5, <1>8, <1>9 DEF p

\* They are all the numbers of the set.
Covers(at, n, S) == S = {at[x] : x \in 1 .. n}

\* Numbers that go upwards are told apart by their order.
Upwards(n, S, at) ==
  /\ at \in [1 .. n -> S] /\ Len(at) = n
  /\ \A x \in 1 .. n : at[x] \in S /\ at[x] \in Nat
  /\ \A x, y \in 1 .. n : (x < y <=> at[x] < at[y]) /\ (at[x] = at[y] => x = y)

LEMMA IncreasingIs ==
  ASSUME NEW S, S \subseteq Nat, NEW n \in Nat, NEW at \in Increasing(n, S)
  PROVE  Upwards(n, S, at)
<1>1. at \in [1 .. n -> S] /\ \A x, y \in 1 .. n : x < y => at[x] < at[y]
  BY DEF Increasing
<1>2. Len(at) = n
  BY <1>1, IsASeq, LenProperties
<1>3. \A x \in 1 .. n : at[x] \in S /\ at[x] \in Nat
  BY <1>1
<1>4. ASSUME NEW x \in 1 .. n, NEW y \in 1 .. n
      PROVE  (x < y <=> at[x] < at[y]) /\ (at[x] = at[y] => x = y)
  <2>1. x < y \/ x = y \/ y < x
    OBVIOUS
  <2>2. (x < y => at[x] < at[y]) /\ (y < x => at[y] < at[x]) /\ at[x] \in Nat /\ at[y] \in Nat
    BY <1>1, <1>3
  <2>3. QED
    BY <2>1, <2>2
<1>5. QED
  BY <1>1, <1>2, <1>3, <1>4 DEF Upwards

\* Without two of them.
IsCut(at, S, n, x, argv, words) ==
  /\ Cut(at, x) \in Increasing(n - 2, S \ {at[x + 1], at[x + 2]})
  /\ {Cut(at, x)[y] : y \in 1 .. n - 2} = {at[y] : y \in 1 .. n} \ {at[x + 1], at[x + 2]}
  /\ \A y \in 1 .. x : Cut(at, x)[y] = at[y]
  /\ Len(Cut(argv, x)) = n - 2 /\ DOMAIN Cut(argv, x) = 1 .. n - 2
  /\ \A y \in 1 .. n - 2 : Cut(argv, x)[y] = words[Cut(at, x)[y]]

LEMMA CutIs ==
  ASSUME NEW S, S \subseteq Nat, NEW n \in Nat, NEW at \in Increasing(n, S),
         NEW x \in Nat, x + 1 < n, NEW argv, Len(argv) = n, NEW words,
         \A y \in 1 .. n : argv[y] = words[at[y]]
  PROVE  IsCut(at, S, n, x, argv, words)
<1> DEFINE c == Cut(at, x)
           gone == {at[x + 1], at[x + 2]}
<1>1. /\ Len(at) = n
      /\ \A y \in 1 .. n : at[y] \in S /\ at[y] \in Nat
      /\ \A y, z \in 1 .. n : (y < z <=> at[y] < at[z]) /\ (at[y] = at[z] => y = z)
  <2>1. Upwards(n, S, at)
    BY IncreasingIs
  <2>2. QED
    BY <2>1 DEF Upwards
<1>2. n - 2 \in Nat /\ x + 1 \in 1 .. n /\ x + 2 \in 1 .. n
      /\ \A y \in 1 .. n - 2 : y \in 1 .. n /\ y + 2 \in 1 .. n
  OBVIOUS
<1>3. DOMAIN c = 1 .. n - 2 /\ c = [y \in 1 .. n - 2 |-> IF y <= x THEN at[y] ELSE at[y + 2]]
  BY <1>1 DEF Cut
<1>4. \A y \in 1 .. n - 2 : c[y] = IF y <= x THEN at[y] ELSE at[y + 2]
  BY <1>3
<1> HIDE DEF c
<1>5. \A y \in 1 .. n - 2 : c[y] \in S \ gone
  <2> SUFFICES ASSUME NEW y \in 1 .. n - 2 PROVE c[y] \in S \ gone
    OBVIOUS
  <2>1. CASE y <= x
    <3>1. c[y] = at[y] /\ y # x + 1 /\ y # x + 2 /\ y \in 1 .. n
      BY <1>2, <1>4, <2>1
    <3>2. QED
      BY <1>1, <1>2, <3>1
  <2>2. CASE ~(y <= x)
    <3>1. c[y] = at[y + 2] /\ y + 2 # x + 1 /\ y + 2 # x + 2 /\ y + 2 \in 1 .. n
      BY <1>2, <1>4, <2>2
    <3>2. QED
      BY <1>1, <1>2, <3>1
  <2>3. QED
    BY <2>1, <2>2
<1>6. ASSUME NEW y \in 1 .. n - 2, NEW z \in 1 .. n - 2, y < z PROVE c[y] < c[z]
  <2>1. CASE z <= x
    <3>1. c[y] = at[y] /\ c[z] = at[z]
      BY <1>4, <1>6, <2>1
    <3>2. QED
      BY <1>1, <1>2, <1>6, <3>1
  <2>2. CASE ~(z <= x) /\ y <= x
    <3>1. c[y] = at[y] /\ c[z] = at[z + 2] /\ y < z + 2
      BY <1>4, <1>6, <2>2
    <3>2. QED
      BY <1>1, <1>2, <3>1
  <2>3. CASE ~(y <= x)
    <3>1. c[y] = at[y + 2] /\ c[z] = at[z + 2] /\ y + 2 < z + 2
      BY <1>4, <1>6, <2>3
    <3>2. QED
      BY <1>1, <1>2, <3>1
  <2>4. QED
    BY <2>1, <2>2, <2>3
<1>7. c \in Increasing(n - 2, S \ gone)
  <2>1. c \in [1 .. n - 2 -> S \ gone]
    BY <1>3, <1>5
  <2>2. QED
    BY <1>6, <2>1 DEF Increasing
<1>8. {c[y] : y \in 1 .. n - 2} = {at[y] : y \in 1 .. n} \ gone
  <2>1. \A y \in 1 .. n - 2 : c[y] \in {at[z] : z \in 1 .. n} \ gone
    <3> SUFFICES ASSUME NEW y \in 1 .. n - 2 PROVE c[y] \in {at[z] : z \in 1 .. n}
      BY <1>5
    <3>1. c[y] = at[y] \/ c[y] = at[y + 2]
      BY <1>4
    <3>2. QED
      BY <1>2, <3>1
  <2>2. \A y \in 1 .. n : at[y] \notin gone => at[y] \in {c[z] : z \in 1 .. n - 2}
    <3> SUFFICES ASSUME NEW y \in 1 .. n, at[y] \notin gone PROVE at[y] \in {c[z] : z \in 1 .. n - 2}
      OBVIOUS
    <3>1. y # x + 1 /\ y # x + 2
      OBVIOUS
    <3>2. CASE y <= x
      <4>1. y \in 1 .. n - 2 /\ c[y] = at[y]
        <5>1. y \in 1 .. n - 2
          BY <3>2
        <5>2. QED
          BY <1>4, <3>2, <5>1
      <4>2. QED
        BY <4>1
    <3>3. CASE ~(y <= x)
      <4>1. y - 2 \in 1 .. n - 2 /\ ~(y - 2 <= x) /\ (y - 2) + 2 = y
        BY <3>1, <3>3
      <4>2. c[y - 2] = at[y]
        BY <1>4, <4>1
      <4>3. QED
        BY <4>1, <4>2
    <3>4. QED
      BY <3>2, <3>3
  <2>3. QED
    BY <2>1, <2>2
<1>9. /\ DOMAIN Cut(argv, x) = 1 .. n - 2
      /\ \A y \in 1 .. n - 2 : Cut(argv, x)[y] = IF y <= x THEN argv[y] ELSE argv[y + 2]
  BY DEF Cut
<1>10. \A y \in 1 .. n - 2 : Cut(argv, x)[y] = words[c[y]]
  BY <1>2, <1>4, <1>9
<1>11. Len(Cut(argv, x)) = n - 2
  <2>1. Cut(argv, x) = [y \in 1 .. n - 2 |-> Cut(argv, x)[y]]
    BY <1>9 DEF Cut
  <2>2. Cut(argv, x) \in Seq({Cut(argv, x)[y] : y \in 1 .. n - 2})
    BY <1>2, <2>1, IsASeq
  <2>3. QED
    BY <1>2, <1>9, <2>2, LenProperties
<1>12. \A y \in 1 .. x : c[y] = at[y]
  BY <1>4
<1>13. QED
  BY <1>7, <1>8, <1>9, <1>10, <1>11, <1>12 DEF c, IsCut

\* Where the first '<' or '>' is, and what stands behind it.
LEMMA SignsAre ==
  ASSUME NEW line \in Lines, NEW argv \in Tokens, NEW at, WordsAt(argv, line, at),
         Covers(at, Len(argv), Starts(line)),
         NEW sign, NEW j \in Nat, Found(argv, sign, j),
         j > 0 => j < Len(argv) /\ argv[j + 1] = <<sign>>,
         \A s \in Signs(Words(line), sign) : \E t \in Starts(line) : t < s
  PROVE  Signs(Words(line), sign) = IF j = 0 THEN {} ELSE {at[j + 1]}
<1> DEFINE n == Len(argv)
           words == Words(line)
<1>1. n \in Nat /\ Starts(line) \subseteq Nat
  BY StartsAre, LenProperties DEF Tokens
<1>2. DOMAIN words = Starts(line) /\ \A s \in Starts(line) : words[s] = Word(line, s)
  BY DEF Words
<1>3. /\ at \in Increasing(n, Starts(line))
      /\ \A x \in 1 .. n : argv[x] = Word(line, at[x])
  BY DEF WordsAt
<1> HIDE DEF words, n
<1>4. /\ \A x \in 1 .. n : at[x] \in Starts(line) /\ at[x] \in Nat
      /\ \A x, y \in 1 .. n : (x < y <=> at[x] < at[y]) /\ (at[x] = at[y] => x = y)
  <2>1. Upwards(n, Starts(line), at)
    BY <1>1, <1>3, IncreasingIs
  <2>2. QED
    BY <2>1 DEF Upwards
<1>5. \A x \in 1 .. n : words[at[x]] = argv[x]
  BY <1>2, <1>3, <1>4
<1>6. \A s \in Starts(line) : \E x \in 1 .. n : s = at[x]
  BY DEF n, Covers
<1>7. \A x \in 2 .. n : argv[x] = <<sign>> => j > 0 /\ j < x
  BY DEF Found, n
<1>8. \A s : s \in Signs(words, sign) <=>
               /\ s \in Starts(line) /\ words[s] = <<sign>>
               /\ \A t \in Starts(line) : t < s => words[t] # <<sign>>
  BY <1>2 DEF Signs
<1>9. ASSUME n >= 1 PROVE argv[1] # <<sign>>
  <2> SUFFICES ASSUME argv[1] = <<sign>> PROVE FALSE
    OBVIOUS
  <2>1. 1 \in 1 .. n
    BY <1>1, <1>9
  <2>2. \A t \in Starts(line) : ~(t < at[1])
    <3> SUFFICES ASSUME NEW t \in Starts(line), t < at[1] PROVE FALSE
      OBVIOUS
    <3>1. PICK x \in 1 .. n : t = at[x]
      BY <1>6
    <3>2. x < 1
      BY <1>4, <2>1, <3>1
    <3>3. QED
      BY <1>1, <3>2
  <2>3. at[1] \in Signs(words, sign)
    BY <1>4, <1>5, <1>8, <2>1, <2>2
  <2>4. QED
    BY <2>2, <2>3 DEF words
<1>10. ASSUME NEW x \in 1 .. n, argv[x] = <<sign>> PROVE j > 0 /\ j < x
  <2>1. x # 1
    BY <1>1, <1>9, <1>10
  <2>2. x \in 2 .. n
    BY <1>1, <2>1
  <2>3. QED
    BY <1>7, <1>10, <2>2
<1>11. ASSUME NEW s \in Signs(words, sign) PROVE j > 0 /\ s = at[j + 1]
  <2>1. PICK x \in 1 .. n : s = at[x]
    BY <1>6, <1>8
  <2>2. argv[x] = <<sign>> /\ j > 0 /\ j < x
    BY <1>5, <1>8, <1>10, <2>1
  <2>3. j + 1 \in 1 .. n /\ argv[j + 1] = <<sign>>
    BY <1>1, <2>2 DEF n
  <2>4. ~(j + 1 < x)
    <3>1. words[at[j + 1]] = <<sign>> /\ at[j + 1] \in Starts(line)
      BY <1>4, <1>5, <2>3
    <3>2. ~(at[j + 1] < s)
      BY <1>8, <3>1
    <3>3. QED
      BY <1>4, <2>1, <2>3, <3>2
  <2>5. x = j + 1
    BY <1>1, <2>2, <2>4
  <2>6. QED
    BY <2>1, <2>2, <2>5
<1>12. ASSUME j > 0 PROVE at[j + 1] \in Signs(words, sign)
  <2>1. j + 1 \in 1 .. n /\ argv[j + 1] = <<sign>>
    BY <1>1, <1>12 DEF n
  <2>2. words[at[j + 1]] = <<sign>> /\ at[j + 1] \in Starts(line)
    BY <1>4, <1>5, <2>1
  <2>3. ASSUME NEW t \in Starts(line), t < at[j + 1], words[t] = <<sign>> PROVE FALSE
    <3>1. PICK x \in 1 .. n : t = at[x]
      BY <1>6
    <3>2. x < j + 1
      BY <1>4, <2>1, <2>3, <3>1
    <3>3. argv[x] = <<sign>>
      BY <1>5, <2>3, <3>1
    <3>4. j < x
      BY <1>10, <3>3
    <3>5. QED
      BY <1>1, <3>2, <3>4
  <2>4. QED
    BY <1>8, <2>2, <2>3
<1>13. QED
  BY <1>11, <1>12 DEF words

LEMMA NextToIs ==
  ASSUME NEW line \in Lines, NEW n \in Nat, NEW at \in Increasing(n, Starts(line)),
         Covers(at, n, Starts(line)), NEW x \in Nat, x > 0, x < n
  PROVE  NextTo(Words(line), at[x]) = {at[x + 1]}
<1>1. DOMAIN Words(line) = Starts(line)
  BY DEF Words
<1>2. Starts(line) \subseteq Nat
  BY StartsAre
<1>3. /\ \A y \in 1 .. n : at[y] \in Starts(line) /\ at[y] \in Nat
      /\ \A y, z \in 1 .. n : (y < z <=> at[y] < at[z]) /\ (at[y] = at[z] => y = z)
  BY <1>2, IncreasingIs DEF Upwards
<1>4. x \in 1 .. n /\ x + 1 \in 1 .. n
  OBVIOUS
<1>5. \A t : t \in NextTo(Words(line), at[x]) <=>
               t \in Starts(line) /\ at[x] < t /\ \A u \in Starts(line) : u > at[x] => t <= u
  BY <1>1 DEF NextTo
<1>6. ASSUME NEW u \in Starts(line), u > at[x] PROVE at[x + 1] <= u
  <2>1. PICK y \in 1 .. n : u = at[y]
    BY DEF Covers
  <2>2. x < y
    BY <1>3, <1>4, <1>6, <2>1
  <2>3. y = x + 1 \/ x + 1 < y
    BY <2>2
  <2>4. QED
    BY <1>3, <1>4, <2>1, <2>3
<1>7. at[x + 1] \in NextTo(Words(line), at[x])
  BY <1>3, <1>4, <1>5, <1>6
<1>8. ASSUME NEW t \in NextTo(Words(line), at[x]) PROVE t = at[x + 1]
  <2>1. t \in Starts(line) /\ at[x] < t /\ t <= at[x + 1]
    BY <1>3, <1>4, <1>5
  <2>2. at[x + 1] <= t
    <3>1. t > at[x]
      BY <1>2, <1>3, <1>4, <2>1
    <3>2. QED
      BY <1>6, <2>1, <3>1
  <2>3. QED
    BY <1>2, <1>3, <1>4, <2>1, <2>2
<1>9. QED
  BY <1>7, <1>8

\* The vector is the words of the line that are kept, in their order.
KeepsWords(argv, line, kept) ==
  \E at \in Increasing(Len(argv), kept) :
    /\ kept = {at[x] : x \in 1 .. Len(argv)}
    /\ argv = [x \in 1 .. Len(argv) |-> Words(line)[at[x]]]

IsOneCut(line, kept, n, at, argv, x) ==
  LET gone == {at[x + 1], at[x + 2]}
  IN  /\ KeepsWords(Cut(argv, x), line, kept \ gone)
      /\ Cut(at, x) \in Increasing(n - 2, kept \ gone)
      /\ Covers(Cut(at, x), n - 2, kept \ gone)
      /\ \A y \in 1 .. x : Cut(at, x)[y] = at[y]
      /\ Len(Cut(argv, x)) = n - 2
      /\ \A y \in 1 .. n - 2 : Cut(argv, x)[y] = Words(line)[Cut(at, x)[y]]

LEMMA OneCut ==
  ASSUME NEW line \in Lines, NEW kept, kept \subseteq Nat, NEW n \in Nat,
         NEW at \in Increasing(n, kept), Covers(at, n, kept),
         NEW argv, Len(argv) = n, \A y \in 1 .. n : argv[y] = Words(line)[at[y]],
         NEW x \in Nat, x + 1 < n
  PROVE  IsOneCut(line, kept, n, at, argv, x)
<1> DEFINE words == Words(line)
           gone == {at[x + 1], at[x + 2]}
<1>0. \A y \in 1 .. n : argv[y] = words[at[y]]
  OBVIOUS
<1> HIDE DEF words
<1>1. /\ Cut(at, x) \in Increasing(n - 2, kept \ gone)
      /\ {Cut(at, x)[y] : y \in 1 .. n - 2} = {at[y] : y \in 1 .. n} \ gone
      /\ \A y \in 1 .. x : Cut(at, x)[y] = at[y]
      /\ Len(Cut(argv, x)) = n - 2 /\ DOMAIN Cut(argv, x) = 1 .. n - 2
      /\ \A y \in 1 .. n - 2 : Cut(argv, x)[y] = words[Cut(at, x)[y]]
  <2>1. IsCut(at, kept, n, x, argv, words)
    BY <1>0, CutIs
  <2>2. QED
    BY <2>1 DEF IsCut
<1>2. Cut(argv, x) = [y \in 1 .. n - 2 |-> words[Cut(at, x)[y]]]
  <2>1. Cut(argv, x) = [y \in 1 .. n - 2 |-> Cut(argv, x)[y]]
    BY <1>1 DEF Cut
  <2> DEFINE c == Cut(argv, x)
             d == Cut(at, x)
  <2>2. \A y \in 1 .. n - 2 : c[y] = words[d[y]]
    BY <1>1
  <2>3. c = [y \in 1 .. n - 2 |-> c[y]]
    BY <2>1
  <2> HIDE DEF c, d
  <2>4. c = [y \in 1 .. n - 2 |-> words[d[y]]]
    BY <2>2, <2>3
  <2>5. QED
    BY <2>4 DEF c, d
<1>3. kept \ gone = {Cut(at, x)[y] : y \in 1 .. n - 2}
  BY <1>1 DEF Covers
<1>4. KeepsWords(Cut(argv, x), line, kept \ gone)
  <2> DEFINE c == Cut(argv, x)
             d == Cut(at, x)
             k == kept \ gone
  <2>1. Len(c) = n - 2 /\ d \in Increasing(Len(c), k)
    BY <1>1
  <2>2. k = {d[y] : y \in 1 .. Len(c)} /\ c = [y \in 1 .. Len(c) |-> words[d[y]]]
    BY <1>1, <1>2, <1>3
  <2> HIDE DEF c, d, k
  <2>3. KeepsWords(c, line, k)
    BY <2>1, <2>2 DEF KeepsWords, words
  <2>4. QED
    BY <2>3 DEF c, k
<1>5. Covers(Cut(at, x), n - 2, kept \ gone)
  BY <1>3 DEF Covers
<1>6. QED
  BY <1>1, <1>4, <1>5 DEF words, IsOneCut

LEMMA TwoCuts ==
  ASSUME NEW line \in Lines, NEW kept, kept \subseteq Nat, NEW n \in Nat,
         NEW at \in Increasing(n, kept), Covers(at, n, kept),
         NEW argv, Len(argv) = n, \A y \in 1 .. n : argv[y] = Words(line)[at[y]],
         NEW hi \in Nat, hi + 1 < n, NEW lo \in Nat, hi > lo + 1
  PROVE  KeepsWords(Cut(Cut(argv, hi), lo), line,
                    kept \ {at[hi + 1], at[hi + 2], at[lo + 1], at[lo + 2]})
<1> DEFINE first == {at[hi + 1], at[hi + 2]}
           a == Cut(argv, hi)
           c == Cut(at, hi)
           k == kept \ first
           m == n - 2
<1>1. /\ c \in Increasing(m, k) /\ Covers(c, m, k)
      /\ \A y \in 1 .. hi : c[y] = at[y]
      /\ Len(a) = m /\ \A y \in 1 .. m : a[y] = Words(line)[c[y]]
  <2>1. IsOneCut(line, kept, n, at, argv, hi)
    BY OneCut
  <2>2. QED
    BY <2>1 DEF IsOneCut
<1>2. m \in Nat /\ lo + 1 < m /\ lo + 1 \in 1 .. hi /\ lo + 2 \in 1 .. hi /\ k \subseteq Nat
  <2>1. k \subseteq Nat
    OBVIOUS
  <2>2. hi + 1 < n /\ hi > lo + 1
    OBVIOUS
  <2> HIDE DEF c, a, k
  <2>3. m \in Nat /\ lo + 1 < m /\ lo + 1 \in 1 .. hi /\ lo + 2 \in 1 .. hi
    BY <2>2
  <2>4. QED
    BY <2>1, <2>3
<1>3. c[lo + 1] = at[lo + 1] /\ c[lo + 2] = at[lo + 2]
  BY <1>1, <1>2
<1>4. k \ {at[lo + 1], at[lo + 2]} = kept \ {at[hi + 1], at[hi + 2], at[lo + 1], at[lo + 2]}
  OBVIOUS
<1> HIDE DEF c, a, k, m
<1>5. KeepsWords(Cut(a, lo), line, k \ {c[lo + 1], c[lo + 2]})
  <2>1. IsOneCut(line, k, m, c, a, lo)
    BY <1>1, <1>2, OneCut
  <2>2. QED
    BY <2>1 DEF IsOneCut
<1>6. QED
  BY <1>3, <1>4, <1>5 DEF a

LEMMA LeftIsWords ==
  ASSUME NEW line \in Lines, NEW p, Walk(p, line), Apart(p), NEW at,
         WordsAt(p.argv, line, at), Covers(at, Len(p.argv), Starts(line)),
         \A s \in Redirections(Words(line)) : \E t \in Starts(line) : t < s
  PROVE  KeepsWords(Left(p), line, Starts(line) \ Redirections(Words(line)))
<1> DEFINE words == Words(line)
           n == Len(p.argv)
           in == p.inredir_j
           out == p.outredir_j
           A == Signs(words, "<")
           B == Signs(words, ">")
           gone == Redirections(words)
<1>1. /\ p.argv \in Tokens /\ n \in Nat /\ in \in Nat /\ out \in Nat
      /\ Starts(line) \subseteq Nat /\ DOMAIN words = Starts(line)
  BY StartsAre, LenProperties DEF Walk, Parsing, Parsed, Tokens, Words
<1>2. gone = UNION {{s} \cup NextTo(words, s) : s \in A \cup B}
  BY DEF Redirections
<1>3. A \subseteq gone /\ B \subseteq gone
  BY <1>2
<1>4. in > 0 => in + 1 < n /\ p.argv[in + 1] = <<"<">>
  BY <1>1 DEF Walk, Parsing, Apart
<1>5. out > 0 => out + 1 < n /\ p.argv[out + 1] = <<">">>
  BY <1>1 DEF Walk, Parsing, Apart
<1>6. A = IF in = 0 THEN {} ELSE {at[in + 1]}
  <2>1. Found(p.argv, "<", in) /\ \A s \in A : \E t \in Starts(line) : t < s
    BY <1>3 DEF Walk
  <2>2. in > 0 => in < Len(p.argv) /\ p.argv[in + 1] = <<"<">>
    BY <1>1, <1>4
  <2>3. QED
    BY <1>1, <2>1, <2>2, SignsAre
<1>7. B = IF out = 0 THEN {} ELSE {at[out + 1]}
  <2>1. Found(p.argv, ">", out) /\ \A s \in B : \E t \in Starts(line) : t < s
    BY <1>3 DEF Walk
  <2>2. out > 0 => out < Len(p.argv) /\ p.argv[out + 1] = <<">">>
    BY <1>1, <1>5
  <2>3. QED
    BY <1>1, <2>1, <2>2, SignsAre
<1>8. at \in Increasing(n, Starts(line)) /\ \A x \in 1 .. n : p.argv[x] = words[at[x]]
  <2>1. /\ at \in Increasing(n, Starts(line))
        /\ \A x \in 1 .. n : p.argv[x] = Word(line, at[x])
    BY DEF WordsAt
  <2>2. \A x \in 1 .. n : at[x] \in Starts(line)
    BY DEF Covers
  <2>3. QED
    BY <2>1, <2>2 DEF Words
<1>9. ASSUME NEW j \in Nat, j > 0, j + 1 < n PROVE NextTo(words, at[j + 1]) = {at[j + 2]}
  <2> DEFINE m == Len(p.argv)
             x == j + 1
  <2>1. x \in Nat /\ x > 0 /\ x < m /\ x + 1 = j + 2
    BY <1>9
  <2>2. at \in Increasing(m, Starts(line)) /\ m \in Nat /\ Covers(at, m, Starts(line))
    BY <1>1, <1>8
  <2> HIDE DEF m, x
  <2>3. NextTo(Words(line), at[x]) = {at[x + 1]}
    BY <2>1, <2>2, NextToIs
  <2>4. QED
    BY <2>1, <2>3 DEF x
<1>10. in > 0 => NextTo(words, at[in + 1]) = {at[in + 2]}
  BY <1>1, <1>4, <1>9
<1>11. out > 0 => NextTo(words, at[out + 1]) = {at[out + 2]}
  BY <1>1, <1>5, <1>9
<1>12. Covers(at, n, Starts(line))
  OBVIOUS
<1> HIDE DEF words, n, in, out, A, B, gone
<1>13. CASE in = 0 /\ out = 0
  <2>1. Left(p) = p.argv
    BY <1>13 DEF Left, in, out
  <2>2. Starts(line) \ gone = Starts(line)
    BY <1>2, <1>6, <1>7, <1>13
  <2>3. p.argv = [x \in 1 .. n |-> words[at[x]]]
    <3>1. p.argv = [x \in 1 .. n |-> p.argv[x]]
      BY <1>1, LenProperties DEF Tokens, n
    <3>2. QED
      BY <1>8, <3>1
  <2>4. KeepsWords(p.argv, line, Starts(line))
    BY <1>8, <1>12, <2>3 DEF KeepsWords, words, n, Covers
  <2>5. QED
    BY <2>1, <2>2, <2>4 DEF gone, words
<1>14. ASSUME NEW j \in Nat, j > 0, j + 1 < n, gone = {at[j + 1], at[j + 2]}
       PROVE  KeepsWords(Cut(p.argv, j), line, Starts(line) \ gone)
  <2>1. KeepsWords(Cut(p.argv, j), line, Starts(line) \ {at[j + 1], at[j + 2]})
    <3>1. Len(p.argv) = n /\ \A x \in 1 .. n : p.argv[x] = Words(line)[at[x]]
      BY <1>8 DEF n, words
    <3>2. QED
      <4>1. IsOneCut(line, Starts(line), n, at, p.argv, j)
        BY <1>1, <1>8, <1>12, <1>14, <3>1, OneCut
      <4>2. QED
        BY <4>1 DEF IsOneCut
  <2>2. QED
    BY <1>14, <2>1
<1>15. CASE in # 0 /\ out = 0
  <2>1. gone = {at[in + 1], at[in + 2]}
    BY <1>1, <1>2, <1>6, <1>7, <1>10, <1>15
  <2>2. KeepsWords(Cut(p.argv, in), line, Starts(line) \ gone)
    <3>1. in \in Nat /\ in > 0 /\ in + 1 < n
      BY <1>1, <1>4, <1>15
    <3>2. QED
      BY <1>14, <2>1, <3>1
  <2>3. Left(p) = Cut(p.argv, in)
    BY <1>15 DEF Left, in, out
  <2>4. QED
    BY <2>2, <2>3 DEF gone, words
<1>16. CASE in = 0 /\ out # 0
  <2>1. gone = {at[out + 1], at[out + 2]}
    BY <1>1, <1>2, <1>6, <1>7, <1>11, <1>16
  <2>2. KeepsWords(Cut(p.argv, out), line, Starts(line) \ gone)
    <3>1. out \in Nat /\ out > 0 /\ out + 1 < n
      BY <1>1, <1>5, <1>16
    <3>2. QED
      BY <1>14, <2>1, <3>1
  <2>3. Left(p) = Cut(p.argv, out)
    BY <1>16 DEF Left, in, out
  <2>4. QED
    BY <2>2, <2>3 DEF gone, words
<1>17. CASE in # 0 /\ out # 0
  <2>1. gone = {at[in + 1], at[in + 2], at[out + 1], at[out + 2]}
    <3>1. NextTo(words, at[in + 1]) = {at[in + 2]} /\ NextTo(words, at[out + 1]) = {at[out + 2]}
          /\ A = {at[in + 1]} /\ B = {at[out + 1]}
      BY <1>1, <1>6, <1>7, <1>10, <1>11, <1>17
    <3>2. A \cup B = {at[in + 1], at[out + 1]}
      BY <3>1
    <3>3. QED
      BY <1>2, <3>1, <3>2
  <2>2. Len(p.argv) = n /\ \A x \in 1 .. n : p.argv[x] = Words(line)[at[x]]
    BY <1>8 DEF n, words
  <2>3. in > out + 1 \/ out > in + 1
    BY <1>1, <1>17 DEF Apart, in, out
  <2>4. ASSUME NEW hi \in Nat, NEW lo \in Nat, hi + 1 < n, hi > lo + 1,
               gone = {at[hi + 1], at[hi + 2], at[lo + 1], at[lo + 2]}
        PROVE  KeepsWords(Cut(Cut(p.argv, hi), lo), line, Starts(line) \ gone)
    <3>1. KeepsWords(Cut(Cut(p.argv, hi), lo), line,
                     Starts(line) \ {at[hi + 1], at[hi + 2], at[lo + 1], at[lo + 2]})
      BY <1>1, <1>8, <1>12, <2>2, <2>4, TwoCuts
    <3>2. QED
      BY <2>4, <3>1
  <2>5. CASE in > out + 1
    <3>1. Left(p) = Cut(Cut(p.argv, in), out)
      <4>1. in > out
        BY <1>1, <2>5
      <4>2. QED
        BY <1>17, <4>1 DEF Left, in, out
    <3>2. KeepsWords(Cut(Cut(p.argv, in), out), line, Starts(line) \ gone)
      <4>1. in \in Nat /\ out \in Nat /\ in + 1 < n
        BY <1>1, <1>4, <1>17
      <4>2. QED
        BY <2>1, <2>4, <2>5, <4>1
    <3>3. QED
      BY <3>1, <3>2 DEF gone, words
  <2>6. CASE out > in + 1
    <3>1. Left(p) = Cut(Cut(p.argv, out), in)
      <4>1. ~(in > out)
        BY <1>1, <2>6
      <4>2. QED
        BY <1>17, <4>1 DEF Left, in, out
    <3>2. gone = {at[out + 1], at[out + 2], at[in + 1], at[in + 2]}
      BY <2>1
    <3>3. KeepsWords(Cut(Cut(p.argv, out), in), line, Starts(line) \ gone)
      <4>1. in \in Nat /\ out \in Nat /\ out + 1 < n
        BY <1>1, <1>5, <1>17
      <4>2. QED
        BY <2>4, <2>6, <3>2, <4>1
    <3>4. QED
      BY <3>1, <3>3 DEF gone, words
  <2>7. QED
    BY <2>3, <2>5, <2>6
<1>18. QED
  BY <1>13, <1>15, <1>16, <1>17

\* An ordinary line is cut into its words.
LEMMA ParsedIsWords ==
  ASSUME NEW line \in Lines, parse_cmdbuf(line).count # -1
  PROVE  WordsOf(parse_cmdbuf(line).argv, line)
<1> DEFINE p == ParseTokens(Start(line))
           argv == parse_cmdbuf(line).argv
           kept == Starts(line) \ Redirections(Words(line))
<1>1. Apart(p) /\ argv = Left(p)
  BY parse_cmdbufIs
<1>2. DOMAIN Words(line) = Starts(line)
  BY DEF Words
<1> HIDE DEF argv
<1>3. ASSUME Ordinary(line), \A s \in Redirections(Words(line)) : \E t \in Starts(line) : t < s
      PROVE  KeepsWords(argv, line, kept)
  <2>1. /\ Walk(p, line)
        /\ \E at : WordsAt(p.argv, line, at) /\ Covers(at, Len(p.argv), Starts(line))
    BY <1>3, LoopWalks DEF Covers
  <2> HIDE DEF p
  <2>2. KeepsWords(Left(p), line, kept)
    BY <1>1, <1>3, <2>1, LeftIsWords
  <2>3. QED
    BY <1>1, <2>2
<1>4. WordsOf(argv, line)
  BY <1>2, <1>3 DEF WordsOf, KeepsWords
<1>5. QED
  BY <1>4 DEF argv

LEMMA CutAlways == ASSUME CmdInv PROVE CmdTypes /\ TokensAreWords /\ CountIsLength
<1>1. CmdTypes
  <2>1. cmd.count \in -1 .. MAX_ARGS - 1 /\ Len(cmd.argv) < MAX_ARGS
    BY CountIs DEF CmdInv, Buffers
  <2>2. \A i \in Ring : history[i].pid \in {UNSUPPORT_ERR, SYNTAX_ERR, EXEC_FAILED, INTERNAL, Pid}
    BY DEF CmdInv, Buffers, Entry, INTERNAL
  <2>3. QED
    BY <2>1, <2>2 DEF CmdInv, Buffers, CmdTypes
<1>2. CountIsLength
  BY CountIs DEF CmdInv, Buffers, CountIsLength
<1>3. TokensAreWords
  <2> SUFFICES ASSUME place = "main", cmd.count > 0
               PROVE  WordsOf(cmd.argv, history[last_cmd].raw)
    BY DEF TokensAreWords
  <2>1. cmd = parse_cmdbuf(history[last_cmd].raw)
    BY DEF CmdInv, CmdParsed
  <2>2. history[last_cmd].raw \in Lines
    BY DEF CmdInv, Buffers, Entry
  <2>3. parse_cmdbuf(history[last_cmd].raw).count # -1
    BY <2>1
  <2>4. QED
    BY <2>1, <2>2, <2>3, ParsedIsWords
<1>4. QED
  BY <1>1, <1>2, <1>3

(***************************************************************************)
(* "! num"                                                                 *)
(***************************************************************************)
Value(word, n, f) ==
  f = [k \in 0 .. n |-> IF k = 0 THEN 0 ELSE 10 * f[k - 1] + Digits[word[k]]]

LEMMA AtoiIs ==
  ASSUME NEW d \in {"1", "2", "3"} PROVE Atoi(<<d>>) = Digits[d] /\ Digits[d] \in Nat /\ Digits[d] > 0
<1> DEFINE word == <<d>>
           S == {k \in 0 .. Len(word) : k = Len(word) \/ word[k + 1] \notin DOMAIN Digits}
           n == Least(S)
           f == CHOOSE f : Value(word, n, f)
           g == [k \in 0 .. 1 |-> IF k = 0 THEN 0 ELSE Digits[d]]
<1>1. Digits[d] \in Nat /\ Digits[d] > 0 /\ d \in DOMAIN Digits
  BY DEF Digits
<1>2. Len(word) = 1 /\ word[1] = d
  OBVIOUS
<1>3. Atoi(word) = f[n]
  BY DEF Atoi, Value
<1>4. n = 1
  <2>1. S \subseteq Nat /\ 1 \in S /\ 0 \notin S /\ \A k \in S : k <= 1
    BY <1>1, <1>2
  <2> HIDE DEF S
  <2>2. n \in S
    BY <2>1, LeastIs
  <2> HIDE DEF n
  <2>3. QED
    BY <2>1, <2>2
<1>5. Value(word, 1, g)
  <2>1. \A k \in 0 .. 1 : g[k] = IF k = 0 THEN 0 ELSE 10 * g[k - 1] + Digits[word[k]]
    BY <1>1, <1>2
  <2>2. g = [k \in 0 .. 1 |-> g[k]]
    OBVIOUS
  <2> HIDE DEF g
  <2>3. QED
    BY <2>1, <2>2 DEF Value
<1> HIDE DEF n, word
<1>6. Value(word, 1, f)
  BY <1>4, <1>5
<1> HIDE DEF f, g
<1>7. f[0] = 0 /\ f[1] = 10 * f[0] + Digits[word[1]]
  <2>1. 0 \in 0 .. 1 /\ 1 \in 0 .. 1 /\ 1 - 1 = 0
    OBVIOUS
  <2>2. \A k \in 0 .. 1 : f[k] = IF k = 0 THEN 0 ELSE 10 * f[k - 1] + Digits[word[k]]
    BY <1>6 DEF Value
  <2>3. QED
    BY <2>1, <2>2
<1>8. QED
  BY <1>1, <1>2, <1>3, <1>4, <1>7 DEF word

\* The bytes and the words of "! d".
LEMMA RepeatLine ==
  ASSUME NEW d \in {"1", "2", "3"}, NEW line \in Lines, line = <<"!", "sp", d>>
  PROVE  /\ Ordinary(line) /\ Starts(line) = {0, 2}
         /\ Word(line, 0) = <<"!">> /\ Word(line, 2) = <<d>>
<1>1. /\ Len(line) = 3 /\ At(line, 0) = "!" /\ At(line, 1) = "sp" /\ At(line, 2) = d
      /\ At(line, 3) = NUL
      /\ line[1] = "!" /\ line[2] = "sp" /\ line[3] = d
  BY DEF At
<1>2. d # "quote" /\ d \notin Blanks /\ Printing(d) /\ Printing("!")
  BY DEF Blanks, Printing, NUL
<1>3. \A k \in 0 .. 3 : ~In(line, k)
  <2> SUFFICES ASSUME NEW k \in 0 .. 3 PROVE ~In(line, k)
    OBVIOUS
  <2>1. \A q \in 0 .. k - 1 : At(line, q) # "quote"
    <3> SUFFICES ASSUME NEW q \in 0 .. k - 1 PROVE At(line, q) # "quote"
      OBVIOUS
    <3>1. q = 0 \/ q = 1 \/ q = 2
      OBVIOUS
    <3>2. QED
      BY <1>1, <1>2, <3>1
  <2>2. In(line, k) = In(line, 0)
    BY <2>1, InStays
  <2>3. QED
    BY <2>2, InIs
<1>4. ~Delimiter(line, 0) /\ Delimiter(line, 1) /\ ~Delimiter(line, 2)
  <2>1. 0 \in 0 .. 3 /\ 1 \in 0 .. 3 /\ 2 \in 0 .. 3
    OBVIOUS
  <2>2. ~In(line, 0) /\ ~In(line, 1) /\ ~In(line, 2)
    BY <1>3, <2>1
  <2>3. At(line, 0) \notin Blanks /\ At(line, 1) \in Blanks /\ At(line, 2) \notin Blanks
    BY <1>1, <1>2 DEF Blanks
  <2>4. QED
    BY <2>2, <2>3, Zenon DEF Delimiter, In
<1>5. Starts(line) = {0, 2}
  <2>1. 0 .. Len(line) - 1 = {0, 1, 2}
    BY <1>1
  <2>2. 2 - 1 = 1 /\ 1 - 1 = 0 /\ 0 # 2
    OBVIOUS
  <2>3. QED
    BY <1>4, <2>1, <2>2 DEF Starts
<1>6. EndOf(line, 0) = 1
  <2>1. /\ EndOf(line, 0) \in Nat /\ EndOf(line, 0) <= 3
        /\ EndOf(line, 0) = 3 \/ Delimiter(line, EndOf(line, 0))
        /\ \A k \in Nat : 0 <= k /\ k < EndOf(line, 0) => ~Delimiter(line, k)
    <3>1. 0 \in Nat /\ 0 <= Len(line)
      BY <1>1
    <3>2. /\ EndOf(line, 0) \in Nat /\ EndOf(line, 0) <= Len(line)
          /\ EndOf(line, 0) = Len(line) \/ Delimiter(line, EndOf(line, 0))
          /\ \A k \in Nat : 0 <= k /\ k < EndOf(line, 0) => ~Delimiter(line, k)
      BY <3>1, EndOfIs
    <3>3. QED
      BY <1>1, <3>2
  <2>2. EndOf(line, 0) # 0
    BY <1>4, <2>1
  <2>3. ~(1 < EndOf(line, 0))
    BY <1>4, <2>1
  <2>4. QED
    BY <2>1, <2>2, <2>3
<1>7. EndOf(line, 2) = 3
  <2>1. /\ EndOf(line, 2) \in Nat /\ 2 <= EndOf(line, 2) /\ EndOf(line, 2) <= 3
        /\ EndOf(line, 2) = 3 \/ Delimiter(line, EndOf(line, 2))
    <3>1. 2 \in Nat /\ 2 <= Len(line)
      BY <1>1
    <3>2. /\ EndOf(line, 2) \in Nat /\ 2 <= EndOf(line, 2) /\ EndOf(line, 2) <= Len(line)
          /\ EndOf(line, 2) = Len(line) \/ Delimiter(line, EndOf(line, 2))
      BY <3>1, EndOfIs
    <3>3. QED
      BY <1>1, <3>2
  <2>2. EndOf(line, 2) # 2
    BY <1>4, <2>1
  <2>3. QED
    BY <2>1, <2>2
<1>8. Word(line, 0) = <<"!">> /\ Word(line, 2) = <<d>>
  <2>1. Word(line, 0) = SubSeq(line, 0 + 1, 1) /\ Word(line, 2) = SubSeq(line, 2 + 1, 3)
    BY <1>1, <1>2, <1>6, <1>7 DEF Word
  <2>2. ASSUME NEW i \in 1 .. 3 PROVE SubSeq(line, i, i) = <<line[i]>>
    <3> DEFINE t == SubSeq(line, i, i)
    <3>1. \A k \in i .. i : line[k] \in Byte
      <4>1. \A k \in 1 .. Len(line) : line[k] \in Byte
        BY LineIs
      <4>2. line[i] \in Byte /\ \A k \in i .. i : k = i
        BY <1>1, <4>1
      <4>3. QED
        BY <4>2
    <3>2. /\ t \in Seq(Byte) /\ Len(t) = IF i <= i THEN i - i + 1 ELSE 0
          /\ \A k \in 1 .. i - i + 1 : t[k] = line[i + k - 1]
      BY <3>1, SubSeqProperties
    <3> HIDE DEF t
    <3>3. Len(t) = 1 /\ t[1] = line[i]
      <4>1. 1 \in 1 .. i - i + 1 /\ i + 1 - 1 = i
        OBVIOUS
      <4>2. QED
        BY <3>2, <4>1
    <3>4. t = <<line[i]>>
      BY <3>2, <3>3
    <3>5. QED
      BY <3>4 DEF t
  <2>3. QED
    BY <2>1, <2>2
<1>9. Ordinary(line)
  <2>1. \A c \in ToSet(line) : c \in Blanks \/ Printing(c)
    <3>1. \A c \in ToSet(line) : c = "!" \/ c = "sp" \/ c = d
      <4>1. DOMAIN line = 1 .. 3
        OBVIOUS
      <4>2. \A i \in 1 .. 3 : i = 1 \/ i = 2 \/ i = 3
        OBVIOUS
      <4>3. QED
        BY <1>1, <4>1, <4>2 DEF ToSet
    <3>2. QED
      BY <1>2, <3>1 DEF Blanks
  <2>2. ~InQuote(line, 0, FALSE, Len(line))
    <3>1. 3 \in 0 .. 3
      OBVIOUS
    <3>2. ~In(line, 3)
      BY <1>3, <3>1
    <3>3. QED
      BY <1>1, <3>2, Zenon DEF In
  <2>3. ASSUME NEW s \in {0, 2}
        PROVE  LET e == EndOf(line, s)
               IN  /\ e - s < MAX_ARGLEN /\ s < MAX_LINEL - MAX_ARGLEN
                   /\ \A q \in s .. e - 1 : At(line, q) = "quote" => q \in {s, e - 1}
                   /\ \A q \in s .. e - 1 : At(line, q) # "tab"
    <3>1. EndOf(line, s) = s + 1 /\ s .. (s + 1) - 1 = {s}
      BY <1>6, <1>7
    <3>2. MAX_ARGLEN \in Nat /\ MAX_ARGLEN > 1 /\ MAX_LINEL - MAX_ARGLEN > 2 /\ MAX_LINEL \in Nat
      BY CmdLineAssumption, SMTT(40)
    <3>3. At(line, s) # "tab"
      BY <1>1, <1>2 DEF Blanks
    <3>4. (s + 1) - s < MAX_ARGLEN /\ s < MAX_LINEL - MAX_ARGLEN
      BY <3>2
    <3>5. QED
      BY <3>1, <3>3, <3>4
  <2>4. Cardinality({0, 2}) < MAX_ARGS
    <3>1. Cardinality({0} \cup {2}) = 2
      <4>1. IsFiniteSet({0}) /\ Cardinality({0}) = 1 /\ 2 \notin {0}
        <5>1. IsFiniteSet({0}) /\ Cardinality({0}) = 1
          BY FS_Singleton, Zenon
        <5>2. 2 \notin {0}
          OBVIOUS
        <5>3. QED
          BY <5>1, <5>2
      <4>2. Cardinality({0} \cup {2}) = Cardinality({0}) + 1
        BY <4>1, FS_AddElement
      <4>3. QED
        BY <4>1, <4>2
    <3>2. {0} \cup {2} = {0, 2}
      OBVIOUS
    <3>3. QED
      BY <3>1, <3>2, CmdLineAssumption
  <2>5. QED
    BY <1>5, <2>1, <2>2, <2>3, <2>4 DEF Ordinary
<1>10. QED
  BY <1>5, <1>8, <1>9

\* What parse_cmdbuf() makes of it.
LEMMA RepeatParses ==
  ASSUME NEW d \in {"1", "2", "3"}, NEW line \in Lines, line = <<"!", "sp", d>>
  PROVE  LET r == parse_cmdbuf(line)
         IN  r.count = 2 /\ r.argv[1] = <<"!">> /\ r.argv[2] = <<d>>
<1> DEFINE p == ParseTokens(Start(line))
           n == Len(p.argv)
<1>1. /\ Ordinary(line) /\ Starts(line) = {0, 2}
      /\ Word(line, 0) = <<"!">> /\ Word(line, 2) = <<d>>
  BY RepeatLine
<1>2. Walk(p, line) /\ \E at : WordsAt(p.argv, line, at) /\ Covers(at, n, Starts(line))
  BY <1>1, LoopWalks DEF Covers
<1>3. parse_cmdbuf(line) = Finish(p)
  BY DEF parse_cmdbuf, Start
<1> HIDE DEF p
<1>4. PICK at : WordsAt(p.argv, line, at) /\ Covers(at, n, Starts(line))
  BY <1>2
<1>5. p.argv \in Tokens /\ n \in Nat /\ p.inredir_j \in Nat /\ p.outredir_j \in Nat
      /\ ~p.inquote
  BY <1>2, LenProperties DEF Walk, Parsing, Parsed, Tokens
<1>6. Upwards(n, {0, 2}, at)
  <2>1. at \in Increasing(n, Starts(line))
    BY <1>4 DEF WordsAt
  <2> HIDE DEF n
  <2>2. Starts(line) \subseteq Nat
    BY StartsAre
  <2>3. Upwards(n, Starts(line), at)
    BY <1>5, <2>1, <2>2, IncreasingIs
  <2>4. QED
    BY <1>1, <2>3, Zenon
<1>7. /\ \A x \in 1 .. n : at[x] \in {0, 2}
      /\ \A x, y \in 1 .. n : (x < y <=> at[x] < at[y]) /\ (at[x] = at[y] => x = y)
  BY <1>6 DEF Upwards
<1>8. {0, 2} = {at[x] : x \in 1 .. n}
  BY <1>1, <1>4 DEF Covers
<1>9. PICK x0 \in 1 .. n, x2 \in 1 .. n : at[x0] = 0 /\ at[x2] = 2
  <2>1. 0 \in {at[x] : x \in 1 .. n} /\ 2 \in {at[x] : x \in 1 .. n}
    BY <1>8
  <2>2. QED
    BY <2>1
<1> HIDE DEF n
<1>10. x0 < x2 /\ \A x \in 1 .. n : x = x0 \/ x = x2
  BY <1>7, <1>9
<1>11. n = 2 /\ x0 = 1 /\ x2 = 2
  <2>1. 1 \in 1 .. n /\ 2 \in 1 .. n /\ n \in 1 .. n
    BY <1>5, <1>9, <1>10
  <2>2. x0 = 1
    BY <1>9, <1>10, <2>1
  <2>3. QED
    BY <1>5, <1>9, <1>10, <2>1, <2>2
<1>12. p.argv[1] = <<"!">> /\ p.argv[2] = <<d>>
  BY <1>1, <1>4, <1>9, <1>11 DEF WordsAt, n
<1>13. p.inredir_j = 0
  <2> SUFFICES ASSUME p.inredir_j # 0 PROVE FALSE
    OBVIOUS
  <2>1. p.inredir_j = 1 /\ 1 + 1 = 2 /\ p.inredir_j > 0 /\ p.inredir_j < Len(p.argv)
    BY <1>2, <1>5, <1>11 DEF Walk, Held, n
  <2>2. p.argv[2] = <<"<">>
    BY <1>2, <2>1 DEF Walk, Parsing
  <2>3. <<d>> # <<"<">>
    OBVIOUS
  <2>4. QED
    BY <1>12, <2>2, <2>3
<1>14. p.outredir_j = 0
  <2> SUFFICES ASSUME p.outredir_j # 0 PROVE FALSE
    OBVIOUS
  <2>1. p.outredir_j = 1 /\ 1 + 1 = 2 /\ p.outredir_j > 0 /\ p.outredir_j < Len(p.argv)
    BY <1>2, <1>5, <1>11 DEF Walk, Held, n
  <2>2. p.argv[2] = <<">">>
    BY <1>2, <2>1 DEF Walk, Parsing
  <2>3. <<d>> # <<">">>
    OBVIOUS
  <2>4. QED
    BY <1>12, <2>2, <2>3
<1>15. Finish(p).argv = p.argv /\ Finish(p).count = n
  BY <1>5, <1>13, <1>14 DEF Finish, DropRedirection, n
<1>16. QED
  BY <1>3, <1>11, <1>12, <1>15

(* "! num" runs the very line that has that number.                        *)
LEMMA RepeatStep ==
  ASSUME CmdInv, NEW b \in Endings, NEW d \in {"1", "2", "3"},
         EnterLine(b), cmdbuf = <<"!", "sp", d>>, cmd'.count > 0
  PROVE  Digits[d] < command_num /\ lines'[command_num] = lines[Digits[d]]
<1> DEFINE first == parse_cmdbuf(cmdbuf)
           n == Digits[d]
<1>1. /\ cmdbuf \in Lines /\ lines \in Seq(Lines) /\ Len(lines) = command_num
      /\ command_num \in Nat /\ history \in [Ring -> Entry]
  BY DEF CmdInv, Buffers
<1>2. place = "getcmd" /\ Enter(first)
  BY Zenon DEF EnterLine, Reads
<1>3. first.count = 2 /\ first.argv[1] = <<"!">> /\ first.argv[2] = <<d>>
  BY <1>1, RepeatParses
<1>4. Atoi(<<d>>) = n /\ n \in Nat /\ n > 0
  BY AtoiIs
<1>5. Counted(first)
  BY <1>1, parse_cmdbufIs
<1> HIDE DEF first, n
<1>6. Repeat(first, n)
  BY <1>2, <1>3, <1>4 DEF Enter
<1>7. Repeatable(n)
  <2> SUFFICES ASSUME ~Repeatable(n) PROVE FALSE
    OBVIOUS
  <2>1. cmd' = [first EXCEPT !.count = -1]
    BY <1>6 DEF Repeat, Resolve
  <2>2. cmd'.count = -1
    BY <1>5, <2>1 DEF Counted, Commands
  <2>3. QED
    BY <2>2
<1>8. n < command_num /\ n \in 1 .. Len(lines) /\ Repeated(n) = lines[n]
  BY <1>2, <1>4, <1>7, RepeatedIs
<1>9. lines' = [lines EXCEPT ![command_num] = lines[n]]
  BY <1>6, <1>7, <1>8 DEF Repeat, Resolve
<1>10. command_num \in DOMAIN lines
  <2>1. DOMAIN lines = 1 .. command_num
    BY <1>1, LenProperties
  <2>2. QED
    BY <1>1, <1>4, <1>8, <2>1
<1>11. lines'[command_num] = lines[n]
  BY <1>9, <1>10
<1>12. QED
  BY <1>8, <1>11 DEF n

(***************************************************************************)
(* expand_wcard()                                                          *)
(***************************************************************************)
\* The vector ends at the first NULL.
LEMMA VectorIs ==
  ASSUME NEW exp, DOMAIN exp \subseteq Nat, NEW K \in DOMAIN exp, exp[K] = NULL,
         \A y \in Nat : y < K => exp[y] # NULL
  PROVE  Vector(exp) = [y \in 1 .. K |-> exp[y - 1]]
<1> DEFINE S == {k \in DOMAIN exp : exp[k] = NULL}
<1>1. Least(S) \in S /\ \A y \in S : Least(S) <= y
  BY LeastIs
<1>2. K \in S
  OBVIOUS
<1>3. Least(S) \in Nat /\ exp[Least(S)] = NULL /\ Least(S) <= K /\ K \in Nat
  BY <1>1, <1>2
<1> DEFINE n == Least(S)
<1>4. Vector(exp) = [y \in 1 .. n |-> exp[y - 1]]
  BY DEF Vector
<1> HIDE DEF n
<1>5. n = K
  <2>1. n \in Nat /\ exp[n] = NULL /\ n <= K /\ K \in Nat
    BY <1>3 DEF n
  <2>2. ~(n < K)
    BY <2>1
  <2>3. QED
    BY <2>1, <2>2
<1>6. QED
  BY <1>4, <1>5

\* The names that have room are the first of those that match.
LEMMA MatchedIs ==
  ASSUME NEW n \in Nat, NEW at \in Increasing(n, DOMAIN Files), NEW w \in Nat, w < MAX_ARGS - 1
  PROVE  LET names == Matched([x \in 1 .. n |-> Files[at[x]]], w)
         IN  \E m \in Nat : /\ m <= n /\ w + m <= MAX_ARGS - 1
                            /\ names \in Tokens /\ Len(names) = m
                            /\ [x \in 1 .. m |-> at[x]] \in Increasing(m, DOMAIN Files)
                            /\ names = [x \in 1 .. m |-> Files[at[x]]]
<1> DEFINE a == [x \in 1 .. n |-> Files[at[x]]]
           S == {Len(a), MAX_ARGS - 1 - w}
           m == Least(S)
           names == Matched(a, w)
<1>0. MAX_ARGS \in Nat /\ Files \in Seq(Lines)
  BY CmdLineAssumption DEF Lines
<1>1. at \in [1 .. n -> DOMAIN Files] /\ \A x, y \in 1 .. n : x < y => at[x] < at[y]
  BY DEF Increasing
<1>2. \A i \in DOMAIN Files : Files[i] \in Lines
  BY <1>0, ElementOfSeq, LenProperties
<1>3. a \in Seq(Lines) /\ Len(a) = n /\ \A x \in 1 .. n : a[x] = Files[at[x]]
  <2>1. \A x \in 1 .. n : Files[at[x]] \in Lines
    BY <1>1, <1>2
  <2>2. a \in [1 .. n -> Lines]
    BY <2>1
  <2>3. a \in Seq(Lines)
    BY <2>1, IsASeq
  <2>4. QED
    BY <2>2, <2>3, LenProperties
<1>4. m \in Nat /\ m <= n /\ w + m <= MAX_ARGS - 1
  <2>1. S \subseteq Nat /\ S # {}
    BY <1>0, <1>3
  <2>2. m \in S /\ \A k \in S : m <= k
    BY <2>1, LeastIs
  <2>3. m \in Nat /\ m <= Len(a) /\ m <= MAX_ARGS - 1 - w
    BY <2>1, <2>2
  <2> HIDE DEF m, a
  <2>4. QED
    BY <1>0, <1>3, <2>3
<1>5. names = SubSeq(a, 1, m)
  BY DEF Matched
<1> HIDE DEF a, m, names
<1>6. names \in Tokens /\ Len(names) = m /\ \A x \in 1 .. m : names[x] = Files[at[x]]
  <2>1. \A x \in 1 .. m : a[x] \in Lines
    BY <1>1, <1>2, <1>3, <1>4
  <2>2. /\ SubSeq(a, 1, m) \in Seq(Lines) /\ Len(SubSeq(a, 1, m)) = IF 1 <= m THEN m - 1 + 1 ELSE 0
        /\ \A x \in 1 .. m - 1 + 1 : SubSeq(a, 1, m)[x] = a[1 + x - 1]
    BY <1>4, <2>1, SubSeqProperties
  <2>3. QED
    BY <1>3, <1>4, <1>5, <2>2 DEF Tokens
<1>7. names = [x \in 1 .. m |-> Files[at[x]]]
  <2>1. names = [x \in 1 .. m |-> names[x]]
    BY <1>6, LenProperties DEF Tokens
  <2>2. QED
    BY <1>6, <2>1
<1>8. [x \in 1 .. m |-> at[x]] \in Increasing(m, DOMAIN Files)
  <2> DEFINE g == [x \in 1 .. m |-> at[x]]
  <2>1. \A x \in 1 .. m : x \in 1 .. n /\ g[x] = at[x]
    BY <1>4
  <2>2. g \in [1 .. m -> DOMAIN Files]
    BY <1>1, <2>1
  <2> HIDE DEF g
  <2>3. \A x, y \in 1 .. m : x < y => g[x] < g[y]
    BY <1>1, <2>1
  <2>4. g \in Increasing(m, DOMAIN Files)
    BY <2>2, <2>3 DEF Increasing
  <2>5. QED
    BY <2>4 DEF g
<1>9. QED
  BY <1>4, <1>6, <1>7, <1>8 DEF a, names

\* No string of the shell is the mark of an empty place.
LEMMA NoLineIsNull == \A l \in Lines : l # NULL
<1> SUFFICES ASSUME NULL \in Lines PROVE FALSE
  OBVIOUS
<1>1. NULL \in Seq(Byte) /\ Len(NULL) = 1 /\ NULL[1] = "NULL"
  BY DEF NULL, Lines
<1>2. NULL[1] \in Byte
  <2>1. 1 \in 1 .. Len(NULL)
    BY <1>1
  <2>2. QED
    BY <1>1, <2>1, ElementOfSeq
<1>3. QED
  BY <1>1, <1>2 DEF Byte

\* The vector v is argv before w, m names from there on, and at most the last
\* argument behind the wildcard.
Expanded(v, argv, w, m, names) ==
  /\ v \in Tokens
  /\ \A y \in 1 .. w : v[y] = argv[y]
  /\ \A y \in 1 .. m : v[w + y] = names[y]
  /\ \/ Len(v) = w + m
     \/ Behind # <<>> /\ Len(v) = w + m + 1 /\ v[w + m + 1] = Last(Behind)
  /\ Last(Behind) \in Lines \/ Behind = <<>>

\* What is copied into cmdexp[], and what becomes of it.
LEMMA ExpandIs ==
  ASSUME NEW argv \in Tokens, argv = cmd.argv, NEW w \in Nat, w = cmd.wc_index, w < Len(argv),
         NEW m \in Nat, m > 0, w + m <= MAX_ARGS - 1, DOMAIN cmdexp = 0 .. MAX_ARGS - 1,
         NEW names \in Tokens, Len(names) = m
  PROVE  Expanded(Vector(expand_wcard(names)), argv, w, m, names)
<1> DEFINE k == w + m
           E0 == [x \in 0 .. MAX_ARGS - 1 |->
                    IF x \in w .. k - 1 THEN names[x - w + 1] ELSE CopyBefore[x]]
           exp == expand_wcard(names)
           last == Last(Behind)
<1>0. MAX_ARGS \in Nat /\ Len(argv) \in Nat /\ \A y \in 1 .. Len(argv) : argv[y] \in Lines
  BY CmdLineAssumption, LenProperties, ElementOfSeq DEF Tokens
<1>1. \A y \in 1 .. m : names[y] \in Lines
  BY LenProperties, ElementOfSeq DEF Tokens
<1>2. exp = CopyAfter(E0, k, Behind)
  BY DEF expand_wcard
<1>3. \A x \in 0 .. MAX_ARGS - 1 : x < w => E0[x] = argv[x + 1]
  BY DEF CopyBefore
<1>4. \A x \in w .. k - 1 : x \in 0 .. MAX_ARGS - 1 /\ E0[x] = names[x - w + 1]
  BY <1>0
<1>5. DOMAIN E0 = 0 .. MAX_ARGS - 1 /\ k \in 0 .. MAX_ARGS - 1
  BY <1>0
<1>6. Behind = <<>> \/ last \in Lines
  <2>1. Behind = SubSeq(argv, w + 2, Len(argv))
    BY DEF Behind
  <2>2. \A i \in w + 2 .. Len(argv) : argv[i] \in Lines
    BY <1>0
  <2>3. Behind \in Seq(Lines)
    BY <1>0, <2>1, <2>2, SubSeqProperties
  <2> HIDE DEF last
  <2>4. Behind # <<>> => Len(Behind) \in 1 .. Len(Behind)
    BY <2>3, EmptySeq, LenProperties
  <2>5. QED
    BY <2>3, <2>4, ElementOfSeq DEF Last, last
<1> HIDE DEF E0, exp, last
<1> DEFINE full == Behind = <<>> \/ k = MAX_ARGS - 1
           K == IF full THEN k ELSE k + 1
<1>7. /\ DOMAIN exp = 0 .. MAX_ARGS - 1 /\ K \in 0 .. MAX_ARGS - 1 /\ exp[K] = NULL
      /\ \A x \in 0 .. MAX_ARGS - 1 : x < k => exp[x] = E0[x]
      /\ ~full => exp[k] = last
  <2>1. CASE k = MAX_ARGS - 1
    <3>1. exp = [E0 EXCEPT ![k] = NULL]
      BY <1>2, <2>1 DEF CopyAfter
    <3>2. K = k /\ full
      BY <2>1
    <3> HIDE DEF K, full
    <3>3. QED
      BY <1>0, <1>5, <3>1, <3>2
  <2>2. CASE k # MAX_ARGS - 1 /\ Behind = <<>>
    <3>1. exp = [E0 EXCEPT ![k] = NULL, ![k + 1] = NULL]
      BY <1>2, <2>2 DEF CopyAfter
    <3>2. K = k /\ full
      BY <2>2
    <3>3. k + 1 \in 0 .. MAX_ARGS - 1 /\ k # k + 1 /\ k \in 0 .. MAX_ARGS - 1
      BY <1>0, <1>5, <2>2
    <3> HIDE DEF K, full, k
    <3>4. \A x \in 0 .. MAX_ARGS - 1 : exp[x] = IF x = k + 1 \/ x = k THEN NULL ELSE E0[x]
      BY <1>5, <3>1, <3>3
    <3>5. DOMAIN exp = 0 .. MAX_ARGS - 1
      BY <1>5, <3>1
    <3>6. \A x \in 0 .. MAX_ARGS - 1 : x < k => x # k /\ x # k + 1
      BY <3>3
    <3>7. QED
      BY <3>2, <3>3, <3>4, <3>5, <3>6
  <2>3. CASE k # MAX_ARGS - 1 /\ Behind # <<>>
    <3>1. exp = [E0 EXCEPT ![k] = last, ![k + 1] = NULL]
      BY <1>2, <2>3 DEF CopyAfter, last
    <3>2. K = k + 1 /\ ~full
      BY <2>3
    <3>3. k + 1 \in 0 .. MAX_ARGS - 1 /\ k # k + 1 /\ k \in 0 .. MAX_ARGS - 1
      BY <1>0, <1>5, <2>3
    <3> HIDE DEF K, full, k
    <3>4. \A x \in 0 .. MAX_ARGS - 1 :
            exp[x] = IF x = k + 1 THEN NULL ELSE IF x = k THEN last ELSE E0[x]
      BY <1>5, <3>1, <3>3
    <3>5. DOMAIN exp = 0 .. MAX_ARGS - 1
      BY <1>5, <3>1
    <3>6. \A x \in 0 .. MAX_ARGS - 1 : x < k => x # k /\ x # k + 1
      BY <3>3
    <3>7. QED
      BY <3>2, <3>3, <3>4, <3>5, <3>6
  <2>4. QED
    BY <2>1, <2>2, <2>3
<1> HIDE DEF K
<1>8. (full => K = k) /\ (~full => K = k + 1) /\ k \in Nat /\ K \in Nat
  BY <1>5, <1>7 DEF K
<1>9. \A x \in Nat : x < w => x \in 0 .. MAX_ARGS - 1 /\ exp[x] = argv[x + 1] /\ exp[x] \in Lines
  <2> SUFFICES ASSUME NEW x \in Nat, x < w
               PROVE  x \in 0 .. MAX_ARGS - 1 /\ exp[x] = argv[x + 1] /\ exp[x] \in Lines
    OBVIOUS
  <2>1. x \in 0 .. MAX_ARGS - 1 /\ x < k /\ x + 1 \in 1 .. Len(argv)
    BY <1>0
  <2>2. QED
    BY <1>0, <1>3, <1>7, <2>1
<1>10. \A y \in 1 .. m : exp[w + y - 1] = names[y] /\ exp[w + y - 1] \in Lines
  <2> SUFFICES ASSUME NEW y \in 1 .. m
               PROVE  exp[w + y - 1] = names[y] /\ exp[w + y - 1] \in Lines
    OBVIOUS
  <2> DEFINE x == w + y - 1
  <2>1. x \in w .. k - 1 /\ x < k /\ x - w + 1 = y
    OBVIOUS
  <2> HIDE DEF x
  <2>2. x \in 0 .. MAX_ARGS - 1 /\ E0[x] = names[x - w + 1] /\ exp[x] = E0[x]
    BY <1>4, <1>7, <2>1
  <2>3. exp[x] = names[y] /\ exp[x] \in Lines
    BY <1>1, <2>1, <2>2
  <2>4. QED
    BY <2>3 DEF x
<1>11. ~full => exp[k] = last /\ last \in Lines
  BY <1>6, <1>7
<1> HIDE DEF full
<1>12. \A x \in Nat : x < K => exp[x] \in Lines
  <2> SUFFICES ASSUME NEW x \in Nat, x < K PROVE exp[x] \in Lines
    OBVIOUS
  <2>1. CASE x < w
    BY <1>9, <2>1
  <2>2. CASE ~(x < w) /\ x < k
    <3>1. x - w + 1 \in 1 .. m /\ w + (x - w + 1) - 1 = x
      BY <2>2, SMTT(40)
    <3>2. QED
      BY <1>10, <3>1
  <2>3. CASE ~(x < k)
    <3>1. x = k /\ ~full
      BY <1>8, <2>3
    <3>2. QED
      BY <1>11, <3>1
  <2>4. QED
    BY <2>1, <2>2, <2>3
<1> DEFINE v == Vector(exp)
<1>13. v = [y \in 1 .. K |-> exp[y - 1]]
  <2>1. DOMAIN exp \subseteq Nat /\ K \in DOMAIN exp /\ exp[K] = NULL
    BY <1>0, <1>7
  <2>2. \A y \in Nat : y < K => exp[y] # NULL
    BY <1>12, NoLineIsNull
  <2>3. QED
    BY <2>1, <2>2, VectorIs
<1>131. k = w + m /\ k <= K /\ k \in Nat /\ K \in Nat
  BY <1>8
<1> HIDE DEF v, k
<1>14. v \in Tokens /\ Len(v) = K /\ \A y \in 1 .. K : v[y] = exp[y - 1]
  <2>1. \A y \in 1 .. K : exp[y - 1] \in Lines
    BY <1>8, <1>12
  <2>2. v \in Seq(Lines)
    BY <1>8, <1>13, <2>1, IsASeq
  <2>3. v \in [1 .. K -> Lines]
    BY <1>13, <2>1
  <2>4. QED
    BY <1>8, <1>13, <2>2, <2>3, LenProperties, SMTT(30) DEF Tokens
<1>15. \A y \in 1 .. w : v[y] = argv[y]
  <2> SUFFICES ASSUME NEW y \in 1 .. w PROVE v[y] = argv[y]
    OBVIOUS
  <2>1. y \in 1 .. K /\ y - 1 \in Nat /\ y - 1 < w /\ (y - 1) + 1 = y
    BY <1>131
  <2>2. QED
    BY <1>9, <1>14, <2>1
<1>16. \A y \in 1 .. m : v[w + y] = names[y]
  <2> SUFFICES ASSUME NEW y \in 1 .. m PROVE v[w + y] = names[y]
    OBVIOUS
  <2> DEFINE x == w + y
  <2>1. x \in 1 .. K /\ x - 1 = w + y - 1
    BY <1>131
  <2>2. exp[w + y - 1] = names[y]
    BY <1>10
  <2> HIDE DEF x
  <2>3. v[x] = names[y]
    BY <1>14, <2>1, <2>2
  <2>4. QED
    BY <2>3 DEF x
<1>17. \/ Len(v) = w + m
       \/ Behind # <<>> /\ Len(v) = w + m + 1 /\ v[w + m + 1] = last
  <2>1. CASE full
    BY <1>8, <1>14, <2>1 DEF k
  <2>2. CASE ~full
    <3>1. Behind # <<>>
      BY <2>2 DEF full
    <3>2. K = k + 1 /\ k + 1 \in 1 .. K /\ (k + 1) - 1 = k
      BY <1>8, <2>2
    <3>3. v[k + 1] = last
      BY <1>11, <1>14, <2>2, <3>2
    <3>4. QED
      BY <1>14, <3>1, <3>2, <3>3 DEF k
  <2>3. QED
    BY <2>1, <2>2
<1>18. QED
  BY <1>6, <1>14, <1>15, <1>16, <1>17 DEF Expanded, v, exp, last

\* The part of a vector that a sequence fills.
LEMMA PartIs ==
  ASSUME NEW v \in Tokens, NEW part \in Tokens, NEW from \in Nat,
         from + Len(part) <= Len(v), \A y \in 1 .. Len(part) : v[from + y] = part[y]
  PROVE  SubSeq(v, from + 1, from + Len(part)) = part
<1> DEFINE m == Len(part)
           t == SubSeq(v, from + 1, from + m)
<1>1. m \in Nat /\ Len(v) \in Nat /\ part \in Seq(Lines)
  BY LenProperties DEF Tokens
<1>2. \A i \in from + 1 .. from + m : v[i] \in Lines
  <2>1. \A i \in 1 .. Len(v) : v[i] \in Lines
    BY ElementOfSeq DEF Tokens
  <2>2. QED
    BY <1>1, <2>1
<1>3. /\ t \in Seq(Lines)
      /\ Len(t) = IF from + 1 <= from + m THEN (from + m) - (from + 1) + 1 ELSE 0
      /\ \A y \in 1 .. (from + m) - (from + 1) + 1 : t[y] = v[(from + 1) + y - 1]
  BY <1>1, <1>2, SubSeqProperties
<1> HIDE DEF t
<1>4. Len(t) = m
  BY <1>1, <1>3
<1>5. \A y \in 1 .. m : t[y] = part[y]
  <2> SUFFICES ASSUME NEW y \in 1 .. m PROVE t[y] = part[y]
    OBVIOUS
  <2>1. y \in 1 .. (from + m) - (from + 1) + 1 /\ (from + 1) + y - 1 = from + y
    BY <1>1
  <2>2. t[y] = v[from + y]
    BY <1>3, <2>1
  <2>3. QED
    BY <2>2
<1>6. t = part
  <2>1. Len(t) = Len(part) /\ \A y \in 1 .. Len(t) : t[y] = part[y]
    BY <1>4, <1>5
  <2>2. QED
    BY <1>1, <1>3, <2>1, SeqEqual
<1>7. QED
  BY <1>6 DEF t

\* What is executed in the place of a wildcard.
Fresh(v) ==
  LET n == cmd.wc_index
      tail == SubSeq(v, n + 1, Len(v))
  IN  /\ SubSeq(v, 1, n) = SubSeq(cmd.argv, 1, n)
      /\ \E m \in 1 .. Len(Files) : \E at \in Increasing(m, DOMAIN Files) :
           LET names == [x \in 1 .. m |-> Files[at[x]]]
           IN  \/ tail = names
               \/ Behind # <<>> /\ tail = Append(names, Last(Behind))

LEMMA ExpansionStep ==
  ASSUME CmdInv, [CmdNext]_cmdVars, executed' # executed, ~cmd.nowildcard
  PROVE  Fresh(executed')
<1>1. ExecuteWild
  <2>1. CmdNext
    BY DEF cmdVars
  <2>2. \A b : Type(b) \/ EnterLine(b) => UNCHANGED executed
    BY DEF Type, EnterLine
  <2>3. NextCommand \/ (\E k : Strike(k)) \/ EndOfInput \/ SkipEmpty \/ SyntaxError => UNCHANGED executed
    BY DEF NextCommand, Strike, EndOfInput, SkipEmpty, SyntaxError
  <2>4. Redirected \/ Background \/ NotExecuted \/ NoDirectory \/ ExpandOverrun => UNCHANGED executed
    BY DEF Redirected, Background, NotExecuted, NoDirectory, ExpandOverrun
  <2>5. ~Execute
    BY DEF Execute
  <2>6. QED
    BY <2>1, <2>2, <2>3, <2>4, <2>5 DEF CmdNext
<1>2. Counted(cmd) /\ DOMAIN cmdexp = 0 .. MAX_ARGS - 1
  BY DEF CmdInv, Buffers
<1> DEFINE w == cmd.wc_index
           argv == cmd.argv
<1>3. /\ argv \in Tokens /\ Len(argv) \in Nat /\ Len(argv) < MAX_ARGS /\ w \in Nat
  BY <1>2, CountIs
<1>4. w > 0 /\ w < Len(argv)
  BY <1>1 DEF ExecuteWild, Wild
<1>5. MAX_ARGS \in Nat /\ w < MAX_ARGS - 1
  BY <1>3, <1>4, CmdLineAssumption
<1>6. Len(Files) \in Nat /\ DOMAIN Files = 1 .. Len(Files)
  BY CmdLineAssumption, LenProperties
<1>7. PICK n \in 0 .. Len(Files) : \E at \in Increasing(n, DOMAIN Files) :
        LET names == Matched([x \in 1 .. n |-> Files[at[x]]], w)
        IN  /\ cmdexp' = expand_wcard(names) /\ names # <<>> /\ executed' = Vector(cmdexp')
  <2> DEFINE Exp(f, k) == Matched([x \in 1 .. k |-> Files[f[x]]], w)
  <2>1. \E n \in 0 .. Len(Files) : \E at \in Increasing(n, DOMAIN Files) :
          /\ cmdexp' = expand_wcard(Exp(at, n))
          /\ \/ Outcome(EXEC_FAILED) /\ UNCHANGED executed
             \/ Exp(at, n) # <<>> /\ Outcome(Pid) /\ executed' = Vector(cmdexp')
    BY <1>1 DEF ExecuteWild
  <2> HIDE DEF Exp
  <2>2. \E n \in 0 .. Len(Files) : \E at \in Increasing(n, DOMAIN Files) :
          /\ cmdexp' = expand_wcard(Exp(at, n))
          /\ Exp(at, n) # <<>> /\ executed' = Vector(cmdexp')
    BY <2>1
  <2>3. QED
    BY <2>2 DEF Exp
<1>71. PICK at \in Increasing(n, DOMAIN Files) :
        LET names == Matched([x \in 1 .. n |-> Files[at[x]]], w)
        IN  /\ cmdexp' = expand_wcard(names) /\ names # <<>> /\ executed' = Vector(cmdexp')
  BY <1>7
<1> DEFINE names == Matched([x \in 1 .. n |-> Files[at[x]]], w)
<1>8. names # <<>> /\ executed' = Vector(expand_wcard(names))
  BY <1>71
<1>9. PICK m \in Nat : /\ m <= n /\ w + m <= MAX_ARGS - 1
                       /\ names \in Tokens /\ Len(names) = m
                       /\ [x \in 1 .. m |-> at[x]] \in Increasing(m, DOMAIN Files)
                       /\ names = [x \in 1 .. m |-> Files[at[x]]]
  <2>1. n \in Nat
    BY <1>6
  <2>2. QED
    BY <1>3, <1>5, <2>1, MatchedIs
<1> HIDE DEF names
<1>10. m > 0
  BY <1>8, <1>9, EmptySeq DEF Tokens
<1> DEFINE v == executed'
<1>11. /\ v \in Tokens
       /\ \A y \in 1 .. w : v[y] = argv[y]
       /\ \A y \in 1 .. m : v[w + y] = names[y]
       /\ \/ Len(v) = w + m
          \/ Behind # <<>> /\ Len(v) = w + m + 1 /\ v[w + m + 1] = Last(Behind)
       /\ Last(Behind) \in Lines \/ Behind = <<>>
  <2> HIDE DEF w, argv
  <2>1. argv = cmd.argv /\ w = cmd.wc_index
    BY DEF argv, w
  <2>2. names \in Tokens /\ Len(names) = m /\ w + m <= MAX_ARGS - 1
    BY <1>9
  <2>3. Expanded(Vector(expand_wcard(names)), argv, w, m, names)
    BY <1>2, <1>3, <1>4, <1>10, <2>1, <2>2, ExpandIs
  <2>4. Expanded(v, argv, w, m, names)
    BY <1>8, <2>3
  <2> HIDE DEF v
  <2>5. QED
    BY <2>4 DEF Expanded
<1> DEFINE before == SubSeq(argv, 1, w)
           files == [x \in 1 .. m |-> at[x]]
           tail == SubSeq(v, w + 1, Len(v))
<1>12. before \in Tokens /\ Len(before) = w /\ \A y \in 1 .. w : before[y] = argv[y]
  <2>1. \A i \in 1 .. w : argv[i] \in Lines
    <3>1. \A i \in 1 .. Len(argv) : argv[i] \in Lines
      BY <1>3, ElementOfSeq DEF Tokens
    <3> HIDE DEF argv, w
    <3>2. QED
      BY <1>3, <1>4, <3>1
  <2> HIDE DEF argv, w
  <2>2. /\ before \in Seq(Lines) /\ Len(before) = IF 1 <= w THEN w - 1 + 1 ELSE 0
        /\ \A y \in 1 .. w - 1 + 1 : before[y] = argv[1 + y - 1]
    BY <1>3, <2>1, SubSeqProperties
  <2> HIDE DEF before
  <2>3. QED
    BY <1>3, <1>4, <2>2 DEF Tokens
<1> HIDE DEF w, argv, v, before, files
<1>13. Len(v) \in Nat
  BY <1>11, LenProperties DEF Tokens
<1>14. SubSeq(v, 1, w) = before
  <2>1. 0 + Len(before) <= Len(v) /\ \A y \in 1 .. Len(before) : v[0 + y] = before[y]
    BY <1>3, <1>9, <1>11, <1>12, <1>13, SMTT(40)
  <2>2. SubSeq(v, 0 + 1, 0 + Len(before)) = before
    BY <1>11, <1>12, <2>1, PartIs
  <2>3. 0 + 1 = 1 /\ 0 + Len(before) = w
    BY <1>3, <1>12
  <2>4. QED
    BY <2>2, <2>3
<1>15. tail = names \/ (Behind # <<>> /\ tail = Append(names, Last(Behind)))
  <2>1. CASE Len(v) = w + m
    <3>1. w + Len(names) <= Len(v) /\ \A y \in 1 .. Len(names) : v[w + y] = names[y]
      BY <1>3, <1>9, <1>11, <1>13, <2>1
    <3>2. SubSeq(v, w + 1, w + Len(names)) = names
      BY <1>3, <1>9, <1>11, <3>1, PartIs
    <3>3. QED
      BY <1>9, <2>1, <3>2
  <2>2. CASE Behind # <<>> /\ Len(v) = w + m + 1 /\ v[w + m + 1] = Last(Behind)
    <3> DEFINE part == Append(names, Last(Behind))
    <3>1. Last(Behind) \in Lines
      BY <1>11, <2>2
    <3>2. /\ part \in Tokens /\ Len(part) = m + 1
          /\ \A y \in 1 .. m : part[y] = names[y]
          /\ part[m + 1] = Last(Behind)
      BY <1>9, <3>1, AppendProperties DEF Tokens
    <3> HIDE DEF part
    <3>3. w + Len(part) <= Len(v)
      BY <1>3, <1>13, <2>2, <3>2
    <3>4. \A y \in 1 .. Len(part) : v[w + y] = part[y]
      <4> SUFFICES ASSUME NEW y \in 1 .. m + 1 PROVE v[w + y] = part[y]
        BY <3>2
      <4>1. CASE y = m + 1
        <5>1. w + y = w + m + 1
          BY <1>3, <4>1
        <5>2. QED
          BY <2>2, <3>2, <4>1, <5>1
      <4>2. CASE y # m + 1
        <5>1. y \in 1 .. m
          BY <4>2
        <5>2. QED
          BY <1>11, <3>2, <5>1
      <4>3. QED
        BY <4>1, <4>2
    <3>5. SubSeq(v, w + 1, w + Len(part)) = part
      BY <1>3, <1>11, <3>2, <3>3, <3>4, PartIs
    <3>6. w + Len(part) = Len(v)
      BY <1>3, <2>2, <3>2
    <3>7. QED
      BY <2>2, <3>5, <3>6 DEF part
  <2>3. QED
    BY <1>11, <2>1, <2>2
<1>16. m \in 1 .. Len(Files) /\ files \in Increasing(m, DOMAIN Files)
  BY <1>6, <1>9, <1>10 DEF files
<1>17. names = [x \in 1 .. m |-> Files[files[x]]]
  BY <1>9 DEF files
<1>18. SubSeq(v, 1, w) = SubSeq(argv, 1, w)
  BY <1>14 DEF before
<1> DEFINE Tails(k, f, t) ==
             LET ns == [x \in 1 .. k |-> Files[f[x]]]
             IN  t = ns \/ (Behind # <<>> /\ t = Append(ns, Last(Behind)))
<1>19. Tails(m, files, tail)
  BY <1>15, <1>17
<1> HIDE DEF tail, Tails
<1>20. \E k \in 1 .. Len(Files) : \E f \in Increasing(k, DOMAIN Files) : Tails(k, f, tail)
  BY <1>16, <1>19
<1>21. QED
  BY <1>18, <1>20, Zenon DEF Fresh, Tails, tail, v, w, argv

(***************************************************************************)
(* What holds of the command line                                          *)
(***************************************************************************)
(* What getcmd() hands to main() is within its buffers, is the words of    *)
(* the line in their order, and is counted right (s_sh.c:1580-1730).       *)
THEOREM LineAlwaysCut == CmdSpec => []LineCut
<1>1. CmdInv => LineCut
  BY CutAlways DEF LineCut
<1>2. QED
  BY <1>1, AlwaysCmdInv, PTL

(* "history" lists the last commands in order with their own lines, and    *)
(* "! num" runs the line of that number, however often the ring went round *)
(* (s_sh.c:1219-1255, 1479-1514).                                          *)
THEOREM HistoryAlwaysKept == CmdSpec => HistoryKept
<1> DEFINE Original ==
      \A b \in Endings, d \in {"1", "2", "3"} :
        EnterLine(b) /\ cmdbuf = <<"!", "sp", d>> /\ cmd'.count > 0 =>
          /\ Digits[d] < command_num
          /\ lines'[command_num] = lines[Digits[d]]
<1>1. CmdInv => HistoryRing
  BY RingListed
<1>2. CmdInv => Original
  BY RepeatStep
<1>3. CmdInv => [Original]_cmdVars
  BY <1>2
<1>4. QED
  BY <1>1, <1>3, AlwaysCmdInv, PTL DEF HistoryKept, RepeatIsOriginal

(* What is executed in the place of a wildcard are the arguments before it,*)
(* file names in order and at most the last argument: nothing of an earlier*)
(* expansion (s_sh.c:1845-1988).                                           *)
THEOREM ExpansionAlwaysFresh == CmdSpec => ExpansionFresh
<1> DEFINE Clean == executed' # executed /\ ~cmd.nowildcard => Fresh(executed')
<1>1. CmdInv /\ [CmdNext]_cmdVars => [Clean]_cmdVars
  BY ExpansionStep
<1>2. CmdSpec => [][Clean]_cmdVars
  BY <1>1, AlwaysCmdInv, PTL DEF CmdSpec
<1>3. QED
  BY <1>2 DEF ExpansionFresh, Fresh

(***************************************************************************)
(* Job control                                                             *)
(***************************************************************************)
(* A set of slots that is not empty has a first one: the search of main()  *)
(* and the one of child_exit() end on a slot they look for.                *)
LEMMA FirstOfIn ==
  ASSUME NEW S, S \subseteq Slots, S # {} PROVE FirstOf(S) \in S
<1>1. S \subseteq Nat
  BY ShellAssumption DEF Slots
<1>2. PICK x \in S : \A y \in S : <<y, x>> \notin OpToRel(<, Nat)
  BY <1>1, WFMin, NatLessThanWellFounded
<1>3. \A y \in S : x <= y
  <2>1. \A y \in S : ~(y < x)
    BY <1>1, <1>2 DEF OpToRel
  <2>2. QED
    BY <1>1, <2>1
<1>4. QED
  BY <1>3 DEF FirstOf

(* child_exit() empties at most one slot, and one that holds the process.  *)
LEMMA ProcAfterFrees ==
  ASSUME NEW p \in Pids, proc \in [Slots -> Pids \cup {0}]
  PROVE  /\ ProcAfter(p) \in [Slots -> Pids \cup {0}]
         /\ \A i \in Slots : \/ ProcAfter(p)[i] = proc[i]
                             \/ (ProcAfter(p)[i] = 0 /\ proc[i] = p)
<1>1. CASE SlotsHolding(p) = {}
  BY <1>1 DEF ProcAfter
<1>2. CASE SlotsHolding(p) # {}
  <2>1. FirstOf(SlotsHolding(p)) \in SlotsHolding(p)
    BY <1>2, FirstOfIn DEF SlotsHolding
  <2>2. QED
    BY <1>2, <2>1 DEF ProcAfter, SlotsHolding
<1>3. QED
  BY <1>1, <1>2

USE DEF Alive, Live, Dead, Ended, Masked, MainAt, GoTo, ghosts

(* The shell starts with no child, an empty proc[] and nothing to wait for. *)
THEOREM InitIInv == Init => IInv
<1> USE ShellAssumption
<1>1. Init => TypeOK
  <2>1. 0 \in 0 .. PROCESS_LINES
    OBVIOUS
  <2>2. QED
    BY <2>1 DEF Init, TypeOK
<1>2. QED
  BY <1>1 DEF Init, IInv, RoleInv, ForegroundInv, SlotInv, JobInv, EndInv, ExitKillsJobs

(* The steps of main() *)
LEMMA MainIInv ==
  ASSUME IInv, MainStep PROVE IInv'
<1> USE ShellAssumption DEF IInv
<1>1. CASE Prompt \/ ForkFails \/ BlockSigcld \/ TestInline \/ RestoreMask
  <2> USE <1>1 DEF Prompt, ForkFails, BlockSigcld, TestInline, RestoreMask,
                   tableVars, childVars
  <2>1. TypeOK'
    <3>1. CASE Prompt
      BY <3>1 DEF TypeOK
    <3>2. CASE ForkFails
      BY <3>2 DEF TypeOK
    <3>3. CASE BlockSigcld
      BY <3>3 DEF TypeOK
    <3>4. CASE TestInline
      BY <3>4 DEF TypeOK
    <3>5. CASE RestoreMask
      BY <3>5 DEF TypeOK
    <3>6. QED
      BY <1>1, <3>1, <3>2, <3>3, <3>4, <3>5
  <2>2. RoleInv' /\ ForegroundInv'
    BY <2>1 DEF TypeOK, RoleInv, ForegroundInv
  <2>3. SlotInv' /\ JobInv' /\ EndInv' /\ ExitKillsJobs'
    BY <2>1 DEF TypeOK, SlotInv, JobInv, EndInv, ExitKillsJobs
  <2>4. QED
    BY <2>1, <2>2, <2>3
<1>2. CASE Fork
  <2> USE <1>2 DEF Fork, tableVars
  <2>1. TypeOK'
    BY DEF TypeOK
  <2>2. RoleInv' /\ ForegroundInv'
    BY <2>1 DEF TypeOK, RoleInv, ForegroundInv
  <2>3. SlotInv' /\ JobInv' /\ EndInv' /\ ExitKillsJobs'
    BY <2>1 DEF TypeOK, SlotInv, JobInv, EndInv, ExitKillsJobs
  <2>4. QED
    BY <2>1, <2>2, <2>3
<1>3. CASE Record
  <2> USE <1>3 DEF Record, childVars
  <2>1. TypeOK'
    BY DEF TypeOK
  <2>2. RoleInv' /\ ForegroundInv'
    BY <2>1 DEF TypeOK, RoleInv, ForegroundInv
  <2>3. SlotInv' /\ JobInv' /\ EndInv' /\ ExitKillsJobs'
    BY <2>1 DEF TypeOK, SlotInv, JobInv, EndInv, ExitKillsJobs
  <2>4. QED
    BY <2>1, <2>2, <2>3
<1>4. CASE SetInline
  <2> USE <1>4 DEF SetInline, ReapedEarly, childVars
  <2>1. TypeOK'
    BY DEF TypeOK
  <2>2. RoleInv' /\ ForegroundInv'
    BY <2>1 DEF TypeOK, RoleInv, ForegroundInv
  <2>3. SlotInv' /\ JobInv' /\ EndInv' /\ ExitKillsJobs'
    BY <2>1 DEF TypeOK, SlotInv, JobInv, EndInv, ExitKillsJobs
  <2>4. QED
    BY <2>1, <2>2, <2>3
<1>5. QED
  BY <1>1, <1>2, <1>3, <1>4 DEF MainStep

(* The commands read *)
LEMMA CommandIInv ==
  ASSUME IInv, Command PROVE IInv'
<1> USE ShellAssumption DEF IInv
<1>1. CASE ReadOther \/ ReadInline \/ ReadEnd
  <2> USE <1>1 DEF ReadOther, ReadInline, ReadEnd, tableVars, childVars
  <2>1. TypeOK'
    BY DEF TypeOK
  <2>2. RoleInv' /\ ForegroundInv'
    BY <2>1 DEF TypeOK, RoleInv, ForegroundInv
  <2>3. SlotInv' /\ JobInv' /\ EndInv' /\ ExitKillsJobs'
    BY <2>1 DEF TypeOK, ForegroundInv, SlotInv, JobInv, EndInv, ExitKillsJobs
  <2>4. QED
    BY <2>1, <2>2, <2>3
<1>2. CASE ReadJob
  <2> USE <1>2 DEF ReadJob, tableVars, childVars
  <2>1. FreeSlots # {} => FirstOf(FreeSlots) \in Slots /\ proc[FirstOf(FreeSlots)] = 0
    BY FirstOfIn DEF FreeSlots
  <2>2. PROCESS_LINES \in 0 .. PROCESS_LINES /\ Slots \subseteq 0 .. PROCESS_LINES
    BY DEF Slots
  <2>3. TypeOK'
    <3>1. CASE FreeSlots # {}
      BY <2>1, <2>2, <3>1 DEF TypeOK
    <3>2. CASE FreeSlots = {}
      BY <2>2, <3>2 DEF TypeOK, ForegroundInv
    <3>3. QED
      BY <3>1, <3>2
  <2>4. RoleInv' /\ ForegroundInv'
    BY <2>3 DEF TypeOK, RoleInv, ForegroundInv
  <2>5. SlotInv' /\ JobInv' /\ EndInv' /\ ExitKillsJobs'
    BY <2>1, <2>3 DEF TypeOK, SlotInv, JobInv, EndInv, ExitKillsJobs
  <2>6. QED
    BY <2>3, <2>4, <2>5
<1>3. CASE ReadExit
  <2> USE <1>3 DEF ReadExit, tableVars
  <2>1. TypeOK'
    BY DEF TypeOK
  <2>2. RoleInv' /\ ForegroundInv'
    BY <2>1 DEF TypeOK, RoleInv, ForegroundInv
  <2>3. ExitKillsJobs'
    BY DEF TypeOK, JobInv, ExitKillsJobs, Listed
  <2>4. SlotInv' /\ JobInv' /\ EndInv'
    BY <2>1 DEF TypeOK, SlotInv, JobInv, EndInv
  <2>5. QED
    BY <2>1, <2>2, <2>3, <2>4
<1>4. QED
  BY <1>1, <1>2, <1>3 DEF Command

(* The SIGCLD handler *)
LEMMA HandlerIInv ==
  ASSUME IInv, HandlerStep PROVE IInv'
<1> USE ShellAssumption DEF IInv
<1>1. CASE Deliver \/ FalseAlarm
  <2> USE <1>1 DEF Deliver, FalseAlarm, mainVars, tableVars, childVars
  <2>1. TypeOK'
    <3>1. CASE Deliver
      BY <3>1 DEF TypeOK
    <3>2. CASE FalseAlarm
      BY <3>2, ZenonT(60) DEF TypeOK
    <3>3. QED
      BY <1>1, <3>1, <3>2
  <2>2. RoleInv' /\ ForegroundInv'
    BY <2>1 DEF TypeOK, RoleInv, ForegroundInv
  <2>3. SlotInv' /\ JobInv' /\ EndInv' /\ ExitKillsJobs'
    BY <2>1 DEF TypeOK, SlotInv, JobInv, EndInv, ExitKillsJobs
  <2>4. QED
    BY <2>1, <2>2, <2>3
<1>2. CASE Reap
  <2>1. PICK p \in Dead :
          /\ child' = [child EXCEPT ![p] = "none"]
          /\ role' = [role EXCEPT ![p] = "none"]
          /\ inherited' = [inherited EXCEPT ![p] = {}]
          /\ last_SIGCLD' = p
          /\ inline_opid' = InlineAfter(p)
          /\ proc' = ProcAfter(p)
    BY <1>2 DEF Reap
  <2> USE <1>2, <2>1 DEF Reap, mainVars
  <2>2. /\ proc' \in [Slots -> Pids \cup {0}]
        /\ \A i \in Slots : proc'[i] = proc[i] \/ (proc'[i] = 0 /\ proc[i] = p)
    BY ProcAfterFrees DEF TypeOK
  <2>3. TypeOK'
    BY <2>2 DEF TypeOK, InlineAfter
  <2>4. RoleInv' /\ ForegroundInv'
    BY <2>3 DEF TypeOK, RoleInv, ForegroundInv, InlineAfter
  <2>5. SlotInv'
    BY <2>2, <2>3 DEF TypeOK, SlotInv
  <2>6. JobInv'
    <3> SUFFICES ASSUME NEW q \in Pids, child'[q] \in Alive, role'[q] = "job"
                 PROVE  \/ pc' \in Ended
                        \/ \E i \in Slots : proc'[i] = q
                        \/ pc' = "forked" /\ no_waitflag' /\ opid' = q
      BY DEF JobInv
    <3>1. q # p /\ q \in Live /\ role[q] = "job"
      BY DEF TypeOK
    <3>2. QED
      BY <2>2, <3>1 DEF JobInv
  <2>7. EndInv' /\ ExitKillsJobs'
    BY DEF EndInv, ExitKillsJobs
  <2>8. QED
    BY <2>3, <2>4, <2>5, <2>6, <2>7
<1>3. QED
  BY <1>1, <1>2 DEF HandlerStep

(* The children *)
LEMMA KilledIInv ==
  ASSUME IInv, NEW S, Killed(S), pc \notin Ended,
         UNCHANGED <<mainVars, tableVars, role, inherited, handler, ghosts>>
  PROVE  IInv'
<1> USE DEF IInv, Killed, mainVars, tableVars
<1>1. TypeOK'
  BY DEF TypeOK
<1>2. RoleInv' /\ ForegroundInv'
  BY <1>1 DEF TypeOK, RoleInv, ForegroundInv
<1>3. \A p \in Pids : child'[p] \in Alive => p \in Live
  BY DEF TypeOK
<1>4. JobInv'
  BY <1>3 DEF JobInv
<1>5. SlotInv' /\ EndInv' /\ ExitKillsJobs'
  BY DEF SlotInv, EndInv, ExitKillsJobs
<1>6. QED
  BY <1>1, <1>2, <1>4, <1>5

(* A child is told apart, runs, stops or dies without main() and the handler.*)
LEMMA ChildIInv ==
  ASSUME IInv, NEW p \in Pids, Die(p) \/ CopyExits(p) \/ Stop(p) \/ Continue(p)
  PROVE  IInv'
<1>1. CASE Die(p) \/ CopyExits(p)
  BY <1>1, KilledIInv DEF Die, CopyExits
<1>2. CASE Stop(p) \/ Continue(p)
  <2> USE <1>2 DEF IInv, Stop, Continue, mainVars, tableVars
  <2>1. TypeOK'
    <3>1. CASE Stop(p)
      BY <3>1 DEF TypeOK
    <3>2. CASE Continue(p)
      BY <3>2 DEF TypeOK
    <3>3. QED
      BY <1>2, <3>1, <3>2
  <2>2. RoleInv' /\ ForegroundInv'
    BY <2>1 DEF TypeOK, RoleInv, ForegroundInv
  <2>3. SlotInv' /\ JobInv' /\ EndInv' /\ ExitKillsJobs'
    BY <2>1 DEF TypeOK, SlotInv, JobInv, EndInv, ExitKillsJobs
  <2>4. QED
    BY <2>1, <2>2, <2>3
<1>3. QED
  BY <1>1, <1>2

(* Every step of the shell, its handler, its children and the kernel       *)
(* preserves the invariant.                                                *)
THEOREM NextIInv == IInv /\ [Next]_vars => IInv'
<1>1. ASSUME IInv, UNCHANGED vars PROVE IInv'
  BY <1>1 DEF vars, mainVars, tableVars, childVars, IInv, TypeOK, RoleInv,
     ForegroundInv, SlotInv, JobInv, EndInv, ExitKillsJobs
<1>2. QED
  BY <1>1, MainIInv, CommandIInv, HandlerIInv, ChildIInv DEF Next, ChildStep

(* So it holds always: what main() and child_exit() take for granted.      *)
THEOREM SpecIInv == Spec => []IInv
  BY InitIInv, NextIInv, PTL DEF Spec

(* Every variable keeps its type: proc[no_waitslot] is never out of bounds. *)
THEOREM TypeCorrect == Spec => []TypeOK
<1>1. IInv => TypeOK
  BY DEF IInv
<1>2. QED
  BY <1>1, SpecIInv, PTL

(* The shell never prompts while its last inline command is unreaped.      *)
THEOREM InlineCommandsFinish == Spec => []ForegroundWaited
<1>1. IInv => ForegroundWaited
  BY DEF IInv, ForegroundInv, ForegroundWaited
<1>2. QED
  BY <1>1, SpecIInv, PTL

(* A living job is always in the table when a command is read.             *)
THEOREM JobsListed == Spec => []LiveJobListed
<1>1. IInv => LiveJobListed
  BY DEF IInv, JobInv, LiveJobListed
<1>2. QED
  BY <1>1, SpecIInv, PTL

(* "exit" leaves no job behind.                                            *)
THEOREM ExitIsClean == Spec => []ExitKillsJobs
<1>1. IInv => ExitKillsJobs
  BY DEF IInv
<1>2. QED
  BY <1>1, SpecIInv, PTL

(* A slot changes hands only through the death of its process.             *)
THEOREM SlotsKept == Spec => SlotKeptUntilDeath
<1> DEFINE Kept ==
      \A i \in Slots : proc[i] # 0 /\ proc'[i] # proc[i] =>
        /\ proc'[i] = 0
        /\ child[proc[i]] = "zombie" /\ child'[proc[i]] = "none"
<1>1. ASSUME IInv, Next PROVE Kept
  <2>1. CASE Record
    BY <1>1, <2>1 DEF Record, IInv, TypeOK, SlotInv
  <2>2. CASE Reap
    <3>1. PICK p \in Dead : child' = [child EXCEPT ![p] = "none"] /\ proc' = ProcAfter(p)
      BY <2>2 DEF Reap
    <3>2. \A i \in Slots : proc'[i] = proc[i] \/ (proc'[i] = 0 /\ proc[i] = p)
      BY <1>1, <3>1, ProcAfterFrees DEF IInv, TypeOK
    <3>3. QED
      BY <1>1, <3>1, <3>2 DEF IInv, TypeOK
  <2>3. CASE \/ Prompt \/ Fork \/ ForkFails \/ BlockSigcld \/ SetInline
             \/ TestInline \/ RestoreMask \/ Command \/ Deliver \/ FalseAlarm \/ ChildStep
    BY <2>3 DEF Prompt, Fork, ForkFails, BlockSigcld, SetInline, TestInline, RestoreMask,
       Command, ReadOther, ReadInline, ReadJob, ReadExit, ReadEnd, Deliver, FalseAlarm,
       ChildStep, Die, CopyExits, Stop, Continue, tableVars
  <2>4. QED
    BY <1>1, <2>1, <2>2, <2>3 DEF Next, MainStep, HandlerStep
<1>2. ASSUME UNCHANGED vars PROVE Kept
  BY <1>2 DEF vars, tableVars
<1>3. IInv /\ [Next]_vars => [Kept]_vars
  BY <1>1, <1>2
<1>4. QED
  BY <1>3, SpecIInv, PTL DEF Spec, SlotKeptUntilDeath

(* Main result for proc[]: jobs are listed while they live, one to a slot, *)
(* and none is left when the shell exits.                                  *)
THEOREM JobsAreKept == Spec => JobsKept
  BY JobsListed, SlotsKept, ExitIsClean, PTL DEF JobsKept

(* Without stops the wait() of child_exit() always finds a dead child: as  *)
(* many as there are SIGCLDs pending or being handled.                     *)
LEMMA KilledZombie ==
  ASSUME IInv, ZombieInv, NEW S, NEW p \in S, p \in Live, Killed(S),
         UNCHANGED <<handler, stops>>
  PROVE  ZombieInv'
<1>1. \A q \in Dead : child'[q] = "zombie" /\ q # p
  BY DEF Killed, IInv, TypeOK
<1>2. child'[p] = "zombie"
  BY DEF Killed
<1>3. ~stops => \A q \in Pids : child'[q] # "stopped"
  BY DEF Killed, ZombieInv
<1>4. QED
  BY <1>1, <1>2, <1>3 DEF ZombieInv

(* A step that raises SIGCLD or starts the handler leaves a zombie for each.*)
LEMMA NextZombie == ASSUME IInv, ZombieInv, Next PROVE ZombieInv'
<1>1. CASE MainStep
  <2>1. CASE Fork
    BY <2>1 DEF Fork, ZombieInv, IInv, TypeOK
  <2>2. CASE \/ Prompt \/ ForkFails \/ Record \/ BlockSigcld \/ SetInline
             \/ TestInline \/ RestoreMask
    BY <2>2 DEF Prompt, ForkFails, Record, BlockSigcld, SetInline, TestInline,
       RestoreMask, ZombieInv, childVars
  <2>3. QED
    BY <1>1, <2>1, <2>2 DEF MainStep
<1>2. CASE Command
  BY <1>2 DEF Command, ReadOther, ReadInline, ReadJob, ReadExit, ReadEnd,
     ZombieInv, childVars
<1>3. CASE HandlerStep
  BY <1>3 DEF HandlerStep, Deliver, Reap, FalseAlarm, ZombieInv, childVars, IInv, TypeOK
<1>4. CASE ChildStep
  <2>1. PICK p \in Pids : Die(p) \/ CopyExits(p) \/ Stop(p) \/ Continue(p)
    BY <1>4 DEF ChildStep
  <2>2. CASE Die(p)
    BY <2>2, KilledZombie DEF Die
  <2>3. CASE CopyExits(p)
    BY <2>3, KilledZombie DEF CopyExits
  <2>4. CASE Stop(p)
    BY <2>4 DEF Stop, ZombieInv
  <2>5. CASE Continue(p)
    BY <2>5 DEF Continue, ZombieInv
  <2>6. QED
    BY <2>1, <2>2, <2>3, <2>4, <2>5
<1>5. QED
  BY <1>1, <1>2, <1>3, <1>4 DEF Next

(* wait() in child_exit() (s_sh.c:1134) finds a dead child and does not     *)
(* block the shell, as long as no child has been stopped.                   *)
THEOREM WaitReturns == Spec => []WaitHasZombie
<1>1. Init => ZombieInv
  BY DEF Init, ZombieInv
<1>2. IInv /\ ZombieInv /\ [Next]_vars => ZombieInv'
  <2>1. ASSUME ZombieInv, UNCHANGED vars PROVE ZombieInv'
    BY <2>1 DEF ZombieInv, vars, childVars
  <2>2. QED
    BY <2>1, NextZombie
<1>3. ZombieInv => WaitHasZombie
  BY DEF ZombieInv, WaitHasZombie
<1>4. QED
  BY <1>1, <1>2, <1>3, SpecIInv, PTL DEF Spec
=============================================================================
