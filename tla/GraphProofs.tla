------------------------------ MODULE GraphProofs ------------------------------
(***************************************************************************)
(* ngraph.c for every network and every pair of its nodes.  The answers of *)
(* short_path() are shortest paths.  max_flow() finds a flow whose value   *)
(* is the capacity of the smallest cut, and each step on the way to it     *)
(* moves what find_ref() found room for, if the capacities in the file are *)
(* below INFTY.                                                            *)
(***************************************************************************)
EXTENDS Graph, SequenceTheorems, FiniteSetTheorems, WellFoundedInduction, TLAPS

(***************************************************************************)
(* Sequences of sequences, put together                                    *)
(***************************************************************************)
(* Induction over the natural numbers, for a set of them. *)
LEMMA Induction ==
  ASSUME NEW T, 0 \in T, \A n \in Nat : n \in T => n + 1 \in T
  PROVE  Nat \subseteq T
<1> DEFINE Rest == {n \in Nat : n \notin T}
<1>1. ASSUME NEW n \in Rest, \A m \in Rest : <<m, n>> \notin OpToRel(<, Nat) PROVE FALSE
  <2>1. n \in Nat /\ n \notin T
    OBVIOUS
  <2>2. n # 0
    BY <2>1
  <2>3. n - 1 \in Nat /\ n - 1 < n /\ (n - 1) + 1 = n
    BY <2>1, <2>2
  <2>4. n - 1 \notin T
    BY <2>1, <2>3
  <2>5. <<n - 1, n>> \in OpToRel(<, Nat)
    BY <2>1, <2>3 DEF OpToRel
  <2>6. QED
    BY <1>1, <2>3, <2>4, <2>5
<1>2. Rest \subseteq Nat
  OBVIOUS
<1> HIDE DEF Rest
<1>3. Rest = {}
  BY <1>1, <1>2, WFMin, NatLessThanWellFounded
<1>4. QED
  BY <1>3 DEF Rest

(* The function that FlattenSeq() computes: the first i of the sequences,   *)
(* put together.                                                            *)
Sums(s, n, f) ==
  f = [i \in 1 .. n |-> IF i = 1 THEN s[i] ELSE f[i - 1] \o s[i]]

(* There is such a function, whatever the sequences are. *)
LEMMA SumsExist ==
  ASSUME NEW s, NEW n \in Nat
  PROVE  \E f : Sums(s, n, f)
<1> DEFINE T == {m \in Nat : \E f : Sums(s, m, f)}
<1>1. 0 \in T
  <2>1. Sums(s, 0, [i \in 1 .. 0 |-> <<>>])
    BY DEF Sums
  <2>2. QED
    BY <2>1
<1>2. ASSUME NEW m \in Nat, m \in T PROVE m + 1 \in T
  <2>1. PICK f : Sums(s, m, f)
    BY <1>2
  <2> DEFINE g == [i \in 1 .. m + 1 |-> IF i = 1 THEN s[i] ELSE f[i - 1] \o s[i]]
  <2>2. ASSUME NEW i \in 1 .. m PROVE g[i] = f[i]
    <3>1. f[i] = IF i = 1 THEN s[i] ELSE f[i - 1] \o s[i]
      BY <2>1 DEF Sums
    <3>2. i \in 1 .. m + 1
      OBVIOUS
    <3>3. QED
      BY <3>1, <3>2
  <2>3. ASSUME NEW i \in 1 .. m + 1, i # 1 PROVE g[i] = g[i - 1] \o s[i]
    <3>1. i - 1 \in 1 .. m
      BY <2>3
    <3>2. g[i - 1] = f[i - 1]
      BY <2>2, <3>1
    <3>3. QED
      BY <2>3, <3>2
  <2>4. g = [i \in 1 .. m + 1 |-> IF i = 1 THEN s[i] ELSE g[i - 1] \o s[i]]
    BY <2>3
  <2> HIDE DEF g
  <2>5. Sums(s, m + 1, g)
    BY <2>4 DEF Sums
  <2>6. QED
    BY <2>5
<1> HIDE DEF T
<1>3. Nat \subseteq T
  BY <1>1, <1>2, Induction
<1>4. QED
  BY <1>3 DEF T

(* FlattenSeq() is its last value. *)
LEMMA FlattenIs ==
  ASSUME NEW S, NEW s \in Seq(S)
  PROVE  /\ Len(s) = 0 => FlattenSeq(s) = <<>>
         /\ Len(s) # 0 => \E f : Sums(s, Len(s), f) /\ FlattenSeq(s) = f[Len(s)]
<1>1. Len(s) \in Nat
  BY LenProperties
<1>2. Len(s) = 0 => FlattenSeq(s) = <<>>
  BY EmptySeq DEF FlattenSeq
<1>3. ASSUME Len(s) # 0 PROVE \E f : Sums(s, Len(s), f) /\ FlattenSeq(s) = f[Len(s)]
  <2> DEFINE F == CHOOSE f : Sums(s, Len(s), f)
  <2>1. Sums(s, Len(s), F)
    BY <1>1, SumsExist
  <2>2. FlattenSeq(s) = F[Len(s)]
    BY <1>3 DEF FlattenSeq, Sums
  <2>3. QED
    BY <2>1, <2>2
<1>4. QED
  BY <1>2, <1>3

(***************************************************************************)
(* The reference: lengths of paths with at most n arcs                     *)
(***************************************************************************)
(* A set of numbers that is not empty has a smallest one.                  *)
LEMMA MinIs ==
  ASSUME NEW S, S \subseteq Nat, S # {}
  PROVE  Min(S) \in S /\ \A x \in S : Min(S) <= x
<1>1. PICK x \in S : \A y \in S : <<y, x>> \notin OpToRel(<, Nat)
  BY WFMin, NatLessThanWellFounded
<1>2. \A y \in S : x <= y
  <2>1. \A y \in S : ~(y < x)
    BY <1>1 DEF OpToRel
  <2>2. QED
    BY <2>1
<1>3. QED
  BY <1>2 DEF Min

(* What is known of the network once it has been read.                     *)
Network ==
  /\ numnodes \in Nat
  /\ metric \in [Nodes -> [Nodes -> Nat]]
  /\ \A i, j \in Nodes : metric[i][j] = metric[j][i]

\* Arcs have positive metrics, the same both ways.
LEMMA ArcsAre ==
  ASSUME Network
  PROVE  \A i, j \in Nodes :
           /\ metric[i][j] \in Nat /\ metric[i][j] = metric[j][i]
           /\ <<i, j>> \in Arcs <=> metric[i][j] # 0 /\ metric[i][j] # INFTY
           /\ <<i, j>> \in Arcs <=> <<j, i>> \in Arcs
           /\ <<i, j>> \in Arcs => metric[i][j] > 0
<1>1. \A i, j \in Nodes : metric[i][j] \in Nat /\ metric[i][j] = metric[j][i]
  BY DEF Network
<1>2. \A i, j \in Nodes : <<i, j>> \in Arcs <=> metric[i][j] # 0 /\ metric[i][j] # INFTY
  BY DEF Arcs
<1> SUFFICES ASSUME NEW i \in Nodes, NEW j \in Nodes
             PROVE  /\ metric[i][j] \in Nat /\ metric[i][j] = metric[j][i]
                    /\ <<i, j>> \in Arcs <=> metric[i][j] # 0 /\ metric[i][j] # INFTY
                    /\ <<i, j>> \in Arcs <=> <<j, i>> \in Arcs
                    /\ <<i, j>> \in Arcs => metric[i][j] > 0
  OBVIOUS
<1>3. metric[i][j] \in Nat /\ metric[i][j] = metric[j][i]
  BY <1>1
<1>4. <<i, j>> \in Arcs <=> metric[i][j] # 0 /\ metric[i][j] # INFTY
  BY <1>2, Zenon
<1>5. <<j, i>> \in Arcs <=> metric[j][i] # 0 /\ metric[j][i] # INFTY
  BY <1>2, Zenon
<1>6. <<i, j>> \in Arcs <=> <<j, i>> \in Arcs
  <2> DEFINE x == metric[i][j]  y == metric[j][i]  a == <<i, j>> \in Arcs  b == <<j, i>> \in Arcs
  <2>1. x = y /\ (a <=> x # 0 /\ x # INFTY) /\ (b <=> y # 0 /\ y # INFTY)
    BY <1>3, <1>4, <1>5
  <2> HIDE DEF x, y, a, b
  <2>2. a <=> b
    BY <2>1
  <2>3. QED
    BY <2>2 DEF a, b
<1>7. <<i, j>> \in Arcs => metric[i][j] > 0
  <2> SUFFICES ASSUME <<i, j>> \in Arcs PROVE metric[i][j] > 0
    OBVIOUS
  <2>1. metric[i][j] # 0
    BY <1>4
  <2>2. QED
    BY <1>3, <2>1
<1>8. QED
  BY <1>3, <1>4, <1>6, <1>7, Zenon

(* One arc more: a path as short as before, or one that begins with an arc.*)
LEMMA OneMoreIs ==
  ASSUME Network, NEW h \in [Nodes -> Nat]
  PROVE  /\ OneMore(h) \in [Nodes -> Nat]
         /\ \A i \in Nodes : OneMore(h)[i] <= h[i]
         /\ \A i, j \in Nodes : <<i, j>> \in Arcs => OneMore(h)[i] <= metric[i][j] + h[j]
         /\ \A i \in Nodes : \/ OneMore(h)[i] = h[i]
                             \/ \E j \in Nodes : /\ <<i, j>> \in Arcs
                                                 /\ OneMore(h)[i] = metric[i][j] + h[j]
<1> DEFINE S(i) == {h[i]} \cup {metric[i][j] + h[j] : j \in {j \in Nodes : <<i, j>> \in Arcs}}
           m == OneMore(h)
<1>1. m = [i \in Nodes |-> Min(S(i))]
  BY DEF OneMore
<1>2. ASSUME NEW i \in Nodes PROVE S(i) \subseteq Nat /\ S(i) # {}
  <2>1. h[i] \in Nat /\ \A j \in Nodes : metric[i][j] + h[j] \in Nat
    <3>1. \A j \in Nodes : metric[i][j] \in Nat
      BY <1>2 DEF Network
    <3>2. QED
      BY <1>2, <3>1
  <2>2. QED
    BY <2>1
<1>3. ASSUME NEW i \in Nodes PROVE Min(S(i)) \in S(i) /\ \A x \in S(i) : Min(S(i)) <= x
  <2> HIDE DEF S
  <2>1. QED
    BY <1>2, MinIs
<1>4. \A i \in Nodes : m[i] = Min(S(i))
  BY <1>1
<1> HIDE DEF m
<1>5. \A i \in Nodes : m[i] \in S(i) /\ m[i] \in Nat /\ \A x \in S(i) : m[i] <= x
  <2> HIDE DEF S
  <2>1. QED
    BY <1>2, <1>3, <1>4
<1>6. m \in [Nodes -> Nat]
  <2>1. m = [i \in Nodes |-> m[i]]
    BY <1>1, <1>4
  <2>2. QED
    BY <1>5, <2>1
<1>7. \A i \in Nodes : m[i] <= h[i]
  BY <1>5
<1>8. ASSUME NEW i \in Nodes, NEW j \in Nodes, <<i, j>> \in Arcs
      PROVE  m[i] <= metric[i][j] + h[j]
  <2>1. metric[i][j] + h[j] \in S(i)
    BY <1>8
  <2> HIDE DEF S
  <2>2. QED
    BY <1>5, <2>1
<1>9. \A i \in Nodes : m[i] = h[i] \/ \E j \in Nodes : <<i, j>> \in Arcs /\ m[i] = metric[i][j] + h[j]
  BY <1>5
<1>10. QED
  BY <1>6, <1>7, <1>8, <1>9 DEF m

(* The function that Distance() computes.                                  *)
Start(d) == [i \in Nodes |-> IF i = d THEN 0 ELSE INFTY]
Within(d, N, f) ==
  f = [n \in 0 .. N |-> IF n = 0 THEN Start(d)
                        ELSE LET shorter == f[n - 1] IN OneMore(shorter)]

\* There is such a function for any number of arcs.
LEMMA WithinExists ==
  ASSUME NEW d, NEW N \in Nat
  PROVE  \E f : Within(d, N, f)
<1> DEFINE T == {m \in Nat : \E f : Within(d, m, f)}
<1>1. 0 \in T
  <2>1. Within(d, 0, [n \in 0 .. 0 |-> Start(d)])
    BY DEF Within
  <2>2. QED
    BY <2>1
<1>2. ASSUME NEW m \in Nat, m \in T PROVE m + 1 \in T
  <2>1. PICK f : Within(d, m, f)
    BY <1>2
  <2> DEFINE g == [n \in 0 .. m + 1 |-> IF n = 0 THEN Start(d) ELSE OneMore(f[n - 1])]
  <2>2. ASSUME NEW n \in 0 .. m PROVE g[n] = f[n]
    <3>1. f[n] = IF n = 0 THEN Start(d) ELSE OneMore(f[n - 1])
      BY <2>1 DEF Within
    <3>2. n \in 0 .. m + 1
      OBVIOUS
    <3>3. QED
      BY <3>1, <3>2
  <2>3. ASSUME NEW n \in 0 .. m + 1, n # 0 PROVE g[n] = OneMore(g[n - 1])
    <3>1. n - 1 \in 0 .. m
      BY <2>3
    <3>2. g[n - 1] = f[n - 1]
      BY <2>2, <3>1
    <3>3. QED
      BY <2>3, <3>2
  <2>4. g = [n \in 0 .. m + 1 |-> IF n = 0 THEN Start(d) ELSE OneMore(g[n - 1])]
    BY <2>3
  <2> HIDE DEF g
  <2>5. Within(d, m + 1, g)
    BY <2>4 DEF Within
  <2>6. QED
    BY <2>5
<1> HIDE DEF T
<1>3. Nat \subseteq T
  BY <1>1, <1>2, Induction
<1>4. QED
  BY <1>3 DEF T

(* It is what Distance() looks up.                                         *)
Lengths(d) == CHOOSE f : Within(d, numnodes, f)

\* Distance() is the length with at most numnodes arcs.
LEMMA DistanceIs ==
  ASSUME Network, NEW d, NEW s
  PROVE  Within(d, numnodes, Lengths(d)) /\ Distance(d, s) = Lengths(d)[numnodes][s]
<1>1. Within(d, numnodes, Lengths(d))
  BY WithinExists DEF Network, Lengths
<1>2. Distance(d, s) = Lengths(d)[numnodes][s]
  BY DEF Distance, Lengths, Within, Start
<1>3. QED
  BY <1>1, <1>2

(* Its values: they only get smaller.                                      *)
LEMMA WithinIs ==
  ASSUME Network, NEW d \in Nodes, NEW f, Within(d, numnodes, f)
  PROVE  /\ \A n \in 0 .. numnodes : f[n] \in [Nodes -> Nat]
         /\ f[0] = Start(d)
         /\ \A n \in Nat : n < numnodes => f[n + 1] = OneMore(f[n])
         /\ \A n, m \in 0 .. numnodes : n <= m => \A i \in Nodes : f[m][i] <= f[n][i]
<1>0. INFTY \in Nat /\ numnodes \in Nat
  BY GraphAssumption DEF Network
<1>1. f[0] = Start(d)
  BY <1>0 DEF Within
<1>2. ASSUME NEW n \in Nat, n < numnodes PROVE f[n + 1] = OneMore(f[n])
  <2>1. n + 1 \in 0 .. numnodes /\ n + 1 # 0 /\ (n + 1) - 1 = n
    BY <1>0, <1>2
  <2>2. f[n + 1] = IF n + 1 = 0 THEN Start(d) ELSE OneMore(f[(n + 1) - 1])
    BY <2>1, Zenon DEF Within
  <2>3. QED
    BY <2>1, <2>2
<1> DEFINE T == {n \in Nat : n <= numnodes => f[n] \in [Nodes -> Nat]}
<1>3. 0 \in T
  BY <1>0, <1>1 DEF Start
<1>4. ASSUME NEW n \in Nat, n \in T PROVE n + 1 \in T
  BY <1>0, <1>2, <1>4, OneMoreIs
<1> HIDE DEF T
<1>5. Nat \subseteq T
  BY <1>3, <1>4, Induction
<1>6. \A n \in 0 .. numnodes : f[n] \in [Nodes -> Nat]
  BY <1>0, <1>5 DEF T
<1>7. ASSUME NEW n \in 0 .. numnodes
      PROVE  \A m \in 0 .. numnodes : n <= m => \A i \in Nodes : f[m][i] <= f[n][i]
  <2> DEFINE U == {x \in Nat : n + x <= numnodes => \A i \in Nodes : f[n + x][i] <= f[n][i]}
  <2>1. 0 \in U
    BY <1>6
  <2>2. ASSUME NEW x \in Nat, x \in U PROVE x + 1 \in U
    <3> SUFFICES ASSUME n + (x + 1) <= numnodes, NEW i \in Nodes PROVE f[n + (x + 1)][i] <= f[n][i]
      OBVIOUS
    <3> DEFINE y == n + x
    <3>1. y \in Nat /\ y < numnodes /\ y \in 0 .. numnodes /\ n + (x + 1) = y + 1 /\ y + 1 \in 0 .. numnodes
      BY <1>0
    <3>2. f[y][i] <= f[n][i]
      BY <2>2, <3>1
    <3> HIDE DEF y
    <3>3. f[y + 1] = OneMore(f[y]) /\ f[y] \in [Nodes -> Nat] /\ f[n] \in [Nodes -> Nat]
      BY <1>2, <1>6, <3>1
    <3>4. f[y + 1][i] <= f[y][i] /\ f[y + 1][i] \in Nat
      BY <1>6, <3>1, <3>3, OneMoreIs
    <3>5. f[y + 1][i] <= f[n][i]
      BY <3>2, <3>3, <3>4
    <3>6. QED
      BY <3>1, <3>5
  <2> HIDE DEF U
  <2>3. Nat \subseteq U
    BY <2>1, <2>2, Induction
  <2>4. ASSUME NEW m \in 0 .. numnodes, n <= m PROVE \A i \in Nodes : f[m][i] <= f[n][i]
    <3>1. m - n \in U /\ n + (m - n) = m
      BY <2>3, <2>4
    <3>2. QED
      BY <1>0, <3>1 DEF U
  <2>5. QED
    BY <2>4
<1>8. QED
  BY <1>1, <1>2, <1>6, <1>7

(***************************************************************************)
(* short_path(): what the labels say                                       *)
(***************************************************************************)
Label == [perm: {0, 1}, predecess: Nodes \cup {-1}, len: Nat]
Perm(ns) == {i \in Nodes : ns[i].perm = 1}

\* The labels have their types, the destination is permanent with length 0.
Labelled(ns, w) ==
  /\ ns \in [Nodes -> Label] /\ w \in Nodes /\ dest \in Nodes
  /\ \A i \in Nodes : ns[i].len <= INFTY
  /\ ns[dest].perm = 1 /\ ns[dest].len = 0 /\ ns[dest].predecess = -1
  /\ ns[w].perm = 1
  /\ \A i \in Nodes : ns[i].perm = 1 => ns[i].len < INFTY

\* A label below INFTY leads on, by an arc, to a permanent node.
Led(ns, i) ==
  LET p == ns[i].predecess
  IN  /\ p \in Nodes /\ ns[p].perm = 1 /\ <<i, p>> \in Arcs
      /\ ns[i].len = ns[p].len + metric[i][p]
Traced(ns) == \A i \in Nodes : ns[i].len < INFTY /\ i # dest => Led(ns, i)

\* The working node is the farthest of the permanent ones.
Ordered(ns, w) ==
  /\ \A i \in Nodes : ns[i].perm = 1 => ns[i].len <= ns[w].len
  /\ \A i \in Nodes : ns[i].perm = 0 => ns[w].len <= ns[i].len

\* The neighbours of every other permanent node have been examined.
Examined(ns, w) ==
  \A i, j \in Nodes : ns[i].perm = 1 /\ i # w /\ <<i, j>> \in Arcs =>
                        ns[j].len <= ns[i].len + metric[i][j]

\* No label is below the length of a path with so few arcs.
Count(ns) == Cardinality(Perm(ns))
Above(ns, D) ==
  \A i \in Nodes : D[IF ns[i].perm = 1 THEN Count(ns) ELSE Count(ns) + 1][i] <= ns[i].len

Labels(ns, w, D) ==
  Labelled(ns, w) /\ Traced(ns) /\ Ordered(ns, w) /\ Examined(ns, w) /\ Above(ns, D)

\* The nodes are finitely many numbers.
LEMMA NodesAre ==
  ASSUME numnodes \in Nat
  PROVE  IsFiniteSet(Nodes) /\ Cardinality(Nodes) = numnodes /\ Nodes \subseteq Nat
<1>1. IsFiniteSet(0 .. numnodes - 1)
      /\ Cardinality(0 .. numnodes - 1) = IF 0 > numnodes - 1 THEN 0 ELSE numnodes - 1 - 0 + 1
  BY FS_Interval
<1>2. QED
  BY <1>1 DEF Nodes

\* A part of the nodes, and a node more.
LEMMA CountIs ==
  ASSUME numnodes \in Nat, NEW S, S \subseteq Nodes
  PROVE  /\ Cardinality(S) \in 0 .. numnodes
         /\ \A x \in Nodes : x \notin S =>
              /\ Cardinality(S) + 1 \in 0 .. numnodes
              /\ Cardinality(S \cup {x}) = Cardinality(S) + 1
<1>1. IsFiniteSet(Nodes) /\ Cardinality(Nodes) = numnodes
  BY NodesAre
<1>2. ASSUME NEW T \in SUBSET Nodes
      PROVE  IsFiniteSet(T) /\ Cardinality(T) \in Nat /\ Cardinality(T) <= numnodes
  BY <1>1, <1>2, FS_Subset, FS_CardinalityType
<1>3. IsFiniteSet(S) /\ Cardinality(S) \in Nat /\ Cardinality(S) <= numnodes
  BY <1>2
<1>4. ASSUME NEW x \in Nodes, x \notin S
      PROVE  /\ Cardinality(S) + 1 \in 0 .. numnodes
             /\ Cardinality(S \cup {x}) = Cardinality(S) + 1
  <2>1. Cardinality(S \cup {x}) = Cardinality(S) + 1
    BY <1>3, <1>4, FS_AddElement
  <2>2. Cardinality(S \cup {x}) <= numnodes
    BY <1>2, <1>4
  <2>3. QED
    BY <1>3, <2>1, <2>2
<1>5. QED
  BY <1>3, <1>4

\* The first labels.
LEMMA FirstLabels ==
  ASSUME Network, dest \in Nodes, NEW D, Within(dest, numnodes, D), NEW ns,
         ns = [i \in Nodes |-> [perm |-> IF i = dest THEN 1 ELSE 0,
                                predecess |-> -1,
                                len |-> IF i = dest THEN 0 ELSE INFTY]]
  PROVE  Labels(ns, dest, D)
<1>0. INFTY \in Nat /\ INFTY > 0 /\ numnodes \in Nat
  BY GraphAssumption DEF Network
<1>1. \A i \in Nodes : /\ ns[i].perm = IF i = dest THEN 1 ELSE 0
                       /\ ns[i].predecess = -1
                       /\ ns[i].len = IF i = dest THEN 0 ELSE INFTY
  OBVIOUS
<1>2. ns \in [Nodes -> Label]
  BY <1>0 DEF Label
<1>3. Labelled(ns, dest)
  BY <1>0, <1>1, <1>2 DEF Labelled
<1>4. Traced(ns)
  BY <1>0, <1>1 DEF Traced
<1>5. Ordered(ns, dest)
  BY <1>0, <1>1 DEF Ordered
<1>6. Examined(ns, dest)
  BY <1>1 DEF Examined
<1>7. Above(ns, D)
  <2>1. Perm(ns) = {dest}
    BY <1>1 DEF Perm
  <2>2. Count(ns) = 1
    BY <2>1, FS_Singleton DEF Count
  <2>3. D[0] = Start(dest) /\ \A n \in 0 .. numnodes : D[n] \in [Nodes -> Nat]
    BY WithinIs
  <2>4. \A n \in 0 .. numnodes : \A i \in Nodes : D[n][i] <= D[0][i]
    <3>1. 0 \in 0 .. numnodes /\ \A n \in 0 .. numnodes : 0 <= n
      BY <1>0
    <3>2. QED
      BY <3>1, WithinIs
  <2>5. \A i \in Nodes : D[0][i] = ns[i].len
    BY <1>1, <2>3 DEF Start
  <2>6. 1 \in 0 .. numnodes /\ \A i \in Nodes : ns[i].perm # 1 => 2 \in 0 .. numnodes
    <3>1. Cardinality({dest}) \in 0 .. numnodes
          /\ \A x \in Nodes : x \notin {dest} => Cardinality({dest}) + 1 \in 0 .. numnodes
      BY <1>0, CountIs
    <3>2. Cardinality({dest}) = 1
      BY FS_Singleton
    <3>3. QED
      BY <1>1, <3>1, <3>2
  <2>7. ASSUME NEW i \in Nodes
        PROVE  D[IF ns[i].perm = 1 THEN 1 ELSE 1 + 1][i] <= ns[i].len
    BY <2>4, <2>5, <2>6
  <2>8. QED
    BY <2>2, <2>7 DEF Above
<1>8. QED
  BY <1>3, <1>4, <1>5, <1>6, <1>7 DEF Labels

\* Looking at the neighbours of w turns the labels ns into r.
Looking(ns, r, w) ==
  /\ r \in [Nodes -> Label]
  /\ \A i \in Nodes : r[i].perm = ns[i].perm /\ r[i].len <= ns[i].len
  /\ \A i \in Nodes : \/ r[i] = ns[i]
                      \/ /\ ns[i].perm = 0 /\ <<i, w>> \in Arcs
                         /\ r[i].predecess = w /\ r[i].len = ns[w].len + metric[i][w]
  /\ \A i \in Nodes : ns[i].perm = 0 /\ <<w, i>> \in Arcs => r[i].len <= ns[w].len + metric[w][i]

\* One look at the neighbours of the working node does that (ngraph.c:548-559).
LEMMA RelaxedIs ==
  ASSUME Network, Labelled(nodestate, k)
  PROVE  Looking(nodestate, Relaxed, k)
<1> DEFINE ns == nodestate
           r == Relaxed
           Less(i) == /\ metric[k][i] # 0 /\ metric[k][i] # INFTY
                      /\ ns[i].perm = 0
                      /\ ns[k].len + metric[k][i] < ns[i].len
           New(i) == [ns[i] EXCEPT !.predecess = k, !.len = ns[k].len + metric[k][i]]
<1>1. r = [i \in Nodes |-> IF Less(i) THEN New(i) ELSE ns[i]]
  BY DEF Relaxed
<1>2. ns \in [Nodes -> Label] /\ k \in Nodes
  BY DEF Labelled
<1>3. ASSUME NEW i \in Nodes
      PROVE  /\ ns[i] \in Label /\ ns[i].perm \in {0, 1} /\ ns[i].len \in Nat
             /\ ns[k].len + metric[k][i] \in Nat /\ metric[k][i] = metric[i][k]
             /\ <<k, i>> \in Arcs <=> metric[k][i] # 0 /\ metric[k][i] # INFTY
             /\ <<k, i>> \in Arcs <=> <<i, k>> \in Arcs
  <2>1. ns[i] \in Label /\ ns[k] \in Label
    BY <1>2, <1>3
  <2>2. /\ metric[k][i] \in Nat /\ metric[k][i] = metric[i][k]
        /\ <<k, i>> \in Arcs <=> metric[k][i] # 0 /\ metric[k][i] # INFTY
        /\ <<k, i>> \in Arcs <=> <<i, k>> \in Arcs
    BY <1>2, <1>3, ArcsAre, Zenon
  <2>3. ns[i].perm \in {0, 1} /\ ns[i].len \in Nat /\ ns[k].len \in Nat
    BY <2>1 DEF Label
  <2> HIDE DEF ns
  <2>4. QED
    BY <2>1, <2>2, <2>3
<1>4. ASSUME NEW i \in Nodes
      PROVE  /\ New(i) \in Label /\ New(i).perm = ns[i].perm /\ New(i).predecess = k
             /\ New(i).len = ns[k].len + metric[k][i]
  BY <1>2, <1>3, <1>4 DEF Label
<1> HIDE DEF New, r
<1>5. ASSUME NEW i \in Nodes
      PROVE  /\ r[i] \in Label /\ r[i].perm = ns[i].perm /\ r[i].len <= ns[i].len
             /\ \/ r[i] = ns[i]
                \/ /\ ns[i].perm = 0 /\ <<i, k>> \in Arcs
                   /\ r[i].predecess = k /\ r[i].len = ns[k].len + metric[i][k]
             /\ ns[i].perm = 0 /\ <<k, i>> \in Arcs => r[i].len <= ns[k].len + metric[k][i]
  <2>1. CASE Less(i)
    <3>1. r[i] = New(i)
      BY <1>1, <1>5, <2>1
    <3>2. ns[i].perm = 0 /\ <<i, k>> \in Arcs /\ ns[k].len + metric[k][i] < ns[i].len
      BY <1>3, <1>5, <2>1
    <3> HIDE DEF Less, ns
    <3>3. QED
      BY <1>3, <1>4, <1>5, <3>1, <3>2
  <2>2. CASE ~Less(i)
    <3>1. r[i] = ns[i]
      BY <1>1, <1>5, <2>2
    <3>2. ASSUME ns[i].perm = 0, <<k, i>> \in Arcs PROVE ns[i].len <= ns[k].len + metric[k][i]
      <4>1. metric[k][i] # 0 /\ metric[k][i] # INFTY
        BY <1>3, <1>5, <3>2
      <4>2. ~(ns[k].len + metric[k][i] < ns[i].len)
        BY <2>2, <3>2, <4>1
      <4>3. ns[k].len + metric[k][i] \in Nat /\ ns[i].len \in Nat
        BY <1>3, <1>5
      <4>4. QED
        BY <4>2, <4>3
    <3> HIDE DEF Less, ns
    <3>3. r[i] \in Label /\ r[i].perm = ns[i].perm /\ r[i].len <= ns[i].len
      <4>1. ns[i] \in Label /\ ns[i].len \in Nat
        BY <1>3, <1>5, Zenon
      <4>2. QED
        BY <3>1, <4>1
    <3>4. ns[i].perm = 0 /\ <<k, i>> \in Arcs => r[i].len <= ns[k].len + metric[k][i]
      BY <3>1, <3>2
    <3>5. QED
      BY <3>1, <3>3, <3>4
  <2>3. QED
    BY <2>1, <2>2
<1>6. r = [i \in Nodes |-> r[i]]
  BY <1>1
<1>7. r \in [Nodes -> Label]
  BY <1>5, <1>6
<1>8. QED
  BY <1>5, <1>7 DEF Looking, r

\* The node chosen next, and the labels with it permanent.
Chosen(r, w, v) ==
  \/ v = w /\ \A i \in Nodes : r[i].perm = 0 => ~(r[i].len < INFTY)
  \/ /\ v \in Nodes /\ r[v].perm = 0 /\ r[v].len < INFTY
     /\ \A i \in Nodes : r[i].perm = 0 => r[v].len <= r[i].len

\* The choice of the next working node is such a choice (ngraph.c:561-570).
LEMMA ChosenIs ==
  ASSUME numnodes \in Nat, NEW r \in [Nodes -> Label] PROVE Chosen(r, k, NextWorking(r))
<1> DEFINE tentative == {i \in Nodes : r[i].perm = 0 /\ r[i].len < INFTY}
           smallest == {i \in tentative : \A j \in tentative : r[i].len <= r[j].len}
           lens == {r[i].len : i \in tentative}
<1>0. \A i \in Nodes : r[i].len \in Nat
  BY DEF Label
<1>1. CASE tentative = {}
  <2>1. NextWorking(r) = k
    BY <1>1 DEF NextWorking
  <2>2. \A i \in Nodes : r[i].perm = 0 => ~(r[i].len < INFTY)
    BY <1>1
  <2>3. QED
    BY <2>1, <2>2 DEF Chosen
<1>2. CASE tentative # {}
  <2>1. lens \subseteq Nat /\ lens # {}
    BY <1>0, <1>2
  <2>2. Min(lens) \in lens /\ \A x \in lens : Min(lens) <= x
    <3> HIDE DEF lens
    <3>1. QED
      BY <2>1, MinIs
  <2>3. PICK i \in tentative : r[i].len = Min(lens)
    BY <2>2
  <2>4. \A j \in tentative : r[j].len \in lens
    OBVIOUS
  <2>5. i \in smallest
    BY <2>2, <2>3, <2>4
  <2>6. smallest \subseteq Nat /\ smallest # {}
    BY <2>5, NodesAre
  <2>7. NextWorking(r) = Min(smallest)
    BY <1>2 DEF NextWorking
  <2>8. NextWorking(r) \in smallest
    <3> HIDE DEF smallest
    <3>1. QED
      BY <2>6, <2>7, MinIs
  <2>9. INFTY \in Nat
    BY GraphAssumption
  <2> DEFINE v == NextWorking(r)
  <2>10. v \in Nodes /\ r[v].perm = 0 /\ r[v].len < INFTY
         /\ \A j \in Nodes : r[j].perm = 0 /\ r[j].len < INFTY => r[v].len <= r[j].len
    BY <2>8
  <2> HIDE DEF v
  <2>11. \A j \in Nodes : r[j].perm = 0 => r[v].len <= r[j].len
    BY <1>0, <2>9, <2>10
  <2>12. QED
    BY <2>10, <2>11 DEF Chosen, v
<1>3. QED
  BY <1>1, <1>2

\* One turn of the goto: the working node was w and is v.
Turned(ns, new, w, v) ==
  /\ new \in [Nodes -> Label] /\ v \in Nodes /\ w \in Nodes
  /\ \A i \in Nodes : new[i].perm = IF i = v THEN 1 ELSE ns[i].perm
  /\ \A i \in Nodes : new[i].len <= ns[i].len
  /\ \A i \in Nodes : \/ new[i].len = ns[i].len /\ new[i].predecess = ns[i].predecess
                      \/ /\ ns[i].perm = 0 /\ <<i, w>> \in Arcs
                         /\ new[i].predecess = w /\ new[i].len = ns[w].len + metric[i][w]
  /\ \A i \in Nodes : ns[i].perm = 0 /\ <<w, i>> \in Arcs =>
                        new[i].len <= ns[w].len + metric[w][i]
  /\ \/ v = w /\ \A i \in Nodes : ns[i].perm = 0 => ~(new[i].len < INFTY)
     \/ /\ ns[v].perm = 0 /\ new[v].len < INFTY
        /\ \A i \in Nodes : ns[i].perm = 0 => new[v].len <= new[i].len

\* Look and choice together are one turn of the goto.
LEMMA TurnedIs ==
  ASSUME NEW ns \in [Nodes -> Label], NEW r, NEW w \in Nodes, NEW v,
         ns[w].perm = 1, Looking(ns, r, w), Chosen(r, w, v)
  PROVE  Turned(ns, [r EXCEPT ![v].perm = 1], w, v)
<1> DEFINE new == [r EXCEPT ![v].perm = 1]
<1>1. r \in [Nodes -> Label] /\ v \in Nodes
  BY DEF Looking, Chosen
<1>2. ASSUME NEW i \in Nodes
      PROVE  /\ new[i] \in Label /\ new[i].len = r[i].len /\ new[i].predecess = r[i].predecess
             /\ new[i].perm = IF i = v THEN 1 ELSE ns[i].perm
  <2>1. r[i].perm = ns[i].perm /\ r[i] \in Label
    BY <1>1, <1>2 DEF Looking
  <2>2. CASE i = v
    BY <1>1, <1>2, <2>1, <2>2 DEF Label
  <2>3. CASE i # v
    BY <1>1, <1>2, <2>1, <2>3
  <2>4. QED
    BY <2>2, <2>3
<1>3. new \in [Nodes -> Label]
  <2>1. new = [i \in Nodes |-> new[i]]
    BY <1>1
  <2> HIDE DEF new
  <2>2. QED
    BY <1>2, <2>1
<1> HIDE DEF new
<1>4. \A i \in Nodes : new[i].perm = IF i = v THEN 1 ELSE ns[i].perm
  BY <1>2
<1>5. \A i \in Nodes : new[i].len <= ns[i].len
  BY <1>2 DEF Looking
<1>6. \A i \in Nodes : \/ new[i].len = ns[i].len /\ new[i].predecess = ns[i].predecess
                       \/ /\ ns[i].perm = 0 /\ <<i, w>> \in Arcs
                          /\ new[i].predecess = w /\ new[i].len = ns[w].len + metric[i][w]
  BY <1>2 DEF Looking
<1>7. \A i \in Nodes : ns[i].perm = 0 /\ <<w, i>> \in Arcs =>
                         new[i].len <= ns[w].len + metric[w][i]
  BY <1>2 DEF Looking
<1>8. \/ v = w /\ \A i \in Nodes : ns[i].perm = 0 => ~(new[i].len < INFTY)
      \/ /\ ns[v].perm = 0 /\ new[v].len < INFTY
         /\ \A i \in Nodes : ns[i].perm = 0 => new[v].len <= new[i].len
  <2>1. \A i \in Nodes : r[i].perm = ns[i].perm /\ new[i].len = r[i].len
    BY <1>2 DEF Looking
  <2>2. QED
    BY <1>1, <2>1 DEF Chosen
<1>9. Turned(ns, new, w, v)
  BY <1>1, <1>3, <1>4, <1>5, <1>6, <1>7, <1>8 DEF Turned
<1>10. QED
  BY <1>9 DEF new

\* What every lemma about a turn starts from.
LEMMA TurnFacts ==
  ASSUME Network, NEW ns, NEW new, NEW w, NEW v, Labelled(ns, w), Turned(ns, new, w, v)
  PROVE  /\ INFTY \in Nat /\ numnodes \in Nat
         /\ \A i \in Nodes : /\ ns[i].perm \in {0, 1} /\ new[i].perm \in {0, 1}
                             /\ ns[i].len \in Nat /\ new[i].len \in Nat
                             /\ ns[i].perm = 1 => new[i].perm = 1
         /\ \A i \in Nodes : ns[i].perm = 1 => /\ new[i].len = ns[i].len
                                               /\ new[i].predecess = ns[i].predecess
         /\ \A i, j \in Nodes : metric[i][j] \in Nat
<1>1. INFTY \in Nat /\ numnodes \in Nat
  BY GraphAssumption DEF Network
<1>2. ns \in [Nodes -> Label] /\ new \in [Nodes -> Label]
  BY DEF Labelled, Turned
<1>3. \A i \in Nodes : /\ ns[i].perm \in {0, 1} /\ new[i].perm \in {0, 1}
                       /\ ns[i].len \in Nat /\ new[i].len \in Nat
  BY <1>2 DEF Label
<1>4. \A i \in Nodes : ns[i].perm = 1 => new[i].perm = 1
  BY DEF Turned
<1>5. \A i \in Nodes : ns[i].perm = 1 => /\ new[i].len = ns[i].len
                                         /\ new[i].predecess = ns[i].predecess
  <2> SUFFICES ASSUME NEW i \in Nodes, ns[i].perm = 1
               PROVE  new[i].len = ns[i].len /\ new[i].predecess = ns[i].predecess
    OBVIOUS
  <2>1. ns[i].perm # 0
    OBVIOUS
  <2>2. \/ new[i].len = ns[i].len /\ new[i].predecess = ns[i].predecess
        \/ ns[i].perm = 0
    BY Zenon DEF Turned
  <2>3. QED
    BY <2>1, <2>2
<1>6. \A i, j \in Nodes : metric[i][j] \in Nat
  BY DEF Network
<1>7. QED
  BY <1>1, <1>3, <1>4, <1>5, <1>6

\* A turn keeps the types of the labels, and what is known of both ends.
LEMMA LabelledTurns ==
  ASSUME Network, NEW ns, NEW new, NEW w, NEW v, Labelled(ns, w), Turned(ns, new, w, v)
  PROVE  Labelled(new, v)
<1>1. new \in [Nodes -> Label] /\ v \in Nodes /\ dest \in Nodes
  BY DEF Labelled, Turned
<1>2. \A i \in Nodes : new[i].len <= INFTY
  <2>1. \A i \in Nodes : ns[i].len <= INFTY /\ new[i].len <= ns[i].len
    BY DEF Labelled, Turned
  <2>2. QED
    BY <2>1, TurnFacts
<1>3. new[dest].perm = 1 /\ new[dest].len = 0 /\ new[dest].predecess = -1
  BY <1>1, TurnFacts DEF Labelled
<1>4. new[v].perm = 1
  BY <1>1 DEF Turned
<1>5. \A i \in Nodes : new[i].perm = 1 => new[i].len < INFTY
  <2> SUFFICES ASSUME NEW i \in Nodes, new[i].perm = 1 PROVE new[i].len < INFTY
    OBVIOUS
  <2>1. CASE ns[i].perm = 1
    BY <2>1, TurnFacts DEF Labelled
  <2>2. CASE ns[i].perm # 1
    <3>1. i = v /\ v # w /\ new[v].len < INFTY
      BY <2>2 DEF Turned, Labelled
    <3>2. QED
      BY <3>1
  <2>3. QED
    BY <2>1, <2>2
<1>6. QED
  BY <1>1, <1>2, <1>3, <1>4, <1>5 DEF Labelled

\* A turn keeps it that labels lead on to the destination.
LEMMA TracedTurns ==
  ASSUME Network, NEW ns, NEW new, NEW w, NEW v, Labelled(ns, w), Turned(ns, new, w, v), Traced(ns)
  PROVE  Traced(new)
<1> SUFFICES ASSUME NEW i \in Nodes, new[i].len < INFTY, i # dest PROVE Led(new, i)
  BY DEF Traced
<1>1. CASE new[i].len = ns[i].len /\ new[i].predecess = ns[i].predecess
  <2>1. Led(ns, i)
    BY <1>1 DEF Traced
  <2> DEFINE p == ns[i].predecess
  <2>2. /\ p \in Nodes /\ ns[p].perm = 1 /\ <<i, p>> \in Arcs
        /\ ns[i].len = ns[p].len + metric[i][p]
    BY <2>1 DEF Led
  <2> HIDE DEF p
  <2>3. new[p].perm = 1 /\ new[p].len = ns[p].len
    BY <2>2, TurnFacts
  <2>4. new[i].predecess = p
    BY <1>1 DEF p
  <2>5. QED
    BY <1>1, <2>2, <2>3, <2>4 DEF Led
<1>2. CASE /\ ns[i].perm = 0 /\ <<i, w>> \in Arcs
           /\ new[i].predecess = w /\ new[i].len = ns[w].len + metric[i][w]
  <2>1. w \in Nodes /\ ns[w].perm = 1
    BY DEF Labelled
  <2>2. new[w].perm = 1 /\ new[w].len = ns[w].len
    BY <2>1, TurnFacts
  <2>3. QED
    BY <1>2, <2>1, <2>2 DEF Led
<1>3. QED
  BY <1>1, <1>2 DEF Turned

\* A turn keeps it that the working node is the farthest permanent one.
LEMMA OrderedTurns ==
  ASSUME Network, NEW ns, NEW new, NEW w, NEW v, Labelled(ns, w), Turned(ns, new, w, v), Ordered(ns, w)
  PROVE  Ordered(new, v)
<1>0. w \in Nodes /\ v \in Nodes /\ ns[w].perm = 1 /\ new[w].len = ns[w].len
  BY TurnFacts DEF Labelled, Turned
\* the labels that have changed are not below that of w
<1>1. ASSUME NEW i \in Nodes, ns[i].perm = 0 PROVE ns[w].len <= new[i].len
  <2>1. CASE new[i].len = ns[i].len
    BY <1>1, <2>1 DEF Ordered
  <2>2. CASE new[i].len = ns[w].len + metric[i][w]
    <3>1. ns[w].len \in Nat /\ metric[i][w] \in Nat
      BY <1>0, <1>1, TurnFacts
    <3>2. QED
      BY <2>2, <3>1
  <2>3. QED
    BY <1>1, <2>1, <2>2 DEF Turned
<1>2. ns[w].len <= new[v].len
  <2>1. CASE v = w
    BY <1>0, <2>1, TurnFacts
  <2>2. CASE v # w
    <3>1. ns[v].perm = 0
      BY <2>2 DEF Turned
    <3>2. QED
      BY <1>0, <1>1, <3>1
  <2>3. QED
    BY <2>1, <2>2
<1>3. ASSUME NEW i \in Nodes, new[i].perm = 1 PROVE new[i].len <= new[v].len
  <2>1. CASE i = v
    BY <1>0, <2>1, TurnFacts
  <2>2. CASE i # v
    <3>1. ns[i].perm = 1
      BY <1>3, <2>2 DEF Turned
    <3>2. new[i].len = ns[i].len /\ ns[i].len <= ns[w].len
      BY <1>3, <3>1, TurnFacts DEF Ordered
    <3>3. ns[i].len \in Nat /\ ns[w].len \in Nat /\ new[v].len \in Nat
      BY <1>0, <1>3, TurnFacts
    <3>4. QED
      BY <1>2, <3>2, <3>3
  <2>3. QED
    BY <2>1, <2>2
<1>4. ASSUME NEW i \in Nodes, new[i].perm = 0 PROVE new[v].len <= new[i].len
  <2>1. ns[i].perm = 0
    BY <1>4, TurnFacts
  <2>2. CASE v = w
    BY <1>0, <1>1, <1>4, <2>1, <2>2
  <2>3. CASE v # w
    BY <1>4, <2>1, <2>3 DEF Turned
  <2>4. QED
    BY <2>2, <2>3
<1>5. QED
  BY <1>3, <1>4 DEF Ordered

\* A turn keeps it that neighbours of permanent nodes were examined.
LEMMA ExaminedTurns ==
  ASSUME Network, NEW ns, NEW new, NEW w, NEW v, Labelled(ns, w), Turned(ns, new, w, v),
         Ordered(ns, w), Examined(ns, w)
  PROVE  Examined(new, v)
<1> SUFFICES ASSUME NEW i \in Nodes, NEW j \in Nodes, new[i].perm = 1, i # v, <<i, j>> \in Arcs
             PROVE  new[j].len <= new[i].len + metric[i][j]
  BY DEF Examined
<1>1. ns[i].perm = 1 /\ new[i].len = ns[i].len
  <2>1. ns[i].perm = 1
    BY DEF Turned
  <2>2. QED
    BY <2>1, TurnFacts
<1>2. /\ new[j].len \in Nat /\ ns[j].len \in Nat /\ ns[i].len \in Nat /\ metric[i][j] \in Nat
      /\ ns[j].perm \in {0, 1} /\ new[j].len <= ns[j].len
  <2>1. new[j].len <= ns[j].len
    BY DEF Turned
  <2>2. QED
    BY <2>1, TurnFacts
<1>3. CASE i = w
  <2>1. CASE ns[j].perm = 0
    BY <1>1, <1>3, <2>1 DEF Turned
  <2>2. CASE ns[j].perm = 1
    <3>1. ns[j].len <= ns[i].len
      BY <1>3, <2>2 DEF Ordered
    <3>2. QED
      BY <1>1, <1>2, <3>1
  <2>3. QED
    BY <1>2, <2>1, <2>2
<1>4. CASE i # w
  <2>1. ns[j].len <= ns[i].len + metric[i][j]
    BY <1>1, <1>4 DEF Examined
  <2>2. QED
    BY <1>1, <1>2, <2>1
<1>5. QED
  BY <1>3, <1>4

\* What is permanent after a turn: one node more, or the same ones.
LEMMA PermTurns ==
  ASSUME Network, NEW ns, NEW new, NEW w, NEW v, Labelled(ns, w), Turned(ns, new, w, v)
  PROVE  \/ v = w /\ Perm(new) = Perm(ns)
         \/ v \in Nodes /\ v \notin Perm(ns) /\ Perm(new) = Perm(ns) \cup {v}
<1>1. \A i \in Nodes : new[i].perm = IF i = v THEN 1 ELSE ns[i].perm
  BY DEF Turned
<1>2. v \in Nodes /\ w \in Nodes /\ ns[w].perm = 1 /\ (v = w \/ ns[v].perm = 0)
  BY DEF Turned, Labelled
<1>3. CASE v = w
  <2>1. \A i \in Nodes : new[i].perm = 1 <=> ns[i].perm = 1
    BY <1>1, <1>2, <1>3
  <2>2. QED
    BY <1>3, <2>1 DEF Perm
<1>4. CASE ns[v].perm = 0
  <2>1. v \notin Perm(ns)
    BY <1>4 DEF Perm
  <2>2. \A i \in Nodes : i = v => new[i].perm = 1
    BY <1>1
  <2>3. \A i \in Nodes : i # v => new[i].perm = ns[i].perm
    BY <1>1
  <2>4. Perm(new) = Perm(ns) \cup {v}
    BY <1>2, <2>2, <2>3 DEF Perm
  <2>5. QED
    BY <1>2, <2>1, <2>4
<1>5. QED
  BY <1>2, <1>3, <1>4

\* No label is too small: those that changed are one arc longer.
LEMMA AboveTurns ==
  ASSUME Network, NEW ns, NEW new, NEW w, NEW v, Labelled(ns, w), Turned(ns, new, w, v),
         NEW D, Within(dest, numnodes, D), Above(ns, D)
  PROVE  Above(new, D)
<1> DEFINE c == Count(ns)
<1>1. /\ \A n \in 0 .. numnodes : D[n] \in [Nodes -> Nat]
      /\ \A n \in Nat : n < numnodes => D[n + 1] = OneMore(D[n])
      /\ \A n, m \in 0 .. numnodes : n <= m => \A i \in Nodes : D[m][i] <= D[n][i]
  BY WithinIs DEF Labelled
<1>2. numnodes \in Nat /\ w \in Nodes /\ ns[w].perm = 1
  BY DEF Network, Labelled
<1>3. c \in 0 .. numnodes
  BY <1>2, CountIs DEF Count, Perm
<1>4. ASSUME NEW i \in Nodes, ns[i].perm = 0 PROVE c + 1 \in 0 .. numnodes
  <2>1. i \notin Perm(ns) /\ Perm(ns) \subseteq Nodes
    BY <1>4 DEF Perm
  <2>2. QED
    BY <1>2, <2>1, CountIs DEF Count
<1> HIDE DEF c
\* the old labels
<1>5. ASSUME NEW i \in Nodes
      PROVE  /\ ns[i].perm = 1 => D[c][i] <= ns[i].len
             /\ ns[i].perm = 0 => D[c + 1][i] <= ns[i].len
  <2>1. D[IF ns[i].perm = 1 THEN c ELSE c + 1][i] <= ns[i].len
    BY DEF Above, c
  <2>2. QED
    BY <2>1
\* and the new ones, by the old count
<1>6. ASSUME NEW i \in Nodes, ns[i].perm = 0
      PROVE  D[c + 1][i] <= new[i].len
  <2>1. CASE new[i].len = ns[i].len
    BY <1>5, <1>6, <2>1
  <2>2. CASE <<i, w>> \in Arcs /\ new[i].len = ns[w].len + metric[i][w]
    <3>1. c < numnodes /\ c \in Nat /\ c + 1 \in 0 .. numnodes
      BY <1>2, <1>3, <1>4, <1>6
    <3>2. D[c + 1] = OneMore(D[c]) /\ D[c] \in [Nodes -> Nat] /\ D[c + 1] \in [Nodes -> Nat]
      BY <1>1, <1>3, <3>1
    <3>3. D[c + 1][i] <= metric[i][w] + D[c][w]
      BY <1>2, <1>6, <2>2, <3>2, OneMoreIs
    <3>4. D[c][w] <= ns[w].len
      BY <1>2, <1>5
    <3>5. /\ ns[w].len \in Nat /\ metric[i][w] \in Nat
      BY <1>2, <1>6, TurnFacts
    <3>6. D[c][w] \in Nat /\ D[c + 1][i] \in Nat
      BY <1>2, <1>6, <3>2
    <3>7. QED
      BY <2>2, <3>3, <3>4, <3>5, <3>6
  <2>3. QED
    BY <1>6, <2>1, <2>2 DEF Turned
<1>7. ASSUME NEW i \in Nodes, ns[i].perm = 1
      PROVE  D[c][i] <= new[i].len
  BY <1>5, <1>7, TurnFacts
<1>8. \A i \in Nodes : ns[i].perm \in {0, 1} /\ new[i].perm \in {0, 1} /\ new[i].len \in Nat
  BY TurnFacts
<1>9. CASE v = w /\ Perm(new) = Perm(ns)
  <2>1. Count(new) = c
    BY <1>9 DEF Count, c
  <2>2. \A i \in Nodes : new[i].perm = 1 <=> ns[i].perm = 1
    BY <1>9 DEF Perm
  <2>3. ASSUME NEW i \in Nodes
        PROVE  D[IF new[i].perm = 1 THEN c ELSE c + 1][i] <= new[i].len
    <3>1. CASE ns[i].perm = 1
      BY <1>7, <2>2, <2>3, <3>1
    <3>2. CASE ns[i].perm = 0
      <4>1. new[i].perm # 1
        BY <2>2, <2>3, <3>2
      <4>2. QED
        BY <1>6, <2>3, <3>2, <4>1
    <3>3. QED
      BY <1>8, <2>3, <3>1, <3>2
  <2>4. QED
    BY <2>1, <2>3 DEF Above
<1>10. CASE v \in Nodes /\ v \notin Perm(ns) /\ Perm(new) = Perm(ns) \cup {v}
  <2>1. Count(new) = c + 1 /\ c + 1 \in 0 .. numnodes
    <3>1. Perm(ns) \subseteq Nodes
      BY DEF Perm
    <3>2. QED
      BY <1>2, <1>10, <3>1, CountIs DEF Count, c
  <2>2. \A i \in Nodes : new[i].perm = 0 => ns[i].perm = 0
    BY <1>8, TurnFacts
  <2>3. ASSUME NEW i \in Nodes, ns[i].perm = 1 PROVE D[c + 1][i] <= new[i].len
    <3>1. D[c + 1][i] <= D[c][i] /\ D[c + 1][i] \in Nat /\ D[c][i] \in Nat
      BY <1>1, <1>3, <2>1, <2>3
    <3>2. QED
      BY <1>7, <1>8, <2>3, <3>1
  <2>4. ASSUME NEW i \in Nodes, new[i].perm = 1 PROVE D[c + 1][i] <= new[i].len
    BY <1>6, <1>8, <2>3, <2>4
  <2>5. ASSUME NEW i \in Nodes, new[i].perm = 0 PROVE D[c + 1 + 1][i] <= new[i].len
    <3>1. ns[i].perm = 0 /\ D[c + 1][i] <= new[i].len
      BY <1>6, <2>2, <2>5
    <3>2. i \notin Perm(new) /\ Perm(new) \subseteq Nodes
      BY <2>5 DEF Perm
    <3>3. Count(new) + 1 \in 0 .. numnodes
      BY <1>2, <2>5, <3>2, CountIs DEF Count
    <3>4. c + 1 + 1 \in 0 .. numnodes /\ c + 1 <= c + 1 + 1
      BY <1>3, <2>1, <3>3
    <3>5. D[c + 1 + 1][i] <= D[c + 1][i] /\ D[c + 1 + 1][i] \in Nat /\ D[c + 1][i] \in Nat
      BY <1>1, <2>1, <2>5, <3>4
    <3>6. QED
      BY <1>8, <2>5, <3>1, <3>5
  <2>6. ASSUME NEW i \in Nodes
        PROVE  D[IF new[i].perm = 1 THEN c + 1 ELSE c + 1 + 1][i] <= new[i].len
    <3>1. CASE new[i].perm = 1
      BY <2>4, <2>6, <3>1
    <3>2. CASE new[i].perm = 0
      BY <2>5, <2>6, <3>2
    <3>3. QED
      BY <1>8, <2>6, <3>1, <3>2
  <2>7. QED
    BY <2>1, <2>6 DEF Above
<1>11. QED
  BY <1>9, <1>10, PermTurns

\* A turn keeps all that is known of the labels.
LEMMA LabelsTurn ==
  ASSUME Network, NEW ns, NEW new, NEW w, NEW v, NEW D, Within(dest, numnodes, D),
         Labels(ns, w, D), Turned(ns, new, w, v)
  PROVE  Labels(new, v, D)
<1>1. Labelled(ns, w) /\ Traced(ns) /\ Ordered(ns, w) /\ Examined(ns, w) /\ Above(ns, D)
  BY DEF Labels
<1>2. Labelled(new, v)
  BY <1>1, LabelledTurns
<1>3. Traced(new)
  BY <1>1, TracedTurns
<1>4. Ordered(new, v)
  BY <1>1, OrderedTurns
<1>5. Examined(new, v)
  BY <1>1, ExaminedTurns
<1>6. Above(new, D)
  BY <1>1, AboveTurns
<1>7. QED
  BY <1>2, <1>3, <1>4, <1>5, <1>6 DEF Labels

\* A turn of the goto keeps what the labels say.
LEMMA RepeatKeepsLabels ==
  ASSUME Network, NEW D, Within(dest, numnodes, D), Labels(nodestate, k, D), Repeat
  PROVE  Labels(nodestate', k', D)
<1>1. Labelled(nodestate, k) /\ nodestate \in [Nodes -> Label] /\ k \in Nodes /\ nodestate[k].perm = 1
  BY DEF Labels, Labelled
<1>2. Looking(nodestate, Relaxed, k)
  BY <1>1, RelaxedIs
<1>3. Chosen(Relaxed, k, NextWorking(Relaxed))
  BY <1>2, ChosenIs DEF Network, Looking
<1>4. k' = NextWorking(Relaxed) /\ nodestate' = [Relaxed EXCEPT ![k'].perm = 1]
  BY DEF Repeat
<1>5. Turned(nodestate, [Relaxed EXCEPT ![NextWorking(Relaxed)].perm = 1], k, NextWorking(Relaxed))
  BY <1>1, <1>2, <1>3, TurnedIs
<1>6. Turned(nodestate, nodestate', k, k')
  BY <1>4, <1>5
<1>7. QED
  BY <1>6, LabelsTurn

\* No path is shorter than the label of its first node, up to that of w.
LEMMA NoneShorter ==
  ASSUME Network, NEW ns, NEW w, NEW D, Within(dest, numnodes, D), Labels(ns, w, D)
  PROVE  \A n \in 0 .. numnodes : \A i \in Nodes :
           ns[i].len <= D[n][i] \/ ns[w].len <= D[n][i]
<1> DEFINE T == {n \in Nat : n <= numnodes => \A i \in Nodes : ns[i].len <= D[n][i] \/ ns[w].len <= D[n][i]}
<1>0. INFTY \in Nat /\ numnodes \in Nat
  BY GraphAssumption DEF Network
<1>1. /\ \A n \in 0 .. numnodes : D[n] \in [Nodes -> Nat]
      /\ D[0] = Start(dest)
      /\ \A n \in Nat : n < numnodes => D[n + 1] = OneMore(D[n])
  BY WithinIs DEF Labels, Labelled
<1>2. Labelled(ns, w) /\ Ordered(ns, w) /\ Examined(ns, w)
  BY DEF Labels
<1>3. /\ ns \in [Nodes -> Label] /\ w \in Nodes
      /\ \A i \in Nodes : ns[i].len <= INFTY
      /\ ns[dest].len = 0
  BY <1>2 DEF Labelled
<1>4. \A i \in Nodes : ns[i].len \in Nat /\ ns[i].perm \in {0, 1}
  BY <1>3 DEF Label
<1>5. 0 \in T
  <2>1. ASSUME NEW i \in Nodes PROVE ns[i].len <= D[0][i]
    <3>1. D[0][i] = IF i = dest THEN 0 ELSE INFTY
      BY <1>1, <2>1 DEF Start
    <3>2. QED
      BY <1>3, <3>1
  <2>2. QED
    BY <2>1
<1>6. ASSUME NEW n \in Nat, n \in T PROVE n + 1 \in T
  <2> SUFFICES ASSUME n + 1 <= numnodes, NEW i \in Nodes
               PROVE  ns[i].len <= D[n + 1][i] \/ ns[w].len <= D[n + 1][i]
    OBVIOUS
  <2>1. n < numnodes /\ n \in 0 .. numnodes /\ n <= numnodes /\ n + 1 \in 0 .. numnodes
    BY <1>0
  <2>2. \A j \in Nodes : ns[j].len <= D[n][j] \/ ns[w].len <= D[n][j]
    BY <1>6, <2>1
  <2>3. D[n + 1] = OneMore(D[n]) /\ D[n] \in [Nodes -> Nat] /\ D[n + 1] \in [Nodes -> Nat]
    BY <1>1, <2>1
  <2>4. CASE D[n + 1][i] = D[n][i]
    BY <2>2, <2>4
  <2>5. ASSUME NEW j \in Nodes, <<i, j>> \in Arcs, D[n + 1][i] = metric[i][j] + D[n][j]
        PROVE  ns[i].len <= D[n + 1][i] \/ ns[w].len <= D[n + 1][i]
    <3>1. metric[i][j] \in Nat /\ metric[i][j] = metric[j][i] /\ <<j, i>> \in Arcs
      BY <2>5, ArcsAre
    <3>2. D[n][j] \in Nat /\ ns[j].len \in Nat /\ ns[i].len \in Nat /\ ns[w].len \in Nat
          /\ ns[j].perm \in {0, 1}
      BY <1>3, <1>4, <2>3
    <3>3. CASE ns[w].len <= D[n][j]
      BY <2>5, <3>1, <3>2, <3>3
    <3>4. CASE ns[j].len <= D[n][j] /\ ns[w].len <= ns[j].len
      BY <2>5, <3>1, <3>2, <3>4
    <3>5. CASE ns[j].len <= D[n][j] /\ ns[j].len < ns[w].len
      <4>1. j # w /\ ns[j].perm # 0
        <5>1. ~(ns[w].len <= ns[j].len)
          BY <3>2, <3>5
        <5>2. QED
          BY <1>2, <3>2, <3>5, <5>1 DEF Ordered
      <4>2. ns[i].len <= ns[j].len + metric[j][i]
        BY <1>2, <3>1, <3>2, <4>1 DEF Examined
      <4>3. QED
        BY <2>5, <3>1, <3>2, <3>5, <4>2
    <3>6. QED
      BY <2>2, <3>2, <3>3, <3>4, <3>5
  <2>6. \/ D[n + 1][i] = D[n][i]
        \/ \E j \in Nodes : <<i, j>> \in Arcs /\ D[n + 1][i] = metric[i][j] + D[n][j]
    <3> DEFINE h == D[n]  m == OneMore(h)
    <3>1. h \in [Nodes -> Nat]
      BY <2>3
    <3> HIDE DEF h
    <3>2. m[i] = h[i] \/ \E j \in Nodes : <<i, j>> \in Arcs /\ m[i] = metric[i][j] + h[j]
      BY <3>1, OneMoreIs
    <3>3. D[n + 1] = m
      BY <2>3 DEF h
    <3> HIDE DEF m
    <3>4. QED
      BY <3>2, <3>3 DEF h
  <2>7. QED
    BY <2>4, <2>5, <2>6, Zenon
<1> HIDE DEF T
<1>7. Nat \subseteq T
  BY <1>5, <1>6, Induction
<1>8. QED
  BY <1>0, <1>7 DEF T

\* A permanent label is the length of a shortest path.
LEMMA LabelIsDistance ==
  ASSUME Network, NEW ns, NEW w, Labels(ns, w, Lengths(dest)),
         NEW i \in Nodes, ns[i].perm = 1
  PROVE  ns[i].len = Distance(dest, i)
<1> DEFINE D == Lengths(dest)
           c == Count(ns)
<1>1. Within(dest, numnodes, D) /\ Distance(dest, i) = D[numnodes][i]
  BY DistanceIs
<1>2. Labels(ns, w, D)
  OBVIOUS
<1> HIDE DEF D
<1>3. Labelled(ns, w) /\ Ordered(ns, w) /\ Above(ns, D)
  BY <1>2 DEF Labels
<1>4. numnodes \in Nat /\ numnodes \in 0 .. numnodes /\ dest \in Nodes /\ w \in Nodes
  BY <1>3 DEF Network, Labelled
<1>5. c \in 0 .. numnodes /\ c <= numnodes
  BY <1>4, CountIs DEF Count, Perm
<1>6. D[c][i] <= ns[i].len
  BY <1>3 DEF Above
<1> HIDE DEF c
<1>7. /\ D[c] \in [Nodes -> Nat] /\ D[numnodes] \in [Nodes -> Nat]
      /\ D[numnodes][i] <= D[c][i]
  BY <1>1, <1>4, <1>5, WithinIs
<1>8. ns[i].len \in Nat /\ ns[w].len \in Nat
  BY <1>3 DEF Labelled, Label
<1>9. ns[i].len <= ns[w].len
  BY <1>3 DEF Ordered
<1>10. ns[i].len <= D[numnodes][i] \/ ns[w].len <= D[numnodes][i]
  BY <1>1, <1>2, <1>4, NoneShorter
<1>11. D[numnodes][i] \in Nat /\ D[c][i] \in Nat
  BY <1>7
<1>12. QED
  BY <1>1, <1>6, <1>7, <1>8, <1>9, <1>10, <1>11

(***************************************************************************)
(* The path by the predecessors                                            *)
(***************************************************************************)
Turns(N, f) ==
  f = [n \in 0 .. N |-> IF n = 0 THEN [path |-> <<src>>, sum |-> 0] ELSE Followed(f[n - 1])]

\* There is such a function for any number of turns.
LEMMA TurnsExist ==
  ASSUME NEW N \in Nat
  PROVE  \E f : Turns(N, f)
<1> DEFINE start == [path |-> <<src>>, sum |-> 0]
           T == {m \in Nat : \E f : Turns(m, f)}
<1>1. 0 \in T
  <2>1. Turns(0, [n \in 0 .. 0 |-> start])
    BY DEF Turns
  <2>2. QED
    BY <2>1
<1>2. ASSUME NEW m \in Nat, m \in T PROVE m + 1 \in T
  <2>1. PICK f : Turns(m, f)
    BY <1>2
  <2> DEFINE g == [n \in 0 .. m + 1 |-> IF n = 0 THEN start ELSE Followed(f[n - 1])]
  <2>2. ASSUME NEW n \in 0 .. m PROVE g[n] = f[n]
    <3>1. f[n] = IF n = 0 THEN start ELSE Followed(f[n - 1])
      BY <2>1 DEF Turns
    <3>2. n \in 0 .. m + 1
      OBVIOUS
    <3>3. QED
      BY <3>1, <3>2
  <2>3. ASSUME NEW n \in 0 .. m + 1, n # 0 PROVE g[n] = Followed(g[n - 1])
    <3>1. n - 1 \in 0 .. m
      BY <2>3
    <3>2. g[n - 1] = f[n - 1]
      BY <2>2, <3>1
    <3>3. g[n] = Followed(f[n - 1])
      BY <2>3
    <3>4. QED
      BY <3>2, <3>3
  <2>4. g = [n \in 0 .. m + 1 |-> IF n = 0 THEN start ELSE Followed(g[n - 1])]
    BY <2>3
  <2> HIDE DEF g
  <2>5. Turns(m + 1, g)
    BY <2>4 DEF Turns
  <2>6. QED
    BY <2>5
<1> HIDE DEF T
<1>3. Nat \subseteq T
  BY <1>1, <1>2, Induction
<1>4. QED
  BY <1>3 DEF T

\* Trail is what so many turns of the loop leave.
LEMMA TrailIs ==
  ASSUME numnodes \in Nat
  PROVE  \E f : Turns(numnodes, f) /\ Trail = f[numnodes]
<1> DEFINE F == CHOOSE f : Turns(numnodes, f)
<1>1. Turns(numnodes, F)
  BY TurnsExist
<1>2. Trail = F[numnodes]
  BY DEF Trail, Turns
<1>3. QED
  BY <1>1, <1>2

\* What the loop has put together after n turns.
Nearer(i) == {j \in Nodes : nodestate[j].len < nodestate[i].len}
Leads(i, j) == <<i, j>> \in Arcs /\ nodestate[i].len = metric[i][j] + nodestate[j].len
Going(t) ==
  /\ t.path \in Seq(Nodes) /\ t.path # <<>> /\ t.sum \in Nat
  /\ t.path[1] = src
  /\ \A x \in 1 .. Len(t.path) : nodestate[t.path[x]].perm = 1
  /\ \A x \in 1 .. Len(t.path) - 1 : Leads(t.path[x], t.path[x + 1])
Gone(t, n) ==
  LET node == t.path[Len(t.path)]
  IN  /\ t.sum + nodestate[node].len = nodestate[src].len
      /\ node = dest \/ Cardinality(Nearer(node)) + n + 1 <= numnodes

\* One turn more.
LEMMA FollowedIs ==
  ASSUME Network, Labelled(nodestate, k), Traced(nodestate), src \in Nodes,
         NEW t, NEW n \in Nat, Going(t), Gone(t, n)
  PROVE  Going(Followed(t)) /\ Gone(Followed(t), n + 1)
<1> DEFINE ns == nodestate
           node == t.path[Len(t.path)]
           next == ns[node].predecess
           l == Len(t.path)
<1>1. t.path \in Seq(Nodes) /\ t.path # <<>> /\ t.sum \in Nat /\ l \in Nat /\ l > 0
      /\ node \in Nodes /\ Last(t.path) = node
  BY DEF Going, Last
<1>2. ns[node].perm = 1
  BY <1>1 DEF Going
<1>3. /\ ns \in [Nodes -> Label] /\ dest \in Nodes /\ ns[dest].len = 0 /\ ns[dest].predecess = -1
      /\ \A i \in Nodes : ns[i].perm = 1 => ns[i].len < INFTY
  BY DEF Labelled
<1>4. \A i \in Nodes : ns[i].len \in Nat
  BY <1>3 DEF Label
<1>5. t.sum + ns[node].len = ns[src].len /\ (node = dest \/ Cardinality(Nearer(node)) + n + 1 <= numnodes)
  BY DEF Gone
<1>6. CASE node = dest
  <2>1. Followed(t) = t
    BY <1>1, <1>3, <1>6 DEF Followed
  <2>2. Gone(t, n + 1)
    BY <1>5, <1>6 DEF Gone
  <2>3. QED
    BY <2>1, <2>2
<1>7. CASE node # dest
  <2>1. Led(ns, node)
    BY <1>1, <1>2, <1>3, <1>7 DEF Traced
  <2>2. /\ next \in Nodes /\ ns[next].perm = 1 /\ <<node, next>> \in Arcs
        /\ ns[node].len = ns[next].len + metric[node][next]
    BY <2>1 DEF Led
  <2>3. next # -1 /\ metric[node][next] \in Nat /\ metric[node][next] > 0
    <3>1. next \in 0 .. numnodes - 1 /\ numnodes \in Nat
      BY <2>2 DEF Nodes, Network
    <3>2. next # -1
      BY <3>1
    <3>3. QED
      BY <1>1, <2>2, <3>2, ArcsAre
  <2> DEFINE u == [path |-> Append(t.path, next), sum |-> t.sum + metric[node][next]]
  <2>4. Followed(t) = u
    BY <1>1, <2>3 DEF Followed
  <2> HIDE DEF next
  <2>5. /\ u.path \in Seq(Nodes) /\ Len(u.path) = l + 1 /\ u.path # <<>>
        /\ u.path[l + 1] = next /\ \A x \in 1 .. l : u.path[x] = t.path[x]
        /\ u.sum = t.sum + metric[node][next] /\ u.sum \in Nat
    <3> DEFINE p == t.path  q == Append(p, next)
    <3>1. u.path = q /\ u.sum = t.sum + metric[node][next] /\ u.sum \in Nat
      <4>1. t.sum \in Nat
        BY <1>1
      <4>2. u.path = q /\ u.sum = t.sum + metric[node][next]
        OBVIOUS
      <4>3. metric[node][next] \in Nat
        BY <2>3
      <4> HIDE DEF u, q, node, next
      <4>4. QED
        BY <4>1, <4>2, <4>3
    <3>2. p \in Seq(Nodes) /\ next \in Nodes /\ l = Len(p) /\ l \in Nat
      BY <1>1, <2>2
    <3> HIDE DEF p, l, u, next
    <3>3. /\ q \in Seq(Nodes) /\ Len(q) = l + 1
          /\ q[l + 1] = next /\ \A x \in 1 .. l : q[x] = p[x]
      BY <3>2, AppendProperties
    <3>4. q # <<>>
      <4>1. Len(q) # 0
        BY <3>2, <3>3
      <4>2. Len(<<>>) = 0
        OBVIOUS
      <4> HIDE DEF q
      <4>3. QED
        BY <4>1, <4>2
    <3>5. QED
      BY <3>1, <3>3, <3>4 DEF p
  <2> HIDE DEF u, l
  <2>6. node = t.path[l]
    BY DEF l
  <2> HIDE DEF node
  <2>7. Leads(node, next)
    BY <1>1, <1>4, <2>2, <2>3 DEF Leads
  <2>8. Going(u)
    <3>1. u.path[1] = src
      BY <1>1, <2>5 DEF Going
    <3>2. \A x \in 1 .. Len(u.path) : ns[u.path[x]].perm = 1
      <4>1. \A x \in 1 .. l : ns[t.path[x]].perm = 1
        BY DEF Going, l
      <4>2. \A x \in 1 .. l + 1 : x = l + 1 \/ x \in 1 .. l
        BY <1>1
      <4>3. QED
        BY <2>2, <2>5, <4>1, <4>2
    <3>3. ASSUME NEW x \in 1 .. Len(u.path) - 1 PROVE Leads(u.path[x], u.path[x + 1])
      <4>1. x \in 1 .. l
        BY <1>1, <2>5
      <4>2. CASE x = l
        BY <1>1, <2>5, <2>6, <2>7, <4>1, <4>2
      <4>3. CASE x # l
        <5>1. x \in 1 .. l - 1 /\ x + 1 \in 1 .. l
          BY <1>1, <4>1, <4>3
        <5>2. Leads(t.path[x], t.path[x + 1])
          BY <5>1 DEF Going, l
        <5>3. QED
          BY <2>5, <4>1, <5>1, <5>2
      <4>4. QED
        BY <4>2, <4>3
    <3>4. QED
      BY <2>5, <3>1, <3>2, <3>3 DEF Going
  <2>9. u.path[Len(u.path)] = next
    BY <2>5
  <2>10. u.sum + ns[next].len = ns[src].len
    <3>1. ns[node].len \in Nat /\ ns[next].len \in Nat /\ ns[src].len \in Nat
      BY <1>1, <1>4, <2>2
    <3> DEFINE y == metric[node][next]
    <3>2. y \in Nat /\ ns[node].len = ns[next].len + y /\ u.sum = t.sum + y
      BY <2>2, <2>3, <2>5
    <3>3. t.sum \in Nat /\ t.sum + ns[node].len = ns[src].len
      BY <1>1, <1>5 DEF node
    <3> HIDE DEF y, ns
    <3>4. QED
      BY <3>1, <3>2, <3>3
  <2>11. Cardinality(Nearer(next)) + (n + 1) + 1 <= numnodes
    <3>1. numnodes \in Nat
      BY DEF Network
    <3>2. ns[next].len < ns[node].len
      <4>1. ns[next].len \in Nat
        BY <1>4, <2>2
      <4>2. QED
        BY <2>2, <2>3, <4>1
    <3>3. Nearer(node) \subseteq Nodes /\ Nearer(next) \subseteq Nodes
      BY DEF Nearer
    <3>4. next \notin Nearer(next) /\ next \in Nearer(node)
      BY <1>4, <2>2, <3>2 DEF Nearer
    <3>5. Nearer(next) \subseteq Nearer(node)
      BY <1>1, <1>4, <2>2, <3>2 DEF Nearer
    <3>6. Cardinality(Nearer(next) \cup {next}) = Cardinality(Nearer(next)) + 1
          /\ Cardinality(Nearer(next)) \in Nat
      BY <2>2, <3>1, <3>3, <3>4, CountIs
    <3>7. IsFiniteSet(Nearer(node))
      BY <3>1, <3>3, NodesAre, FS_Subset
    <3>8. Nearer(next) \cup {next} \subseteq Nearer(node)
      BY <3>4, <3>5
    <3>9. Cardinality(Nearer(next) \cup {next}) <= Cardinality(Nearer(node))
      BY <3>7, <3>8, FS_Subset
    <3>10. Cardinality(Nearer(node)) \in Nat
      BY <3>7, FS_CardinalityType
    <3>11. Cardinality(Nearer(node)) + n + 1 <= numnodes
      BY <1>5, <1>7
    <3>12. QED
      BY <3>1, <3>6, <3>9, <3>10, <3>11
  <2>12. Gone(u, n + 1)
    BY <2>9, <2>10, <2>11 DEF Gone
  <2>13. QED
    BY <2>4, <2>8, <2>12
<1>8. QED
  BY <1>6, <1>7

\* What ShortestPath asks of one answer.
Right(a) ==
  /\ a.path[1] = a.src /\ a.path[Len(a.path)] = a.dest
  /\ a.value = Distance(a.dest, a.src)
  /\ \A n \in 1 .. Len(a.path) - 1 :
       LET i == a.path[n]
           j == a.path[n + 1]
       IN  /\ <<i, j>> \in Arcs
           /\ Distance(a.dest, i) = metric[i][j] + Distance(a.dest, j)

\* When the loop has ended.
Ended(t) == Going(t) /\ Gone(t, numnodes)

\* After as many turns as there are nodes the loop is at the destination.
LEMMA TrailEnds ==
  ASSUME Network, Labelled(nodestate, k), Traced(nodestate), k = src
  PROVE  Ended(Trail)
<1>1. PICK f : Turns(numnodes, f) /\ Trail = f[numnodes]
  BY TrailIs DEF Network
<1>2. numnodes \in Nat /\ src \in Nodes /\ nodestate[src].perm = 1 /\ dest \in Nodes
  BY DEF Network, Labelled
<1>3. \A i \in Nodes : nodestate[i].len \in Nat
  BY DEF Labelled, Label
<1> DEFINE T == {n \in Nat : n <= numnodes => Going(f[n]) /\ Gone(f[n], n)}
<1>4. 0 \in T
  <2> DEFINE t == [path |-> <<src>>, sum |-> 0]
  <2>1. f[0] = t
    BY <1>1, <1>2 DEF Turns
  <2>2. Going(t)
    BY <1>2 DEF Going
  <2>3. Gone(t, 0)
    <3>1. Nearer(src) \subseteq Nodes /\ src \notin Nearer(src)
      BY <1>2, <1>3 DEF Nearer
    <3>2. /\ Cardinality(Nearer(src)) \in 0 .. numnodes
          /\ Cardinality(Nearer(src)) + 1 \in 0 .. numnodes
      BY <1>2, <3>1, CountIs
    <3>3. t.path[Len(t.path)] = src /\ t.sum = 0
      OBVIOUS
    <3> HIDE DEF t
    <3>4. Cardinality(Nearer(src)) + 0 + 1 <= numnodes
      BY <1>2, <3>2
    <3>5. t.sum + nodestate[src].len = nodestate[src].len
      BY <1>2, <1>3, <3>3
    <3>6. QED
      BY <3>3, <3>4, <3>5 DEF Gone
  <2>4. QED
    BY <2>1, <2>2, <2>3
<1>5. ASSUME NEW n \in Nat, n \in T PROVE n + 1 \in T
  <2> SUFFICES ASSUME n + 1 <= numnodes PROVE Going(f[n + 1]) /\ Gone(f[n + 1], n + 1)
    OBVIOUS
  <2>1. Going(f[n]) /\ Gone(f[n], n)
    BY <1>2, <1>5
  <2>2. f[n + 1] = Followed(f[n])
    <3>1. n + 1 \in 0 .. numnodes /\ n + 1 # 0 /\ (n + 1) - 1 = n
      BY <1>2
    <3>2. f[n + 1] = IF n + 1 = 0 THEN [path |-> <<src>>, sum |-> 0] ELSE Followed(f[(n + 1) - 1])
      BY <1>1, <3>1, Zenon DEF Turns
    <3>3. QED
      BY <3>1, <3>2
  <2>3. QED
    BY <1>2, <2>1, <2>2, FollowedIs
<1> HIDE DEF T
<1>6. Nat \subseteq T
  BY <1>4, <1>5, Induction
<1>7. Going(f[numnodes]) /\ Gone(f[numnodes], numnodes)
  BY <1>2, <1>6 DEF T
<1>8. QED
  BY <1>1, <1>7 DEF Ended

\* The answer that short_path() returns is right (ngraph.c:592-605).
LEMMA TraceIsRight ==
  ASSUME Network, Labels(nodestate, k, Lengths(dest)), k = src
  PROVE  Right([dest |-> dest, src |-> src, mat |-> mat, value |-> Trail.sum, path |-> Trail.path])
<1> DEFINE t == Trail
           p == t.path
           l == Len(p)
           ns == nodestate
           a == [dest |-> dest, src |-> src, mat |-> mat, value |-> t.sum, path |-> p]
<1>1. Labelled(ns, k) /\ Traced(ns)
  BY DEF Labels
<1>2. Ended(t)
  BY <1>1, TrailEnds
<1> HIDE DEF t
<1>3. Going(t) /\ Gone(t, numnodes) /\ numnodes \in Nat
  BY <1>2 DEF Ended, Network
<1>4. /\ p \in Seq(Nodes) /\ p # <<>> /\ t.sum \in Nat /\ p[1] = src
      /\ \A x \in 1 .. l : ns[p[x]].perm = 1
      /\ \A x \in 1 .. l - 1 : Leads(p[x], p[x + 1])
  BY <1>3 DEF Going
<1>5. l \in Nat /\ l > 0 /\ \A x \in 1 .. l : p[x] \in Nodes
  BY <1>4
<1>6. t.sum + ns[p[l]].len = ns[src].len
      /\ (p[l] = dest \/ Cardinality(Nearer(p[l])) + numnodes + 1 <= numnodes)
  BY <1>3 DEF Gone
<1>7. p[l] = dest
  <2>1. Cardinality(Nearer(p[l])) \in Nat
    <3>1. Nearer(p[l]) \subseteq Nodes
      BY DEF Nearer
    <3>2. QED
      BY <1>3, <3>1, CountIs
  <2>2. QED
    BY <1>3, <1>6, <2>1
<1>8. ns[dest].len = 0 /\ src \in Nodes /\ ns[src].perm = 1
  BY <1>1 DEF Labelled
<1>9. \A i \in Nodes : ns[i].perm = 1 => ns[i].len = Distance(dest, i)
  BY LabelIsDistance
<1>10. t.sum = Distance(dest, src)
  <2>1. t.sum + 0 = ns[src].len
    BY <1>6, <1>7, <1>8
  <2>2. QED
    BY <1>4, <1>8, <1>9, <2>1
<1>11. ASSUME NEW x \in 1 .. l - 1
       PROVE  /\ <<p[x], p[x + 1]>> \in Arcs
              /\ Distance(dest, p[x]) = metric[p[x]][p[x + 1]] + Distance(dest, p[x + 1])
  <2>1. x \in 1 .. l /\ x + 1 \in 1 .. l
    BY <1>5
  <2>2. Leads(p[x], p[x + 1])
    BY <1>4
  <2>3. ns[p[x]].len = Distance(dest, p[x]) /\ ns[p[x + 1]].len = Distance(dest, p[x + 1])
    BY <1>4, <1>5, <1>9, <2>1
  <2>4. QED
    BY <2>2, <2>3 DEF Leads
<1>12. a.dest = dest /\ a.src = src /\ a.path = p /\ a.value = t.sum
  OBVIOUS
<1> HIDE DEF a, p, l
<1>13. Len(a.path) = l
  BY <1>12 DEF l
<1>14. Right(a)
  BY <1>4, <1>7, <1>10, <1>11, <1>12, <1>13 DEF Right
<1>15. QED
  BY <1>14 DEF a, p, t

(***************************************************************************)
(* The invariant                                                           *)
(***************************************************************************)
PathInv ==
  /\ numnodes \in Nat /\ numnodes >= 2
  /\ lines \in Seq([from: Nodes, to: Nodes, metric: Nat, cap: Nat])
  /\ Network
  /\ todo \in Seq(Pairs)
  /\ place \notin {"read", "rloop", "quit"} => todo # <<>>
  /\ place \in {"repeat", "trace"} => mat = "metric" /\ Labels(nodestate, k, Lengths(dest))
  /\ place = "trace" => k = src
  /\ place \in {"layer", "scan", "walk", "ref", "move", "sum"} => mat # "metric"
  /\ place = "read" => answers = {}
  /\ ShortestPath

\* ShortestPath says so of all answers.
LEMMA ShortestIs == ShortestPath <=> \A a \in answers : a.mat = "metric" => Right(a)
BY DEF ShortestPath, Right

\* As long as the network stays the same.
LEMMA SameNetwork ==
  ASSUME UNCHANGED <<numnodes, metric>>
  PROVE  /\ Nodes' = Nodes /\ Arcs' = Arcs /\ (Network' <=> Network)
         /\ \A d : Lengths(d)' = Lengths(d)
         /\ \A d, s : Distance(d, s)' = Distance(d, s)
         /\ \A a : Right(a)' <=> Right(a)
<1>1. Nodes' = Nodes
  BY DEF Nodes
<1>2. Arcs' = Arcs
  BY <1>1 DEF Arcs
<1>3. Network' <=> Network
  BY <1>1 DEF Network
<1>4. ASSUME NEW d PROVE Lengths(d)' = Lengths(d)
  BY <1>1, <1>2 DEF Lengths, Within, Start, OneMore
<1>5. ASSUME NEW d, NEW s PROVE Distance(d, s)' = Distance(d, s)
  BY <1>1, <1>2 DEF Distance, OneMore
<1>6. ASSUME NEW a PROVE Right(a)' <=> Right(a)
  BY <1>2, <1>5 DEF Right
<1>7. QED
  BY <1>1, <1>2, <1>3, <1>4, <1>5, <1>6

\* The labels mean the same as long as network and pair stay.
LEMMA SameLabels ==
  ASSUME UNCHANGED <<numnodes, metric, todo>>, Labels(nodestate', k', Lengths(dest))
  PROVE  Labels(nodestate, k, Lengths(dest))'
<1> DEFINE D == Lengths(dest)
<1>1. /\ Nodes' = Nodes /\ Arcs' = Arcs /\ dest' = dest /\ metric' = metric
      /\ (Lengths(dest))' = D
  <2>1. dest' = dest
    BY DEF dest
  <2>2. QED
    BY <2>1, SameNetwork
<1>2. Labelled(nodestate', k') /\ Traced(nodestate') /\ Ordered(nodestate', k')
      /\ Examined(nodestate', k') /\ Above(nodestate', D)
  BY DEF Labels
<1> HIDE DEF D
<1>3. Labelled(nodestate, k)'
  BY <1>1, <1>2 DEF Labelled, Label
<1>4. Traced(nodestate)'
  BY <1>1, <1>2 DEF Traced, Led
<1>5. Ordered(nodestate, k)'
  BY <1>1, <1>2 DEF Ordered
<1>6. Examined(nodestate, k)'
  BY <1>1, <1>2 DEF Examined
<1>7. Above(nodestate, Lengths(dest))'
  BY <1>1, <1>2 DEF Above, Count, Perm
<1>8. QED
  BY <1>3, <1>4, <1>5, <1>6, <1>7 DEF Labels

\* A table has pairs, and nothing else.
LEMMA TablePairsAre ==
  ASSUME numnodes \in Nat, numnodes >= 2
  PROVE  TablePairs \in Seq(Pairs) /\ TablePairs # <<>>
<1> DEFINE n == numnodes - 1
           row(i) == [j \in 1 .. i |-> <<i, j - 1>>]
           s == [i \in 1 .. n |-> row(i)]
<1>1. n \in Nat /\ n >= 1
  OBVIOUS
<1>2. ASSUME NEW i \in 1 .. n PROVE row(i) \in Seq(Pairs) /\ Len(row(i)) = i
  <2>1. ASSUME NEW j \in 1 .. i PROVE <<i, j - 1>> \in Pairs
    BY <1>1, <2>1 DEF Pairs, Nodes
  <2>2. i \in Nat /\ row(i) \in [1 .. i -> Pairs]
    BY <1>1, <2>1
  <2> HIDE DEF row
  <2>3. QED
    BY <2>2, LenProperties
<1> HIDE DEF row
<1>3. s \in Seq(Seq(Pairs)) /\ Len(s) = n
  BY <1>1, <1>2
<1>4. TablePairs = FlattenSeq(s)
  BY DEF TablePairs, row
<1>5. \A i \in 1 .. n : s[i] = row(i)
  OBVIOUS
<1> HIDE DEF s, n
<1>6. PICK f : Sums(s, n, f) /\ FlattenSeq(s) = f[n]
  BY <1>1, <1>3, FlattenIs
<1>7. \A i \in 1 .. n : f[i] = IF i = 1 THEN s[i] ELSE f[i - 1] \o s[i]
  BY <1>6 DEF Sums
<1> DEFINE T == {i \in Nat : i \in 1 .. n => f[i] \in Seq(Pairs) /\ Len(f[i]) >= 1}
<1>8. 0 \in T
  OBVIOUS
<1>9. ASSUME NEW i \in Nat, i \in T PROVE i + 1 \in T
  <2> SUFFICES ASSUME i + 1 \in 1 .. n PROVE f[i + 1] \in Seq(Pairs) /\ Len(f[i + 1]) >= 1
    OBVIOUS
  <2> DEFINE r == s[i + 1]  q == f[i]
  <2>1. r \in Seq(Pairs) /\ Len(r) >= 1
    <3>1. r = row(i + 1) /\ row(i + 1) \in Seq(Pairs) /\ Len(row(i + 1)) = i + 1
      BY <1>2, <1>5
    <3>2. QED
      BY <3>1
  <2>2. CASE i = 0
    <3>1. f[i + 1] = r
      BY <1>7, <2>2
    <3> HIDE DEF r
    <3>2. QED
      BY <2>1, <3>1
  <2>3. CASE i # 0
    <3>1. i \in 1 .. n /\ i + 1 # 1 /\ (i + 1) - 1 = i
      BY <1>1, <2>3
    <3>2. f[i + 1] = IF i + 1 = 1 THEN s[i + 1] ELSE f[(i + 1) - 1] \o s[i + 1]
      BY <1>7, Zenon
    <3>3. f[i + 1] = q \o r
      BY <3>1, <3>2
    <3>4. q \in Seq(Pairs) /\ Len(q) >= 1
      BY <1>9, <3>1
    <3> HIDE DEF r, q
    <3>5. q \o r \in Seq(Pairs) /\ Len(q \o r) = Len(q) + Len(r)
      BY <2>1, <3>4, ConcatProperties
    <3>6. Len(q) \in Nat /\ Len(r) \in Nat
      BY <2>1, <3>4, LenProperties
    <3>7. QED
      BY <2>1, <3>3, <3>4, <3>5, <3>6
  <2>4. QED
    BY <2>2, <2>3
<1> HIDE DEF T
<1>10. Nat \subseteq T
  BY <1>8, <1>9, Induction
<1>11. n \in T /\ n \in 1 .. n
  BY <1>1, <1>10
<1>12. f[n] \in Seq(Pairs) /\ Len(f[n]) >= 1
  BY <1>11 DEF T
<1>13. QED
  BY <1>4, <1>6, <1>12

\* A line of the file sets both directions of an arc.
LEMMA BothIs ==
  ASSUME Network, NEW l, l.from \in Nodes, l.to \in Nodes, NEW v, v \in Nat
  PROVE  /\ Both(metric, l, v) \in [Nodes -> [Nodes -> Nat]]
         /\ \A i, j \in Nodes : Both(metric, l, v)[i][j] = Both(metric, l, v)[j][i]
<1> DEFINE x == l.from
           y == l.to
           half == [metric EXCEPT ![x][y] = v]
           m == Both(metric, l, v)
<1>1. m = [half EXCEPT ![y][x] = v]
  BY DEF Both
<1>2. metric \in [Nodes -> [Nodes -> Nat]] /\ \A i, j \in Nodes : metric[i][j] = metric[j][i]
  BY DEF Network
<1>3. /\ half \in [Nodes -> [Nodes -> Nat]]
      /\ \A i, j \in Nodes : half[i][j] = IF i = x /\ j = y THEN v ELSE metric[i][j]
  BY <1>2
<1>8. x \in Nodes /\ y \in Nodes
  OBVIOUS
<1> HIDE DEF half, m, x, y
<1>4. /\ m \in [Nodes -> [Nodes -> Nat]]
      /\ \A i, j \in Nodes : m[i][j] = IF i = y /\ j = x THEN v ELSE half[i][j]
  BY <1>1, <1>3, <1>8
<1>5. \A i, j \in Nodes : m[i][j] = IF (i = y /\ j = x) \/ (i = x /\ j = y) THEN v ELSE metric[i][j]
  BY <1>3, <1>4
<1>6. \A i, j \in Nodes : m[i][j] = m[j][i]
  BY <1>2, <1>5
<1>7. QED
  BY <1>4, <1>6 DEF m

\* The invariant holds before the file is read.
LEMMA PathInit == GraphInit => PathInv
<1> SUFFICES ASSUME GraphInit PROVE PathInv
  OBVIOUS
<1>1. PICK f \in Files :
        /\ numnodes = f.n
        /\ lines = f.lines
        /\ metric = [i \in 0 .. f.n - 1 |-> [j \in 0 .. f.n - 1 |-> IF i = j THEN 0 ELSE INFTY]]
  BY DEF GraphInit
<1>2. /\ INFTY \in Nat
      /\ f.n \in 2 .. 20
      /\ f.lines \in Seq([from: 0 .. f.n - 1, to: 0 .. f.n - 1, metric: Nat, cap: Nat])
  BY GraphAssumption
<1>3. place = "read" /\ todo = <<>> /\ answers = {}
  BY DEF GraphInit
<1>4. numnodes \in Nat /\ numnodes >= 2 /\ Nodes = 0 .. f.n - 1
  <2>1. numnodes = f.n
    BY <1>1
  <2>2. Nodes = 0 .. f.n - 1
    BY <2>1 DEF Nodes
  <2>3. f.n \in 2 .. 20
    BY <1>2
  <2>4. f.n \in Nat /\ f.n >= 2
    BY <2>3
  <2>5. QED
    BY <2>1, <2>2, <2>4
<1>5. lines \in Seq([from: Nodes, to: Nodes, metric: Nat, cap: Nat])
  BY <1>1, <1>2, <1>4
<1>6. metric = [i \in Nodes |-> [j \in Nodes |-> IF i = j THEN 0 ELSE INFTY]]
  BY <1>1, <1>4
<1>7. Network
  BY <1>2, <1>4, <1>6 DEF Network
<1>8. todo \in Seq(Pairs)
  BY <1>3
<1>9. ShortestPath
  BY <1>3 DEF ShortestPath
<1>10. QED
  BY <1>3, <1>4, <1>5, <1>7, <1>8, <1>9 DEF PathInv

\* What stays true of the file once it is read.
LEMMA FileStays ==
  ASSUME PathInv, UNCHANGED inputVars
  PROVE  /\ (numnodes \in Nat /\ numnodes >= 2)'
         /\ (lines \in Seq([from: Nodes, to: Nodes, metric: Nat, cap: Nat]))'
         /\ Network' /\ Nodes' = Nodes /\ Pairs' = Pairs /\ metric' = metric /\ numnodes' = numnodes
<1>1. UNCHANGED <<numnodes, lines, metric>>
  BY DEF inputVars
<1>2. Nodes' = Nodes /\ Network'
  BY <1>1, SameNetwork DEF PathInv
<1>3. Pairs' = Pairs
  BY <1>2 DEF Pairs
<1>4. QED
  BY <1>1, <1>2, <1>3 DEF PathInv

\* Answers that were right are right.
LEMMA AnswersStay ==
  ASSUME PathInv, UNCHANGED inputVars, answers' \subseteq answers
  PROVE  ShortestPath'
<1>1. UNCHANGED <<numnodes, metric>>
  BY DEF inputVars
<1>2. \A a \in answers : a.mat = "metric" => Right(a)
  BY ShortestIs DEF PathInv
<1>3. \A a \in answers' : a.mat = "metric" => Right(a)'
  BY <1>1, <1>2, SameNetwork
<1>4. QED
  BY <1>3 DEF ShortestPath, Right

\* The pair of a call.
LEMMA PairIs ==
  ASSUME PathInv, todo # <<>>
  PROVE  dest \in Nodes /\ src \in Nodes /\ Tail(todo) \in Seq(Pairs)
<1>1. todo \in Seq(Pairs)
  BY DEF PathInv
<1>2. Head(todo) \in Pairs /\ Tail(todo) \in Seq(Pairs)
  BY <1>1, HeadTailProperties
<1>3. QED
  BY <1>2 DEF dest, src, Pairs

\* A line of the file is read into both halves of the matrices.
LEMMA ReadLineKeeps ==
  ASSUME PathInv, ReadLine
  PROVE  PathInv'
<1> DEFINE l == Head(lines)
           L == [from: Nodes, to: Nodes, metric: Nat, cap: Nat]
<1>1. /\ numnodes \in Nat /\ numnodes >= 2 /\ lines \in Seq(L) /\ Network /\ todo \in Seq(Pairs)
      /\ answers = {}
  BY DEF PathInv, ReadLine
<1>2. /\ place = "read" /\ lines # <<>>
      /\ metric' = Both(metric, l, l.metric)
      /\ lines' = Tail(lines)
      /\ UNCHANGED <<place, numnodes, todo, answers>>
  BY DEF ReadLine
<1>3. l \in L /\ Tail(lines) \in Seq(L)
  BY <1>1, <1>2, HeadTailProperties
<1>4. l.from \in Nodes /\ l.to \in Nodes /\ l.metric \in Nat
  BY <1>3
<1>5. Nodes' = Nodes /\ Pairs' = Pairs
  BY <1>2 DEF Nodes, Pairs
<1> HIDE DEF l
<1>6. /\ metric' \in [Nodes -> [Nodes -> Nat]]
      /\ \A i, j \in Nodes : metric'[i][j] = metric'[j][i]
  <2> DEFINE v == l.metric  m == Both(metric, l, v)
  <2>1. Network /\ l.from \in Nodes /\ l.to \in Nodes /\ v \in Nat
    BY <1>1, <1>4
  <2> HIDE DEF v
  <2>2. m \in [Nodes -> [Nodes -> Nat]] /\ \A i, j \in Nodes : m[i][j] = m[j][i]
    BY <2>1, BothIs
  <2> HIDE DEF m
  <2>3. metric' = m
    BY <1>2 DEF m, v
  <2>4. QED
    BY <2>2, <2>3
<1>7. Network'
  BY <1>1, <1>2, <1>5, <1>6 DEF Network
<1>8. (lines \in Seq([from: Nodes, to: Nodes, metric: Nat, cap: Nat]))'
  BY <1>2, <1>3, <1>5
<1>9. (numnodes \in Nat /\ numnodes >= 2 /\ todo \in Seq(Pairs))'
  BY <1>1, <1>2, <1>5
<1>10. place' = "read" /\ answers' = {}
  BY <1>1, <1>2
<1>11. ShortestPath'
  BY <1>10 DEF ShortestPath
<1>12. QED
  BY <1>7, <1>8, <1>9, <1>10, <1>11 DEF PathInv

\* The steps that only move on: to the prompt, to the end, to a flow.
LEMMA OthersKeep ==
  ASSUME PathInv, UNCHANGED <<inputVars, mat, todo, answers>>,
         \/ place' \in {"rloop", "quit"}
         \/ /\ place \notin {"read", "rloop", "quit"} /\ mat # "metric"
            /\ place' \in {"layer", "scan", "walk", "ref", "move", "sum"}
  PROVE  PathInv'
<1>1. UNCHANGED inputVars /\ mat' = mat /\ todo' = todo /\ answers' = answers
  OBVIOUS
<1>2. /\ (numnodes \in Nat /\ numnodes >= 2)'
      /\ (lines \in Seq([from: Nodes, to: Nodes, metric: Nat, cap: Nat]))'
      /\ Network' /\ Pairs' = Pairs
  BY <1>1, FileStays
<1>3. ShortestPath'
  BY <1>1, AnswersStay
<1>4. (todo \in Seq(Pairs))'
  BY <1>1, <1>2 DEF PathInv
<1>5. place' \notin {"read", "rloop", "quit"} => todo' # <<>> /\ mat' # "metric"
  BY <1>1 DEF PathInv
<1>6. place' \notin {"repeat", "trace", "read"}
  OBVIOUS
<1>7. QED
  BY <1>2, <1>3, <1>4, <1>5, <1>6 DEF PathInv

\* A command asks for pairs, and forgets the answers to the last one.
LEMMA EnterKeeps ==
  ASSUME PathInv, NEW m, NEW pairs, pairs \in Seq(Pairs), pairs # <<>>, Enter(m, pairs)
  PROVE  PathInv'
<1>1. /\ place' = "call" /\ mat' = m /\ todo' = pairs /\ answers' = {}
      /\ UNCHANGED inputVars
  BY DEF Enter
<1>2. /\ (numnodes \in Nat /\ numnodes >= 2)'
      /\ (lines \in Seq([from: Nodes, to: Nodes, metric: Nat, cap: Nat]))'
      /\ Network' /\ Pairs' = Pairs
  BY <1>1, FileStays
<1>3. ShortestPath'
  BY <1>1 DEF ShortestPath
<1>4. QED
  BY <1>1, <1>2, <1>3 DEF PathInv

\* A command is entered.
LEMMA CommandKeeps ==
  ASSUME PathInv, Command
  PROVE  PathInv'
<1>1. TablePairs \in Seq(Pairs) /\ TablePairs # <<>>
  BY TablePairsAre DEF PathInv
<1>2. \A p \in Pairs : <<p>> \in Seq(Pairs) /\ <<p>> # <<>>
  OBVIOUS
<1>3. CASE AskPath
  BY <1>2, <1>3, EnterKeeps DEF AskPath
<1>4. CASE AskFlow
  BY <1>2, <1>4, EnterKeeps DEF AskFlow
<1>5. CASE AskConnectivity
  BY <1>2, <1>5, EnterKeeps DEF AskConnectivity
<1>6. CASE PathTable
  BY <1>1, <1>6, EnterKeeps DEF PathTable
<1>7. CASE FlowTable
  BY <1>1, <1>7, EnterKeeps DEF FlowTable
<1>8. CASE ConnectivityTable
  BY <1>1, <1>8, EnterKeeps DEF ConnectivityTable
<1>9. CASE Quit
  <2>1. UNCHANGED <<inputVars, mat, todo, answers>> /\ place' = "quit"
    BY <1>9 DEF Quit
  <2>2. QED
    BY <2>1, OthersKeep
<1>10. QED
  BY <1>3, <1>4, <1>5, <1>6, <1>7, <1>8, <1>9 DEF Command

\* A call returns: what it answers is right, if it is a path.
LEMMA ReturnKeeps ==
  ASSUME PathInv, NEW value, NEW path, Return(value, path),
         place \in {"trace", "sum"},
         mat = "metric" =>
           Right([dest |-> dest, src |-> src, mat |-> mat, value |-> value, path |-> path])
  PROVE  PathInv'
<1> DEFINE b == [dest |-> dest, src |-> src, mat |-> mat, value |-> value, path |-> path]
<1>1. /\ answers' = answers \cup {b}
      /\ todo' = Tail(todo)
      /\ place' = IF Tail(todo) = <<>> THEN "rloop" ELSE "call"
      /\ UNCHANGED <<inputVars, mat>>
  BY DEF Return
<1>2. /\ (numnodes \in Nat /\ numnodes >= 2)'
      /\ (lines \in Seq([from: Nodes, to: Nodes, metric: Nat, cap: Nat]))'
      /\ Network' /\ Pairs' = Pairs
  BY <1>1, FileStays
<1>3. todo # <<>>
  BY DEF PathInv
<1>4. (todo \in Seq(Pairs))'
  BY <1>1, <1>2, <1>3, PairIs
<1>5. b.mat = mat /\ (mat = "metric" => Right(b))
  OBVIOUS
<1> HIDE DEF b
<1>6. \A a \in answers : a.mat = "metric" => Right(a)
  BY ShortestIs DEF PathInv
<1>7. \A a \in answers' : a.mat = "metric" => Right(a)
  BY <1>1, <1>5, <1>6
<1>8. UNCHANGED <<numnodes, metric>>
  BY <1>1 DEF inputVars
<1>9. \A a \in answers' : a.mat = "metric" => Right(a)'
  BY <1>7, <1>8, SameNetwork
<1>10. ShortestPath'
  BY <1>9 DEF ShortestPath, Right
<1>11. place' \in {"rloop", "call"} /\ (place' # "rloop" => todo' # <<>>)
  BY <1>1
<1>12. QED
  BY <1>2, <1>4, <1>10, <1>11 DEF PathInv

\* The steps of short_path().
LEMMA PathKeeps ==
  ASSUME PathInv, UNCHANGED <<inputVars, mat, todo, answers>>,
         todo # <<>>, mat = "metric", place' \in {"repeat", "trace"}, place' = "trace" => k' = src,
         Labels(nodestate', k', Lengths(dest))
  PROVE  PathInv'
<1>1. UNCHANGED inputVars /\ mat' = mat /\ todo' = todo /\ answers' = answers
  OBVIOUS
<1>2. /\ (numnodes \in Nat /\ numnodes >= 2)'
      /\ (lines \in Seq([from: Nodes, to: Nodes, metric: Nat, cap: Nat]))'
      /\ Network' /\ Pairs' = Pairs /\ UNCHANGED <<numnodes, metric, todo>>
  BY <1>1, FileStays
<1>3. ShortestPath'
  BY <1>1, AnswersStay
<1>4. (todo \in Seq(Pairs))' /\ todo' # <<>>
  BY <1>1, <1>2 DEF PathInv
<1>5. Labels(nodestate, k, Lengths(dest))'
  BY <1>2, SameLabels
<1>6. src' = src
  BY <1>1 DEF src
<1>7. place' = "trace" => k' = src'
  BY <1>6
<1>8. QED
  BY <1>1, <1>2, <1>3, <1>4, <1>5, <1>7 DEF PathInv

\* short_path() begins.
LEMMA ShortPathKeeps ==
  ASSUME PathInv, ShortPath
  PROVE  PathInv'
<1>1. /\ place = "call" /\ mat = "metric" /\ k' = dest /\ place' = "repeat"
      /\ UNCHANGED <<inputVars, mat, todo, answers>>
      /\ nodestate' = [i \in Nodes |-> [perm |-> IF i = dest THEN 1 ELSE 0,
                                        predecess |-> -1,
                                        len |-> IF i = dest THEN 0 ELSE INFTY]]
  BY DEF ShortPath
<1>2. todo # <<>> /\ Network
  BY <1>1 DEF PathInv
<1>3. dest \in Nodes
  BY <1>2, PairIs
<1>4. Within(dest, numnodes, Lengths(dest))
  BY <1>2, DistanceIs
<1>5. Labels(nodestate', dest, Lengths(dest))
  BY <1>1, <1>2, <1>3, <1>4, FirstLabels
<1>6. QED
  BY <1>1, <1>2, <1>5, PathKeeps

\* short_path() takes one turn of its goto.
LEMMA RepeatKeeps ==
  ASSUME PathInv, Repeat
  PROVE  PathInv'
<1>1. /\ place = "repeat" /\ place' = IF k' # src THEN "repeat" ELSE "trace"
      /\ UNCHANGED <<inputVars, mat, todo, answers>>
  BY DEF Repeat
<1>2. todo # <<>> /\ Network /\ mat = "metric" /\ Labels(nodestate, k, Lengths(dest))
  BY <1>1 DEF PathInv
<1>3. Within(dest, numnodes, Lengths(dest))
  BY <1>2, DistanceIs
<1>4. Labels(nodestate', k', Lengths(dest))
  BY <1>2, <1>3, RepeatKeepsLabels
<1>5. QED
  BY <1>1, <1>2, <1>4, PathKeeps

\* short_path() returns.
LEMMA TraceKeeps ==
  ASSUME PathInv, Trace
  PROVE  PathInv'
<1>1. place = "trace" /\ Return(Trail.sum, Trail.path)
  BY DEF Trace
<1>2. Network /\ Labels(nodestate, k, Lengths(dest)) /\ k = src
  BY <1>1 DEF PathInv
<1>3. Right([dest |-> dest, src |-> src, mat |-> mat, value |-> Trail.sum, path |-> Trail.path])
  BY <1>2, TraceIsRight
<1>4. QED
  BY <1>1, <1>3, ReturnKeeps

\* max_flow() returns: an answer of another kind.
LEMMA SumKeeps ==
  ASSUME PathInv, Sum
  PROVE  PathInv'
<1>1. place = "sum" /\ Return(SumFunction([i \in Nodes |-> flow[src][i]]), <<>>)
  BY DEF Sum
<1>2. mat # "metric"
  BY <1>1 DEF PathInv
<1>3. QED
  BY <1>1, <1>2, ReturnKeeps

\* The other steps of max_flow() touch nothing that short_path() uses.
LEMMA FlowKeeps ==
  ASSUME PathInv, MaxFlow \/ LayerNet \/ Scan \/ WalkBack \/ FindRef \/ Move \/ Returned
  PROVE  PathInv'
<1>1. CASE MaxFlow
  <2>1. /\ UNCHANGED <<inputVars, mat, todo, answers>>
        /\ place = "call" /\ mat # "metric" /\ place' = "layer"
    BY <1>1 DEF MaxFlow
  <2>2. QED
    BY <2>1, OthersKeep
<1>2. CASE LayerNet \/ Scan \/ WalkBack \/ FindRef \/ Move \/ Returned
  <2>1. UNCHANGED <<inputVars, mat, todo, answers>>
    BY <1>2 DEF LayerNet, Scan, WalkBack, FindRef, Move, Returned
  <2>2. place \in {"layer", "scan", "walk", "ref", "move"}
    BY <1>2 DEF LayerNet, Scan, WalkBack, FindRef, Move, Returned
  <2>3. place' \in {"layer", "scan", "walk", "ref", "move", "sum"}
    BY <1>2, <2>2 DEF LayerNet, Scan, WalkBack, FindRef, Move, Returned
  <2>4. mat # "metric"
    BY <2>2 DEF PathInv
  <2>5. QED
    BY <2>1, <2>2, <2>3, <2>4, OthersKeep
<1>3. QED
  BY <1>1, <1>2

\* Every step keeps the invariant.
LEMMA PathStep == PathInv /\ [GraphNext]_graphVars => PathInv'
<1> SUFFICES ASSUME PathInv, [GraphNext]_graphVars PROVE PathInv'
  OBVIOUS
<1>1. CASE Command
  BY <1>1, CommandKeeps
<1>2. CASE ReadLine
  BY <1>2, ReadLineKeeps
<1>3. CASE ReadEnd
  <2>1. UNCHANGED <<inputVars, mat, todo, answers>> /\ place' = "rloop"
    BY <1>3 DEF ReadEnd
  <2>2. QED
    BY <2>1, OthersKeep
<1>4. CASE ShortPath
  BY <1>4, ShortPathKeeps
<1>5. CASE Repeat
  BY <1>5, RepeatKeeps
<1>6. CASE Trace
  BY <1>6, TraceKeeps
<1>7. CASE MaxFlow \/ LayerNet \/ Scan \/ WalkBack \/ FindRef \/ Move \/ Returned
  BY <1>7, FlowKeeps
<1>8. CASE Sum
  BY <1>8, SumKeeps
<1>9. CASE UNCHANGED graphVars
  <2>1. UNCHANGED <<inputVars, mat, todo, answers, place, nodestate, k>>
    BY <1>9 DEF graphVars, pathVars
  <2>2. /\ (numnodes \in Nat /\ numnodes >= 2)'
        /\ (lines \in Seq([from: Nodes, to: Nodes, metric: Nat, cap: Nat]))'
        /\ Network' /\ Pairs' = Pairs /\ UNCHANGED <<numnodes, metric, todo>>
    BY <2>1, FileStays
  <2>3. ShortestPath'
    BY <2>1, AnswersStay
  <2>4. place' \in {"repeat", "trace"} => mat' = "metric" /\ Labels(nodestate, k, Lengths(dest))'
    BY <2>1, <2>2, SameLabels DEF PathInv
  <2>5. src' = src
    BY <2>1 DEF src
  <2>6. QED
    BY <2>1, <2>2, <2>3, <2>4, <2>5 DEF PathInv
<1>10. QED
  BY <1>1, <1>2, <1>3, <1>4, <1>5, <1>6, <1>7, <1>8, <1>9 DEF GraphNext, Work

(* An answer of short_path() is a path along arcs from source to            *)
(* destination whose sum is the shortest length there is: a label that has  *)
(* been made permanent is final (ngraph.c:548-604).                         *)
THEOREM ShortestAlways == GraphSpec => []ShortestPath
<1>1. GraphInit => PathInv
  BY PathInit
<1>2. PathInv /\ [GraphNext]_graphVars => PathInv'
  BY PathStep
<1>3. PathInv => ShortestPath
  BY DEF PathInv
<1>4. QED
  BY <1>1, <1>2, <1>3, PTL DEF GraphSpec

(***************************************************************************)
(* Sums over a finite set                                                  *)
(***************************************************************************)
\* The function that SumFunctionOnSet() computes, on the sets of up to n.
Plus(f, s, rest) == IF s = {} THEN 0 ELSE LET x == CHOOSE x \in s : TRUE IN f[x] + rest[s \ {x}]
AddedUp(f, S, g) == g = [s \in SUBSET S |-> Plus(f, s, g)]

\* A set has a first element, and one less without it.
LEMMA OneLess ==
  ASSUME NEW s, IsFiniteSet(s), NEW x \in s
  PROVE  /\ IsFiniteSet(s \ {x}) /\ Cardinality(s) \in Nat
         /\ Cardinality(s) >= 1
         /\ Cardinality(s \ {x}) = Cardinality(s) - 1
<1>1. IsFiniteSet(s \ {x}) /\ Cardinality(s \ {x}) = Cardinality(s) - 1
  BY FS_RemoveElement
<1>2. Cardinality(s) \in Nat /\ Cardinality(s \ {x}) \in Nat
  BY <1>1, FS_CardinalityType
<1>3. QED
  BY <1>1, <1>2

\* There is such a function for every finite set.
LEMMA AddedUpExists ==
  ASSUME NEW f, NEW S, IsFiniteSet(S)
  PROVE  \E g : AddedUp(f, S, g)
<1> DEFINE Good(g, n) == /\ g = [s \in SUBSET S |-> g[s]]
                         /\ \A s \in SUBSET S : Cardinality(s) <= n => g[s] = Plus(f, s, g)
           T == {n \in Nat : \E g : Good(g, n)}
<1>0. \A s \in SUBSET S : IsFiniteSet(s) /\ Cardinality(s) \in Nat /\ (Cardinality(s) = 0 <=> s = {})
                          /\ Cardinality(s) <= Cardinality(S)
  BY FS_Subset, FS_CardinalityType, FS_EmptySet
<1>1. 0 \in T
  <2> DEFINE g == [s \in SUBSET S |-> 0]
  <2>1. ASSUME NEW s \in SUBSET S, Cardinality(s) <= 0 PROVE g[s] = Plus(f, s, g)
    <3>1. s = {}
      BY <1>0, <2>1
    <3>2. QED
      BY <3>1 DEF Plus
  <2>2. g = [s \in SUBSET S |-> g[s]]
    OBVIOUS
  <2>3. Good(g, 0)
    BY <2>1, <2>2
  <2> HIDE DEF Good, g
  <2>4. QED
    BY <2>3
<1>2. ASSUME NEW n \in Nat, n \in T PROVE n + 1 \in T
  <2>1. PICK g : Good(g, n)
    BY <1>2
  <2> DEFINE h == [s \in SUBSET S |-> Plus(f, s, g)]
  <2>2. ASSUME NEW s \in SUBSET S, Cardinality(s) <= n PROVE h[s] = g[s]
    BY <2>1, <2>2
  <2>3. ASSUME NEW s \in SUBSET S, Cardinality(s) <= n + 1 PROVE h[s] = Plus(f, s, h)
    <3>1. CASE s = {}
      BY <3>1 DEF Plus
    <3>2. CASE s # {}
      <4> DEFINE x == CHOOSE x \in s : TRUE
                 t == s \ {x}
      <4>1. x \in s
        BY <3>2
      <4>2. t \in SUBSET S
        BY <2>3
      <4>3. Cardinality(t) <= n
        <5> HIDE DEF x
        <5>1. Cardinality(t) = Cardinality(s) - 1 /\ Cardinality(s) \in Nat
          BY <1>0, <2>3, <4>1, OneLess
        <5>2. QED
          BY <2>3, <5>1
      <4>4. h[t] = g[t]
        BY <2>2, <4>2, <4>3
      <4>5. h[s] = f[x] + g[t]
        BY <2>3, <3>2 DEF Plus
      <4>6. Plus(f, s, h) = f[x] + h[t]
        BY <3>2 DEF Plus
      <4>7. QED
        BY <4>4, <4>5, <4>6
    <3>3. QED
      BY <3>1, <3>2
  <2>4. h = [s \in SUBSET S |-> h[s]]
    OBVIOUS
  <2>5. Good(h, n + 1)
    BY <2>3, <2>4
  <2> HIDE DEF Good, h
  <2>6. QED
    BY <2>5
<1> HIDE DEF T
<1>3. Nat \subseteq T
  BY <1>1, <1>2, Induction
<1>4. PICK g : Good(g, Cardinality(S))
  <2>1. Cardinality(S) \in T
    BY <1>3, FS_CardinalityType
  <2>2. QED
    BY <2>1 DEF T
<1>5. \A s \in SUBSET S : g[s] = Plus(f, s, g)
  BY <1>0, <1>4
<1>6. g = [s \in SUBSET S |-> Plus(f, s, g)]
  BY <1>4, <1>5
<1>7. QED
  BY <1>6 DEF AddedUp

\* It looks at nothing but the values it adds.
LEMMA AddedUpAgree ==
  ASSUME NEW S, IsFiniteSet(S), NEW R, IsFiniteSet(R), NEW f, NEW e, NEW g, NEW h,
         AddedUp(f, S, g), AddedUp(e, R, h)
  PROVE  \A s : s \subseteq S /\ s \subseteq R /\ (\A x \in s : f[x] = e[x]) => g[s] = h[s]
<1> DEFINE Alike(s) == s \subseteq S /\ s \subseteq R /\ \A x \in s : f[x] = e[x]
           T == {n \in Nat : \A s \in SUBSET S : Alike(s) /\ Cardinality(s) = n => g[s] = h[s]}
<1>0. \A s \in SUBSET S : IsFiniteSet(s) /\ Cardinality(s) \in Nat /\ (Cardinality(s) = 0 <=> s = {})
  BY FS_Subset, FS_CardinalityType, FS_EmptySet
<1>1. (\A s \in SUBSET S : g[s] = Plus(f, s, g)) /\ (\A s \in SUBSET R : h[s] = Plus(e, s, h))
  BY DEF AddedUp
<1>2. 0 \in T
  <2>1. ASSUME NEW s \in SUBSET S, Cardinality(s) = 0 PROVE g[s] = h[s]
    <3>1. s = {}
      BY <1>0, <2>1
    <3>2. g[{}] = 0 /\ h[{}] = 0
      BY <1>1 DEF Plus
    <3>3. QED
      BY <3>1, <3>2
  <2>2. QED
    BY <2>1
<1>3. ASSUME NEW n \in Nat, n \in T PROVE n + 1 \in T
  <2> SUFFICES ASSUME NEW s \in SUBSET S, Alike(s), Cardinality(s) = n + 1 PROVE g[s] = h[s]
    OBVIOUS
  <2>1. s # {}
    <3>1. Cardinality(s) # 0
      OBVIOUS
    <3>2. QED
      BY <1>0, <3>1
  <2> DEFINE x == CHOOSE x \in s : TRUE
             t == s \ {x}
  <2>2. x \in s
    BY <2>1
  <2>3. g[s] = f[x] + g[t] /\ h[s] = e[x] + h[t]
    BY <1>1, <2>1 DEF Plus
  <2>4. f[x] = e[x]
    BY <2>2
  <2> HIDE DEF x
  <2>5. Cardinality(t) = n /\ t \in SUBSET S /\ Alike(t)
    <3>1. Cardinality(t) = Cardinality(s) - 1
      BY <1>0, <2>2, OneLess
    <3>2. QED
      BY <3>1
  <2>6. g[t] = h[t]
    BY <1>3, <2>5
  <2>7. QED
    BY <2>3, <2>4, <2>6
<1> HIDE DEF T
<1>4. Nat \subseteq T
  BY <1>2, <1>3, Induction
<1>5. ASSUME NEW s, Alike(s) PROVE g[s] = h[s]
  <2>1. s \in SUBSET S /\ Cardinality(s) \in T
    BY <1>0, <1>4, <1>5
  <2>2. QED
    BY <1>5, <2>1 DEF T
<1>6. QED
  BY <1>5

\* What SumFunctionOnSet() is.
Adding(f, S) == CHOOSE g : AddedUp(f, S, g)

\* The community modules' sum is what that function has for the whole set.
LEMMA SumIs ==
  ASSUME NEW f, NEW S, IsFiniteSet(S)
  PROVE  AddedUp(f, S, Adding(f, S)) /\ SumFunctionOnSet(f, S) = Adding(f, S)[S]
<1>1. AddedUp(f, S, Adding(f, S))
  BY AddedUpExists DEF Adding
<1>2. SumFunctionOnSet(f, S) = Adding(f, S)[S]
  BY DEF SumFunctionOnSet, FoldFunctionOnSet, MapThenFoldSet, Adding, AddedUp, Plus
<1>3. QED
  BY <1>1, <1>2

\* The sum depends on the values alone.
LEMMA SumSame ==
  ASSUME NEW S, IsFiniteSet(S), NEW f, NEW g, \A x \in S : f[x] = g[x]
  PROVE  SumFunctionOnSet(f, S) = SumFunctionOnSet(g, S)
<1>1. AddedUp(f, S, Adding(f, S)) /\ AddedUp(g, S, Adding(g, S))
  BY SumIs
<1>2. Adding(f, S)[S] = Adding(g, S)[S]
  BY <1>1, AddedUpAgree
<1>3. QED
  BY <1>2, SumIs

\* A sum is one of its values and the sum of the others.
LEMMA SumFirst ==
  ASSUME NEW S, IsFiniteSet(S), NEW f
  PROVE  /\ S = {} => SumFunctionOnSet(f, S) = 0
         /\ S # {} => \E x \in S : SumFunctionOnSet(f, S) = f[x] + SumFunctionOnSet(f, S \ {x})
<1> DEFINE g == Adding(f, S)
<1>1. AddedUp(f, S, g) /\ SumFunctionOnSet(f, S) = g[S]
  BY SumIs
<1> HIDE DEF g
<1>2. g[S] = Plus(f, S, g)
  BY <1>1 DEF AddedUp
<1>3. CASE S = {}
  BY <1>1, <1>2, <1>3 DEF Plus
<1>4. CASE S # {}
  <2> DEFINE x == CHOOSE x \in S : TRUE
             t == S \ {x}
             h == Adding(f, t)
  <2>1. x \in S
    BY <1>4
  <2>2. g[S] = f[x] + g[t]
    BY <1>2, <1>4 DEF Plus
  <2> HIDE DEF x
  <2>3. IsFiniteSet(t)
    BY <2>1, OneLess
  <2>4. AddedUp(f, t, h) /\ SumFunctionOnSet(f, t) = h[t]
    BY <2>3, SumIs
  <2> HIDE DEF h
  <2>5. g[t] = h[t]
    BY <1>1, <2>3, <2>4, AddedUpAgree
  <2>6. QED
    BY <1>1, <1>4, <2>1, <2>2, <2>4, <2>5
<1>5. QED
  BY <1>3, <1>4

\* Integers add up to an integer, natural numbers to a natural number.
LEMMA SumType ==
  ASSUME NEW S, IsFiniteSet(S), NEW f
  PROVE  /\ (\A x \in S : f[x] \in Int) => SumFunctionOnSet(f, S) \in Int
         /\ (\A x \in S : f[x] \in Nat) => SumFunctionOnSet(f, S) \in Nat
<1> DEFINE Total(s) == SumFunctionOnSet(f, s)
           T == {n \in Nat : \A s \in SUBSET S : Cardinality(s) = n =>
                   /\ (\A x \in s : f[x] \in Int) => Total(s) \in Int
                   /\ (\A x \in s : f[x] \in Nat) => Total(s) \in Nat}
<1>0. \A s \in SUBSET S : IsFiniteSet(s) /\ Cardinality(s) \in Nat /\ (Cardinality(s) = 0 <=> s = {})
  BY FS_Subset, FS_CardinalityType, FS_EmptySet
<1>1. \A s \in SUBSET S : /\ s = {} => Total(s) = 0
                          /\ s # {} => \E x \in s : Total(s) = f[x] + Total(s \ {x})
  BY <1>0, SumFirst
<1> HIDE DEF Total
<1>2. 0 \in T
  BY <1>0, <1>1
<1>3. ASSUME NEW n \in Nat, n \in T PROVE n + 1 \in T
  <2> SUFFICES ASSUME NEW s \in SUBSET S, Cardinality(s) = n + 1
               PROVE  /\ (\A x \in s : f[x] \in Int) => Total(s) \in Int
                      /\ (\A x \in s : f[x] \in Nat) => Total(s) \in Nat
    OBVIOUS
  <2>1. s # {}
    <3>1. Cardinality(s) # 0
      OBVIOUS
    <3>2. QED
      BY <1>0, <3>1
  <2>2. PICK x \in s : Total(s) = f[x] + Total(s \ {x})
    BY <1>1, <2>1
  <2>3. Cardinality(s \ {x}) = n /\ s \ {x} \in SUBSET S
    BY <1>0, OneLess
  <2>4. /\ (\A y \in s \ {x} : f[y] \in Int) => Total(s \ {x}) \in Int
        /\ (\A y \in s \ {x} : f[y] \in Nat) => Total(s \ {x}) \in Nat
    BY <1>3, <2>3
  <2>5. QED
    BY <2>2, <2>4
<1> HIDE DEF T
<1>4. Nat \subseteq T
  BY <1>2, <1>3, Induction
<1>5. S \in SUBSET S /\ Cardinality(S) \in T
  BY <1>0, <1>4
<1>6. QED
  BY <1>5 DEF T, Total

\* Any of the values may be taken out first.
LEMMA SumTake ==
  ASSUME NEW S, IsFiniteSet(S), NEW f, \A x \in S : f[x] \in Int, NEW y \in S
  PROVE  SumFunctionOnSet(f, S) = f[y] + SumFunctionOnSet(f, S \ {y})
<1> DEFINE Total(s) == SumFunctionOnSet(f, s)
           T == {n \in Nat : \A s \in SUBSET S : Cardinality(s) = n =>
                               \A z \in s : Total(s) = f[z] + Total(s \ {z})}
<1>0. \A s \in SUBSET S : IsFiniteSet(s) /\ Cardinality(s) \in Nat /\ (Cardinality(s) = 0 <=> s = {})
  BY FS_Subset, FS_CardinalityType, FS_EmptySet
<1>1. \A s \in SUBSET S : s # {} => \E x \in s : Total(s) = f[x] + Total(s \ {x})
  BY <1>0, SumFirst
<1>2. \A s \in SUBSET S : Total(s) \in Int
  BY <1>0, SumType
<1> HIDE DEF Total
<1>3. 0 \in T
  BY <1>0
<1>4. ASSUME NEW n \in Nat, n \in T PROVE n + 1 \in T
  <2> SUFFICES ASSUME NEW s \in SUBSET S, Cardinality(s) = n + 1, NEW z \in s
               PROVE  Total(s) = f[z] + Total(s \ {z})
    OBVIOUS
  <2>1. PICK x \in s : Total(s) = f[x] + Total(s \ {x})
    BY <1>1
  <2>2. CASE x = z
    BY <2>1, <2>2
  <2>3. CASE x # z
    <3> DEFINE both == s \ {x, z}
    <3>1. Cardinality(s \ {x}) = n /\ Cardinality(s \ {z}) = n
      BY <1>0, OneLess
    <3>2. s \ {x} \in SUBSET S /\ s \ {z} \in SUBSET S /\ both \in SUBSET S
          /\ z \in s \ {x} /\ x \in s \ {z} /\ (s \ {x}) \ {z} = both /\ (s \ {z}) \ {x} = both
      BY <2>3
    <3>3. Total(s \ {x}) = f[z] + Total(both)
      BY <1>4, <3>1, <3>2
    <3>4. Total(s \ {z}) = f[x] + Total(both)
      BY <1>4, <3>1, <3>2
    <3>5. Total(both) \in Int /\ f[x] \in Int /\ f[z] \in Int
      BY <1>2, <3>2
    <3> HIDE DEF both
    <3>6. QED
      BY <2>1, <3>3, <3>4, <3>5
  <2>4. QED
    BY <2>2, <2>3
<1> HIDE DEF T
<1>5. Nat \subseteq T
  BY <1>3, <1>4, Induction
<1>6. S \in SUBSET S /\ Cardinality(S) \in T
  BY <1>0, <1>5
<1>7. QED
  BY <1>6 DEF T, Total

\* The sum changes as its term at y does.
Altered(f, g, S, y) == SumFunctionOnSet(g, S) = SumFunctionOnSet(f, S) - f[y] + g[y]

\* When one value changes, the sum changes by as much.
LEMMA SumChanges ==
  ASSUME NEW S, IsFiniteSet(S), NEW f, NEW g, NEW y \in S,
         \A x \in S : f[x] \in Int /\ g[x] \in Int,
         \A x \in S : x # y => f[x] = g[x]
  PROVE  Altered(f, g, S, y)
<1> DEFINE t == S \ {y}
<1>1. IsFiniteSet(t)
  BY OneLess
<1>2. /\ SumFunctionOnSet(f, S) = f[y] + SumFunctionOnSet(f, t)
      /\ SumFunctionOnSet(g, S) = g[y] + SumFunctionOnSet(g, t)
  BY SumTake
<1>3. SumFunctionOnSet(f, t) = SumFunctionOnSet(g, t)
  BY <1>1, SumSame
<1>4. SumFunctionOnSet(f, t) \in Int
  BY <1>1, SumType
<1>5. f[y] \in Int /\ g[y] \in Int
  OBVIOUS
<1> HIDE DEF t
<1>6. SumFunctionOnSet(g, S) = SumFunctionOnSet(f, S) - f[y] + g[y]
  BY <1>2, <1>3, <1>4, <1>5
<1>7. QED
  BY <1>6 DEF Altered

\* Sums of two functions, value by value.
LEMMA SumTwo ==
  ASSUME NEW S, IsFiniteSet(S), NEW f, NEW g, NEW h,
         \A x \in S : f[x] \in Int /\ g[x] \in Int /\ h[x] = f[x] + g[x]
  PROVE  SumFunctionOnSet(h, S) = SumFunctionOnSet(f, S) + SumFunctionOnSet(g, S)
<1> DEFINE F(s) == SumFunctionOnSet(f, s)
           G(s) == SumFunctionOnSet(g, s)
           H(s) == SumFunctionOnSet(h, s)
           T == {n \in Nat : \A s \in SUBSET S : Cardinality(s) = n => H(s) = F(s) + G(s)}
<1>0. \A s \in SUBSET S : IsFiniteSet(s) /\ Cardinality(s) \in Nat /\ (Cardinality(s) = 0 <=> s = {})
  BY FS_Subset, FS_CardinalityType, FS_EmptySet
<1>1. F({}) = 0 /\ G({}) = 0 /\ H({}) = 0
  BY SumFirst, FS_EmptySet
<1>2. ASSUME NEW s \in SUBSET S, NEW x \in s
      PROVE  F(s) = f[x] + F(s \ {x}) /\ G(s) = g[x] + G(s \ {x}) /\ H(s) = h[x] + H(s \ {x})
             /\ F(s \ {x}) \in Int /\ G(s \ {x}) \in Int
  <2>1. IsFiniteSet(s) /\ IsFiniteSet(s \ {x})
    BY <1>0, OneLess
  <2>2. \A y \in s : f[y] \in Int /\ g[y] \in Int /\ h[y] \in Int
    OBVIOUS
  <2>3. QED
    BY <2>1, <2>2, SumTake, SumType
<1> HIDE DEF F, G, H
<1>3. 0 \in T
  <2>1. ASSUME NEW s \in SUBSET S, Cardinality(s) = 0 PROVE H(s) = F(s) + G(s)
    <3>1. s = {}
      BY <1>0, <2>1
    <3>2. H({}) = F({}) + G({})
      BY <1>1
    <3>3. QED
      BY <3>1, <3>2
  <2>2. QED
    BY <2>1
<1>4. ASSUME NEW n \in Nat, n \in T PROVE n + 1 \in T
  <2> SUFFICES ASSUME NEW s \in SUBSET S, Cardinality(s) = n + 1 PROVE H(s) = F(s) + G(s)
    OBVIOUS
  <2>1. s # {}
    <3>1. Cardinality(s) # 0
      OBVIOUS
    <3>2. QED
      BY <1>0, <3>1
  <2>2. PICK x \in s : TRUE
    BY <2>1
  <2>3. Cardinality(s \ {x}) = n /\ s \ {x} \in SUBSET S
    BY <1>0, OneLess
  <2>4. H(s \ {x}) = F(s \ {x}) + G(s \ {x})
    BY <1>4, <2>3
  <2>5. h[x] = f[x] + g[x] /\ f[x] \in Int /\ g[x] \in Int
    OBVIOUS
  <2>6. QED
    BY <1>2, <2>4, <2>5
<1> HIDE DEF T
<1>5. Nat \subseteq T
  BY <1>3, <1>4, Induction
<1>6. S \in SUBSET S /\ Cardinality(S) \in T
  BY <1>0, <1>5
<1>7. QED
  BY <1>6 DEF T, F, G, H

\* No value is larger than the sum; what is at most as large adds up to no more.
LEMMA SumBounds ==
  ASSUME NEW S, IsFiniteSet(S), NEW f, NEW g,
         \A x \in S : f[x] \in Int /\ g[x] \in Int /\ f[x] <= g[x]
  PROVE  SumFunctionOnSet(f, S) <= SumFunctionOnSet(g, S)
<1> DEFINE d == [x \in S |-> g[x] - f[x]]
<1>1. \A x \in S : d[x] \in Nat /\ d[x] \in Int /\ g[x] = f[x] + d[x]
  OBVIOUS
<1> HIDE DEF d
<1>2. SumFunctionOnSet(g, S) = SumFunctionOnSet(f, S) + SumFunctionOnSet(d, S)
  BY <1>1, SumTwo
<1>3. SumFunctionOnSet(f, S) \in Int /\ SumFunctionOnSet(d, S) \in Nat
  BY <1>1, SumType
<1>4. QED
  BY <1>2, <1>3

\* No value is more than the sum.
LEMMA SumHas ==
  ASSUME NEW S, IsFiniteSet(S), NEW f, \A x \in S : f[x] \in Nat, NEW y \in S
  PROVE  f[y] <= SumFunctionOnSet(f, S)
<1>1. SumFunctionOnSet(f, S) = f[y] + SumFunctionOnSet(f, S \ {y})
  BY SumTake
<1>2. SumFunctionOnSet(f, S \ {y}) \in Nat
  BY OneLess, SumType
<1>3. QED
  BY <1>1, <1>2

\* Nothing added up is nothing.
LEMMA SumNothing ==
  ASSUME NEW S, IsFiniteSet(S), NEW f, \A x \in S : f[x] = 0
  PROVE  SumFunctionOnSet(f, S) = 0
<1> DEFINE z == SumFunctionOnSet(f, S)
<1>1. \A x \in S : f[x] \in Int /\ f[x] = f[x] + f[x]
  OBVIOUS
<1>2. z = z + z
  BY <1>1, SumTwo
<1>3. z \in Int
  BY <1>1, SumType
<1> HIDE DEF z
<1>4. z = 0
  BY <1>2, <1>3
<1>5. QED
  BY <1>4 DEF z

\* The sum with only one value.
LEMMA SumSingle ==
  ASSUME NEW S, IsFiniteSet(S), NEW f, NEW y \in S, f[y] \in Int, \A x \in S : x # y => f[x] = 0
  PROVE  SumFunctionOnSet(f, S) = f[y]
<1> DEFINE t == S \ {y}
<1>1. IsFiniteSet(t) /\ \A x \in t : f[x] = 0
  BY OneLess
<1>2. \A x \in S : f[x] \in Int
  OBVIOUS
<1>3. SumFunctionOnSet(f, S) = f[y] + SumFunctionOnSet(f, t)
  BY <1>2, SumTake
<1> HIDE DEF t
<1>4. SumFunctionOnSet(f, t) = 0
  BY <1>1, SumNothing
<1>5. QED
  BY <1>3, <1>4

\* The sum over a set is that over a part of it and that over the rest.
LEMMA SumSplit ==
  ASSUME NEW S, IsFiniteSet(S), NEW f, \A x \in S : f[x] \in Int, NEW R \in SUBSET S
  PROVE  SumFunctionOnSet(f, S) = SumFunctionOnSet(f, R) + SumFunctionOnSet(f, S \ R)
<1> DEFINE Total(s) == SumFunctionOnSet(f, s)
           T == {n \in Nat : \A s \in SUBSET S : Cardinality(s) = n => Total(S) = Total(s) + Total(S \ s)}
<1>0. \A s \in SUBSET S : IsFiniteSet(s) /\ Cardinality(s) \in Nat /\ (Cardinality(s) = 0 <=> s = {})
  BY FS_Subset, FS_CardinalityType, FS_EmptySet
<1>1. \A s \in SUBSET S : Total(s) \in Int
  BY <1>0, SumType
<1>2. Total({}) = 0
  BY SumFirst, FS_EmptySet
<1>3. ASSUME NEW s \in SUBSET S, NEW x \in s PROVE Total(s) = f[x] + Total(s \ {x})
  <2>1. IsFiniteSet(s) /\ \A y \in s : f[y] \in Int
    BY <1>0
  <2>2. QED
    BY <2>1, SumTake
<1> HIDE DEF Total
<1>4. 0 \in T
  <2>1. ASSUME NEW s \in SUBSET S, Cardinality(s) = 0 PROVE Total(S) = Total(s) + Total(S \ s)
    <3>1. s = {} /\ S \ s = S
      BY <1>0, <2>1
    <3>2. Total(S) \in Int
      BY <1>1
    <3>3. QED
      BY <1>2, <3>1, <3>2
  <2>2. QED
    BY <2>1
<1>5. ASSUME NEW n \in Nat, n \in T PROVE n + 1 \in T
  <2> SUFFICES ASSUME NEW s \in SUBSET S, Cardinality(s) = n + 1 PROVE Total(S) = Total(s) + Total(S \ s)
    OBVIOUS
  <2>1. s # {}
    <3>1. Cardinality(s) # 0
      OBVIOUS
    <3>2. QED
      BY <1>0, <3>1
  <2>2. PICK x \in s : TRUE
    BY <2>1
  <2> DEFINE t == s \ {x}  u == S \ t
  <2>3. Cardinality(t) = n /\ t \in SUBSET S
    BY <1>0, OneLess
  <2>4. x \in u /\ u \ {x} = S \ s /\ u \in SUBSET S /\ S \ t = u /\ s \ {x} = t /\ S \ s \in SUBSET S
    OBVIOUS
  <2> HIDE DEF t, u
  <2>5. Total(S) = Total(t) + Total(u)
    BY <1>5, <2>3, <2>4
  <2>6. Total(s) = f[x] + Total(t)
    BY <1>3, <2>4
  <2>7. Total(u) = f[x] + Total(S \ s)
    <3>1. Total(u) = f[x] + Total(u \ {x})
      BY <1>3, <2>4
    <3>2. QED
      BY <2>4, <3>1
  <2>8. Total(t) \in Int /\ Total(S \ s) \in Int /\ f[x] \in Int
    BY <1>1, <2>3, <2>4
  <2>9. QED
    BY <2>5, <2>6, <2>7, <2>8
<1> HIDE DEF T
<1>6. Nat \subseteq T
  BY <1>4, <1>5, Induction
<1>7. Cardinality(R) \in T
  BY <1>0, <1>6
<1>8. QED
  BY <1>7 DEF T, Total

\* The sums over the columns in R of the rows of d.
Across(d, S, R) == [x \in S |-> SumFunctionOnSet(d[x], R)]
Square(d, S, R) == SumFunctionOnSet(Across(d, S, R), R)

\* What passes inside a set adds up to nothing with one more node, too.
LEMMA SquareGrows ==
  ASSUME NEW S, IsFiniteSet(S), NEW d,
         \A x, y \in S : d[x][y] \in Int /\ d[x][y] = -d[y][x],
         NEW R \in SUBSET S, NEW z \in R, Square(d, S, R \ {z}) = 0
  PROVE  Square(d, S, R) = 0
<1> DEFINE t == R \ {z}
           a == Across(d, S, R)
           b == Across(d, S, t)
           col == [x \in S |-> d[x][z]]
           none == [x \in S |-> 0]
<1>1. IsFiniteSet(R) /\ IsFiniteSet(t)
  <2>1. IsFiniteSet(R)
    BY FS_Subset
  <2>2. QED
    BY <2>1, OneLess
<1>2. \A x \in S : a[x] = SumFunctionOnSet(d[x], R) /\ b[x] = SumFunctionOnSet(d[x], t) /\ col[x] = d[x][z]
                   /\ none[x] = 0
  BY DEF Across
<1>3. R \ {z} = t /\ R \subseteq S /\ t \subseteq S /\ z \in S /\ t \subseteq R
  OBVIOUS
<1>4. SumFunctionOnSet(b, t) = 0
  BY DEF Square
<1> HIDE DEF t, a, b, col, none
<1>5. \A x \in S : a[x] = d[x][z] + b[x] /\ b[x] \in Int
  <2>1. ASSUME NEW x \in S PROVE a[x] = d[x][z] + b[x] /\ b[x] \in Int
    <3>1. \A y \in R : d[x][y] \in Int
      BY <1>3
    <3>2. SumFunctionOnSet(d[x], R) = d[x][z] + SumFunctionOnSet(d[x], t)
      BY <1>1, <1>3, <3>1, SumTake
    <3>3. SumFunctionOnSet(d[x], t) \in Int
      BY <1>1, <1>3, <3>1, SumType
    <3>4. QED
      BY <1>2, <3>2, <3>3
  <2>2. QED
    BY <2>1
<1>6. \A x \in S : a[x] \in Int /\ col[x] \in Int /\ a[x] = col[x] + b[x]
  <2>1. ASSUME NEW x \in S PROVE a[x] \in Int /\ col[x] \in Int /\ a[x] = col[x] + b[x]
    <3>1. d[x][z] \in Int
      BY <1>3
    <3>2. QED
      BY <1>2, <1>5, <3>1
  <2>2. QED
    BY <2>1
<1>7. SumFunctionOnSet(a, R) = a[z] + SumFunctionOnSet(a, t)
  BY <1>1, <1>3, <1>6, SumTake
<1>8. SumFunctionOnSet(a, t) = SumFunctionOnSet(col, t) + SumFunctionOnSet(b, t)
  BY <1>1, <1>3, <1>5, <1>6, SumTwo
<1>9. SumFunctionOnSet(none, t) = SumFunctionOnSet(d[z], t) + SumFunctionOnSet(col, t)
  <2>1. \A x \in t : d[z][x] \in Int /\ col[x] \in Int /\ none[x] = d[z][x] + col[x]
    <3>1. ASSUME NEW x \in t PROVE d[z][x] \in Int /\ col[x] \in Int /\ none[x] = d[z][x] + col[x]
      <4>1. x \in S /\ z \in S
        BY <1>3
      <4>2. d[z][x] \in Int /\ d[z][x] = -d[x][z] /\ d[x][z] \in Int
        BY <4>1
      <4>3. col[x] = d[x][z] /\ none[x] = 0
        BY <1>2, <4>1
      <4>4. QED
        BY <4>2, <4>3
    <3>2. QED
      BY <3>1
  <2>2. QED
    BY <1>1, <2>1, SumTwo
<1>10. SumFunctionOnSet(none, t) = 0
  BY <1>1, <1>2, <1>3, SumNothing
<1>11. a[z] = SumFunctionOnSet(d[z], t)
  <2>1. d[z][z] \in Int /\ d[z][z] = -d[z][z]
    BY <1>3
  <2>2. d[z][z] = 0
    BY <2>1
  <2>3. a[z] = d[z][z] + b[z] /\ b[z] \in Int /\ b[z] = SumFunctionOnSet(d[z], t)
    BY <1>2, <1>3, <1>5
  <2>4. QED
    BY <2>2, <2>3
<1>12. SumFunctionOnSet(col, t) \in Int /\ SumFunctionOnSet(d[z], t) \in Int
  <2>1. SumFunctionOnSet(col, t) \in Int
    BY <1>1, <1>3, <1>6, SumType
  <2>2. \A x \in t : d[z][x] \in Int
    BY <1>3
  <2>3. QED
    BY <1>1, <2>1, <2>2, SumType
<1>13. SumFunctionOnSet(a, R) = 0
  BY <1>4, <1>7, <1>8, <1>9, <1>10, <1>11, <1>12
<1>14. QED
  BY <1>13 DEF Square, a

\* What flows one way comes back the other: over all pairs it adds up to nothing.
LEMMA SquareIs ==
  ASSUME NEW S, IsFiniteSet(S), NEW d,
         \A x, y \in S : d[x][y] \in Int /\ d[x][y] = -d[y][x],
         NEW R \in SUBSET S
  PROVE  Square(d, S, R) = 0
<1> DEFINE T == {n \in Nat : \A s \in SUBSET S : Cardinality(s) = n => Square(d, S, s) = 0}
<1>0. \A s \in SUBSET S : IsFiniteSet(s) /\ Cardinality(s) \in Nat /\ (Cardinality(s) = 0 <=> s = {})
  BY FS_Subset, FS_CardinalityType, FS_EmptySet
<1>1. 0 \in T
  <2>1. Square(d, S, {}) = 0
    BY SumFirst, FS_EmptySet DEF Square
  <2>2. QED
    BY <1>0, <2>1
<1>2. ASSUME NEW n \in Nat, n \in T PROVE n + 1 \in T
  <2> SUFFICES ASSUME NEW s \in SUBSET S, Cardinality(s) = n + 1 PROVE Square(d, S, s) = 0
    OBVIOUS
  <2>1. s # {}
    <3>1. Cardinality(s) # 0
      OBVIOUS
    <3>2. QED
      BY <1>0, <3>1
  <2>2. PICK x \in s : TRUE
    BY <2>1
  <2>3. Cardinality(s \ {x}) = n /\ s \ {x} \in SUBSET S
    <3>1. Cardinality(s \ {x}) = Cardinality(s) - 1
      BY <1>0, OneLess
    <3>2. QED
      BY <3>1
  <2>4. Square(d, S, s \ {x}) = 0
    BY <1>2, <2>3
  <2>5. QED
    BY <2>4, SquareGrows
<1> HIDE DEF T
<1>3. Nat \subseteq T
  BY <1>1, <1>2, Induction
<1>4. Cardinality(R) \in T
  BY <1>0, <1>3
<1>5. QED
  BY <1>4 DEF T

(***************************************************************************)
(* max_flow(): what is known between its steps                             *)
(***************************************************************************)
\* Where max_flow() is at work.
FlowPlaces == {"layer", "scan", "walk", "ref", "move", "sum"}

\* The capacities in the file are below what counts as infinite.
CapacitiesBelow ==
  \A f \in Files : \A x \in 1 .. Len(f.lines) : f.lines[x].cap < INFTY

\* The network, before and after it is read.
FileInv ==
  /\ numnodes \in 2 .. 20
  /\ lines \in Seq([from: Nodes, to: Nodes, metric: Nat, cap: 0 .. INFTY - 1])
  /\ capacity \in [Nodes -> [Nodes -> 0 .. INFTY - 1]]
  /\ kmat \in [Nodes -> [Nodes -> 0 .. INFTY - 1]]

\* What more an arc can take, and what the net flow into a node is.
Res(i, j) == fcap[i][j] - flow[i][j] + flow[j][i]
Net(i) == SumFunctionOnSet([j \in Nodes |-> flow[j][i] - flow[i][j]], Nodes)

\* No arc carries more than it can, nor flow both ways.
Fits == \A i, j \in Nodes : flow[i][j] <= fcap[i][j] /\ (flow[i][j] = 0 \/ flow[j][i] = 0)
\* Nothing enters the source, and its arc to the destination is full.
AtEnds == /\ \A i \in Nodes : flow[i][src] = 0
          /\ flow[src][dest] = fcap[src][dest]
\* What enters a node between the two leaves it.
Conserved == \A i \in Nodes \ {src, dest} : Net(i) = 0

\* The layers 0 .. n: each node but the source has one before it.
Layered(n) ==
  /\ \A i \in Nodes : flayer[i] = UNSCANNED \/ flayer[i] \in -n .. 0
  /\ flayer[src] = 0 /\ \A i \in Nodes : flayer[i] = 0 => i = src
  /\ \A j \in Nodes : flayer[j] # UNSCANNED /\ j # src =>
       \E i \in Nodes : flayer[i] = flayer[j] + 1 /\ Residual(i, j)
\* No layer is empty.
Filled(n) == \A m \in 0 .. n : \E i \in Nodes : flayer[i] = -m
\* From the layers before n every arc with room leads to a labelled node.
Closed(n) ==
  \A i, j \in Nodes : flayer[i] # UNSCANNED /\ -n < flayer[i] /\ flayer[j] = UNSCANNED
                        => ~Residual(i, j)

\* The layers that walk() has kept.
Levels ==
  /\ flayer[src] = 0 /\ \A i \in Nodes : flayer[i] = 0 => i = src
  /\ flayer[dest] > 1
  /\ \A i \in Nodes : i # dest => flayer[i] < flayer[dest]
\* Each node kept has an arc with room to the next layer.
Upward ==
  \A j \in Nodes : flayer[j] > 0 /\ j # dest =>
    \E i \in Nodes : flayer[i] = flayer[j] + 1 /\ Residual(j, i)
Between(i) == i \in Nodes /\ i # dest /\ flayer[i] > 0

\* No arc leads on from the nodes of S.
CutOff(S) ==
  /\ S \subseteq Nodes /\ src \in S /\ dest \notin S
  /\ \A i \in S, j \in Nodes \ S : ~Residual(i, j)

(***************************************************************************)
(* push_pull(): up the layers to push, down to pull                        *)
(***************************************************************************)
\* The layers in the direction of the calls, and the room in that direction.
Level(i) == IF way = 1 THEN flayer[i] ELSE -flayer[i]
Room(i, j) == IF way = 1 THEN Res(i, j) ELSE Res(j, i)
AllRoom(i) == IF way = 1 THEN Outcap(i) ELSE Incap(i)

\* What is still to be moved at i, or will come to its level.
Behind(i) == {n \in Nodes : n = i \/ Level(n) < Level(i)}
Waiting(i, left) == SumFunctionOnSet(left, Behind(i))

\* left[i] is what the call of push_pull() for i has left to move.
Held(left) ==
  /\ left \in [Nodes -> Nat]
  /\ \A x \in 1 .. Len(stack) : left[stack[x].node] = stack[x].flowleft
  /\ \A i \in Nodes : (\A x \in 1 .. Len(stack) : stack[x].node # i) => left[i] = 0
\* The first call is for the reference node, each other one for a layer beyond its caller's.
Calls ==
  /\ stack # <<>> /\ stack[Len(stack)].node = frefnode
  /\ \A x \in 1 .. Len(stack) :
       /\ Between(stack[x].node)
       /\ Level(stack[x].node) = Level(frefnode) + Len(stack) - x
\* A call has gone through its nodes up to j, and the arcs to them have no room left.
Tried ==
  \A x \in 1 .. Len(stack) :
    \/ stack[x].flowleft = 0
    \/ \A j \in Nodes : j <= stack[x].j /\ Level(j) = Level(stack[x].node) + 1 =>
                          Room(stack[x].node, j) = 0
\* What the pull has still to bring to the reference node.
Owed(i) == IF way = 1 /\ i = frefnode THEN fminpot ELSE 0
\* What comes to i, and stays, as the calls of push_pull() see it.
Flux(i) == IF way = 1 THEN Net(i) ELSE -Net(i)
\* No unit is lost: what came to a node and stays is what its call has left.
Balanced(left) == \A i \in Nodes \ {src, dest} : Flux(i) = left[i] - Owed(i)
\* Beyond each node there is room for all that can still come to it.
Roomy(left) == \A i \in Nodes : Between(i) => Waiting(i, left) <= AllRoom(i)
\* While the push runs, the layers behind the reference node have room for the pull.
Pullable ==
  way = 1 => \A i \in Nodes : Between(i) /\ flayer[i] <= flayer[frefnode] => fminpot <= Incap(i)

\* The state of a push or a pull.
Moving(left) == Held(left) /\ Balanced(left) /\ Roomy(left)

\* The inductive invariant of max_flow(), place by place.
FlowInv ==
  /\ place \in FlowPlaces => Fits /\ AtEnds
  /\ place \in FlowPlaces \ {"move"} => Conserved
  /\ place = "scan" => Layered(k) /\ Filled(k) /\ Closed(k) /\ flayer[dest] = UNSCANNED
  /\ place = "walk" => /\ k >= 1 /\ Layered(k)
                       /\ flayer[dest] = UNSCANNED => Closed(k + 1)
                       /\ flayer[dest] # UNSCANNED => flayer[dest] = -k
  /\ place = "ref" => Levels /\ Upward /\ \E i \in Nodes : i # dest /\ flayer[i] = 1
  /\ place = "move" => Levels /\ Calls /\ Tried /\ Pullable /\ \E left : Moving(left)
  /\ place = "sum" => \E S : CutOff(S)

(***************************************************************************)
(* The flow changes on one arc                                             *)
(***************************************************************************)

\* What the steps of max_flow() rely on.
Ground ==
  /\ INFTY \in Nat /\ INFTY > 1
  /\ numnodes \in 2 .. 20
  /\ src \in Nodes /\ dest \in Nodes /\ src # dest
  /\ fcap \in [Nodes -> [Nodes -> 0 .. INFTY - 1]]
  /\ flow \in [Nodes -> [Nodes -> Nat]]
  /\ flayer \in [Nodes -> -20 .. 20]

\* The steps of max_flow() leave the network and the pair alone.
LEMMA SamePair ==
  ASSUME UNCHANGED <<inputVars, mat, todo>>
  PROVE  /\ numnodes' = numnodes /\ Nodes' = Nodes /\ src' = src /\ dest' = dest
         /\ fcap' = fcap /\ Pairs' = Pairs
<1>1. UNCHANGED <<numnodes, capacity, kmat, mat, todo>>
  BY DEF inputVars
<1>2. Nodes' = Nodes /\ src' = src /\ dest' = dest
  BY <1>1 DEF Nodes, src, dest
<1>3. fcap' = fcap
  BY <1>1 DEF fcap
<1>4. Pairs' = Pairs
  BY <1>2 DEF Pairs
<1>5. QED
  BY <1>1, <1>2, <1>3, <1>4

\* new is the flow once r units more go from a to b.
More(new, a, b, r) ==
  /\ new \in [Nodes -> [Nodes -> Nat]]
  /\ \A i, j \in Nodes : (i # a \/ j # b) /\ (i # b \/ j # a) => new[i][j] = flow[i][j]
  /\ new[a][b] - new[b][a] = flow[a][b] - flow[b][a] + r
  /\ new[a][b] <= fcap[a][b] /\ new[b][a] <= flow[b][a]
  /\ new[a][b] = 0 \/ new[b][a] = 0

\* push_pull() adds r to one arc, first by taking back the flow against it (ngraph.c:797-800).
LEMMA AugmentedIs ==
  ASSUME Ground, Fits, NEW a \in Nodes, NEW b \in Nodes, a # b, NEW r \in Nat, r <= Res(a, b)
  PROVE  More(Augmented(a, b, r), a, b, r)
<1> DEFINE back == Lesser(r, flow[b][a])
           half == [flow EXCEPT ![a][b] = @ + r - back]
           new == Augmented(a, b, r)
           up == flow[a][b]
           down == flow[b][a]
           c == fcap[a][b]
<1>1. flow \in [Nodes -> [Nodes -> Nat]] /\ fcap \in [Nodes -> [Nodes -> 0 .. INFTY - 1]] /\ INFTY \in Nat
  BY DEF Ground
<1>2. up \in Nat /\ down \in Nat /\ c \in Nat
  BY <1>1
<1>3. up <= c /\ (up = 0 \/ down = 0) /\ r <= c - up + down
  BY DEF Fits, Res
<1>4. back = IF r < down THEN r ELSE down
  BY DEF Lesser
<1> HIDE DEF back, c
<1>5. up + r - back \in Nat /\ down - back \in Nat /\ up + r - back <= c
  BY <1>2, <1>3, <1>4
<1>6. up + r - back = 0 \/ down - back = 0
  BY <1>2, <1>3, <1>4
<1>7. half \in [Nodes -> [Nodes -> Nat]]
      /\ \A i, j \in Nodes : half[i][j] = IF i = a /\ j = b THEN up + r - back ELSE flow[i][j]
  BY <1>1, <1>5
<1>8. new = [half EXCEPT ![b][a] = @ - back]
  BY DEF Augmented, back
<1> HIDE DEF half, new
<1>9. half[b][a] = down
  BY <1>7
<1> HIDE DEF up, down
<1>10. new = [half EXCEPT ![b] = [half[b] EXCEPT ![a] = half[b][a] - back]]
  BY <1>8
<1>11. new = [half EXCEPT ![b] = [half[b] EXCEPT ![a] = down - back]]
  BY <1>9, <1>10
<1>12. new \in [Nodes -> [Nodes -> Nat]]
       /\ \A i, j \in Nodes : new[i][j] = IF i = b /\ j = a THEN down - back ELSE half[i][j]
  BY <1>5, <1>7, <1>11
<1>13. new[a][b] = up + r - back /\ new[b][a] = down - back
  BY <1>7, <1>12
<1>14. \A i, j \in Nodes : (i # a \/ j # b) /\ (i # b \/ j # a) => new[i][j] = flow[i][j]
  BY <1>7, <1>12
<1>15. back \in Nat
  BY <1>2, <1>4 DEF up, down
<1>16. new[a][b] - new[b][a] = up - down + r
  BY <1>2, <1>13, <1>15 DEF up, down
<1>17. new[a][b] <= fcap[a][b]
  BY <1>5, <1>13 DEF c
<1>18. new[b][a] <= down
  BY <1>2, <1>13, <1>15 DEF up, down
<1>19. new[a][b] = 0 \/ new[b][a] = 0
  BY <1>6, <1>13
<1>20. QED
  BY <1>12, <1>14, <1>16, <1>17, <1>18, <1>19 DEF More, up, down, new

\* The net flow is a number.
LEMMA NetIs ==
  ASSUME Ground, NEW i \in Nodes
  PROVE  Net(i) \in Int
<1> DEFINE f == [j \in Nodes |-> flow[j][i] - flow[i][j]]
<1>1. flow \in [Nodes -> [Nodes -> Nat]] /\ IsFiniteSet(Nodes)
  BY NodesAre DEF Ground
<1>2. \A j \in Nodes : f[j] \in Int
  BY <1>1
<1> HIDE DEF f
<1>3. SumFunctionOnSet(f, Nodes) \in Int
  BY <1>1, <1>2, SumType
<1>4. QED
  BY <1>3 DEF Net, f

\* What changes, and what does not, when r units more go from a to b.
Shifted(a, b, r) ==
  /\ Fits'
  /\ \A i \in Nodes \ {a, b} : Net(i)' = Net(i)
  /\ Net(a)' = Net(a) - r /\ Net(b)' = Net(b) + r
  /\ Res(a, b)' = Res(a, b) - r
  /\ \A i, j \in Nodes : (i # a \/ j # b) /\ (i # b \/ j # a) => Res(i, j)' = Res(i, j)

\* More flow from a to b shifts the net flow from a to b.
LEMMA MoreShifts ==
  ASSUME Ground, Fits, NEW a \in Nodes, NEW b \in Nodes, a # b, NEW r \in Nat,
         More(flow', a, b, r), UNCHANGED <<inputVars, mat, todo>>
  PROVE  Shifted(a, b, r)
<1> DEFINE new == flow'
           F(i) == [j \in Nodes |-> flow[j][i] - flow[i][j]]
           G(i) == [j \in Nodes |-> new[j][i] - new[i][j]]
<1>1. /\ flow \in [Nodes -> [Nodes -> Nat]] /\ IsFiniteSet(Nodes)
      /\ fcap \in [Nodes -> [Nodes -> 0 .. INFTY - 1]] /\ INFTY \in Nat
  BY NodesAre DEF Ground
<1>2. Nodes' = Nodes /\ fcap' = fcap
  BY SamePair
<1>3. /\ new \in [Nodes -> [Nodes -> Nat]]
      /\ \A i, j \in Nodes : (i # a \/ j # b) /\ (i # b \/ j # a) => new[i][j] = flow[i][j]
      /\ new[a][b] - new[b][a] = flow[a][b] - flow[b][a] + r
      /\ new[a][b] <= fcap[a][b] /\ new[b][a] <= flow[b][a]
      /\ new[a][b] = 0 \/ new[b][a] = 0
  BY DEF More
<1>4. \A i \in Nodes : Net(i) = SumFunctionOnSet(F(i), Nodes)
  BY DEF Net
<1>5. \A i \in Nodes : Net(i)' = SumFunctionOnSet(G(i), Nodes)
  BY <1>2 DEF Net
<1>6. \A i, j \in Nodes : /\ F(i)[j] \in Int /\ F(i)[j] = flow[j][i] - flow[i][j]
                          /\ G(i)[j] \in Int /\ G(i)[j] = new[j][i] - new[i][j]
  BY <1>1, <1>3
<1>7. new[a][b] \in Nat /\ new[b][a] \in Nat /\ flow[a][b] \in Nat /\ flow[b][a] \in Nat
  BY <1>1, <1>3
<1>8. Fits'
  <2>1. \A i, j \in Nodes : flow[i][j] <= fcap[i][j] /\ (flow[i][j] = 0 \/ flow[j][i] = 0)
    BY DEF Fits
  <2>2. ASSUME NEW i \in Nodes, NEW j \in Nodes
        PROVE  new[i][j] <= fcap[i][j] /\ (new[i][j] = 0 \/ new[j][i] = 0)
    <3>1. CASE i = a /\ j = b
      BY <1>3, <3>1
    <3>2. CASE i = b /\ j = a
      <4>1. flow[b][a] <= fcap[b][a] /\ fcap[b][a] \in Nat
        BY <1>1, <2>1
      <4>2. QED
        BY <1>3, <1>7, <3>2, <4>1
    <3>3. CASE (i # a \/ j # b) /\ (i # b \/ j # a)
      <4>1. new[i][j] = flow[i][j] /\ new[j][i] = flow[j][i]
        BY <1>3, <3>3
      <4>2. QED
        BY <2>1, <4>1
    <3>4. QED
      BY <3>1, <3>2, <3>3
  <2>3. QED
    BY <1>2, <2>2 DEF Fits
<1> HIDE DEF new, F, G
<1>9. ASSUME NEW i \in Nodes \ {a, b} PROVE Net(i)' = Net(i)
  <2>1. \A j \in Nodes : F(i)[j] = G(i)[j]
    BY <1>3, <1>6
  <2>2. SumFunctionOnSet(F(i), Nodes) = SumFunctionOnSet(G(i), Nodes)
    BY <1>1, <2>1, SumSame
  <2>3. QED
    BY <1>4, <1>5, <2>2
<1>10. Net(a)' = Net(a) - r
  <2>1. \A j \in Nodes : j # b => F(a)[j] = G(a)[j]
    BY <1>3, <1>6
  <2>2. \A j \in Nodes : F(a)[j] \in Int /\ G(a)[j] \in Int
    BY <1>6
  <2>3. SumFunctionOnSet(G(a), Nodes) = SumFunctionOnSet(F(a), Nodes) - F(a)[b] + G(a)[b]
    <3> DEFINE f == F(a)  g == G(a)
    <3>1. /\ \A j \in Nodes : j # b => f[j] = g[j]
          /\ \A j \in Nodes : f[j] \in Int /\ g[j] \in Int
      BY <2>1, <2>2
    <3> HIDE DEF f, g
    <3>2. Altered(f, g, Nodes, b)
      BY <1>1, <3>1, SumChanges
    <3>3. QED
      BY <3>2 DEF Altered, f, g
  <2>4. F(a)[b] = flow[b][a] - flow[a][b] /\ G(a)[b] = new[b][a] - new[a][b]
    BY <1>6
  <2>5. G(a)[b] = F(a)[b] - r
    BY <1>3, <1>7, <2>4
  <2>6. Net(a) \in Int /\ F(a)[b] \in Int
    BY <2>2, NetIs
  <2>7. Net(a)' = Net(a) - F(a)[b] + G(a)[b]
    BY <1>4, <1>5, <2>3
  <2>8. QED
    BY <2>5, <2>6, <2>7
<1>11. Net(b)' = Net(b) + r
  <2>1. \A j \in Nodes : j # a => F(b)[j] = G(b)[j]
    BY <1>3, <1>6
  <2>2. \A j \in Nodes : F(b)[j] \in Int /\ G(b)[j] \in Int
    BY <1>6
  <2>3. SumFunctionOnSet(G(b), Nodes) = SumFunctionOnSet(F(b), Nodes) - F(b)[a] + G(b)[a]
    <3> DEFINE f == F(b)  g == G(b)
    <3>1. /\ \A j \in Nodes : j # a => f[j] = g[j]
          /\ \A j \in Nodes : f[j] \in Int /\ g[j] \in Int
      BY <2>1, <2>2
    <3> HIDE DEF f, g
    <3>2. Altered(f, g, Nodes, a)
      BY <1>1, <3>1, SumChanges
    <3>3. QED
      BY <3>2 DEF Altered, f, g
  <2>4. F(b)[a] = flow[a][b] - flow[b][a] /\ G(b)[a] = new[a][b] - new[b][a]
    BY <1>6
  <2>5. G(b)[a] = F(b)[a] + r
    BY <1>3, <1>7, <2>4
  <2>6. Net(b) \in Int /\ F(b)[a] \in Int
    BY <2>2, NetIs
  <2>7. Net(b)' = Net(b) - F(b)[a] + G(b)[a]
    BY <1>4, <1>5, <2>3
  <2>8. QED
    BY <2>5, <2>6, <2>7
<1>12. \A i, j \in Nodes : Res(i, j)' = fcap[i][j] - new[i][j] + new[j][i]
  BY <1>2 DEF Res, new
<1>13. Res(a, b)' = Res(a, b) - r
  <2>1. fcap[a][b] \in Int
    BY <1>1
  <2>2. Res(a, b)' = fcap[a][b] - new[a][b] + new[b][a]
    BY <1>12
  <2>3. QED
    BY <1>3, <1>7, <2>1, <2>2 DEF Res
<1>14. \A i, j \in Nodes : (i # a \/ j # b) /\ (i # b \/ j # a) => Res(i, j)' = Res(i, j)
  BY <1>3, <1>12 DEF Res
<1>15. QED
  BY <1>8, <1>9, <1>10, <1>11, <1>13, <1>14 DEF Shifted

\* Nothing comes to run into the source, or from the source to the destination.
LEMMA EndsStay ==
  ASSUME Ground, AtEnds, NEW a \in Nodes, NEW b \in Nodes, NEW r \in Nat,
         b # src, a # dest, a # src \/ b # dest,
         More(flow', a, b, r), UNCHANGED <<inputVars, mat, todo>>
  PROVE  AtEnds'
<1>1. Nodes' = Nodes /\ fcap' = fcap /\ src' = src /\ dest' = dest
  BY SamePair
<1>2. /\ flow' \in [Nodes -> [Nodes -> Nat]]
      /\ \A i, j \in Nodes : (i # a \/ j # b) /\ (i # b \/ j # a) => flow'[i][j] = flow[i][j]
      /\ flow'[b][a] <= flow[b][a]
  BY DEF More
<1>3. src \in Nodes /\ dest \in Nodes /\ flow \in [Nodes -> [Nodes -> Nat]]
  BY DEF Ground
<1>4. (\A i \in Nodes : flow[i][src] = 0) /\ flow[src][dest] = fcap[src][dest]
  BY DEF AtEnds
<1>5. ASSUME NEW i \in Nodes PROVE flow'[i][src] = 0
  <2>1. CASE i = b /\ src = a
    <3>1. flow'[b][a] <= 0 /\ flow'[b][a] \in Nat
      BY <1>2, <1>4, <2>1
    <3>2. QED
      BY <2>1, <3>1
  <2>2. CASE i # b \/ src # a
    BY <1>2, <1>3, <1>4, <2>2
  <2>3. QED
    BY <2>1, <2>2
<1>6. flow'[src][dest] = flow[src][dest]
  BY <1>2, <1>3
<1>7. QED
  BY <1>1, <1>4, <1>5, <1>6 DEF AtEnds

\* What changes, and what does not, when r units pass from i to j, pushed or pulled.
Passed(i, j, r) ==
  /\ Fits' /\ AtEnds'
  /\ \A x \in Nodes \ {i, j} : Flux(x)' = Flux(x)
  /\ Flux(i)' = Flux(i) - r /\ Flux(j)' = Flux(j) + r
  /\ Room(i, j)' = Room(i, j) - r
  /\ \A x, y \in Nodes : (x # i \/ y # j) /\ (x # j \/ y # i) => Room(x, y)' = Room(x, y)

\* So does what push_pull() does with one arc, seen from the call.
LEMMA PassedIs ==
  ASSUME Ground, Fits, AtEnds, way \in {0, 1}, UNCHANGED <<inputVars, mat, todo, way>>,
         NEW i \in Nodes, NEW j \in Nodes, NEW r \in Nat,
         i = top.node, i # src, i # dest, i # j, way = 1 => j # src, way = 0 => j # dest,
         r <= Room(i, j), flow' = Augmented(From(j), To(j), r)
  PROVE  Passed(i, j, r) /\ flow' \in [Nodes -> [Nodes -> Nat]]
<1>1. PICK a \in Nodes, b \in Nodes :
        a = From(j) /\ b = To(j) /\ (way = 1 => a = i /\ b = j) /\ (way # 1 => a = j /\ b = i)
  BY DEF From, To
<1>2. a # b
  BY <1>1
<1>3. b # src /\ a # dest /\ (a # src \/ b # dest)
  BY <1>1
<1>4. r <= Res(a, b)
  BY <1>1 DEF Room
<1>5. UNCHANGED <<inputVars, mat, todo>> /\ way' = way
  OBVIOUS
<1>6. More(flow', a, b, r)
  <2>1. flow' = Augmented(a, b, r)
    BY <1>1
  <2>2. More(Augmented(a, b, r), a, b, r)
    BY <1>2, <1>4, AugmentedIs
  <2>3. QED
    BY <2>1, <2>2
<1>7. AtEnds'
  BY <1>2, <1>3, <1>5, <1>6, EndsStay
<1>8. Shifted(a, b, r)
  BY <1>2, <1>5, <1>6, MoreShifts
<1>9. /\ Fits'
      /\ \A x \in Nodes \ {a, b} : Net(x)' = Net(x)
      /\ Net(a)' = Net(a) - r /\ Net(b)' = Net(b) + r
      /\ Res(a, b)' = Res(a, b) - r
      /\ \A x, y \in Nodes : (x # a \/ y # b) /\ (x # b \/ y # a) => Res(x, y)' = Res(x, y)
  BY <1>8 DEF Shifted
<1>10. \A x \in Nodes : Net(x) \in Int
  BY NetIs
<1>11. flow' \in [Nodes -> [Nodes -> Nat]]
  BY <1>6 DEF More
<1>12. \A x \in Nodes : Flux(x) = (IF way = 1 THEN Net(x) ELSE -Net(x))
                        /\ Flux(x)' = (IF way = 1 THEN Net(x)' ELSE -Net(x)')
  BY <1>5 DEF Flux
<1>13. \A x \in Nodes \ {i, j} : Flux(x)' = Flux(x)
  BY <1>1, <1>9, <1>12
<1>14. Flux(i)' = Flux(i) - r /\ Flux(j)' = Flux(j) + r
  <2>1. CASE way = 1
    <3>1. Flux(i) = Net(a) /\ Flux(i)' = Net(a)' /\ Flux(j) = Net(b) /\ Flux(j)' = Net(b)'
      BY <1>1, <1>12, <2>1
    <3>2. QED
      BY <1>9, <3>1
  <2>2. CASE way # 1
    <3>1. Flux(i) = -Net(b) /\ Flux(i)' = -Net(b)' /\ Flux(j) = -Net(a) /\ Flux(j)' = -Net(a)'
      BY <1>1, <1>12, <2>2
    <3>2. Net(a) \in Int /\ Net(b) \in Int /\ Net(a)' = Net(a) - r /\ Net(b)' = Net(b) + r
      BY <1>2, <1>9, <1>10
    <3> DEFINE p == Net(a)  q == Net(b)  p2 == Net(a)'  q2 == Net(b)'
    <3>3. p \in Int /\ q \in Int /\ p2 = p - r /\ q2 = q + r
      BY <3>2
    <3>4. Flux(i) = -q /\ Flux(i)' = -q2 /\ Flux(j) = -p /\ Flux(j)' = -p2
      BY <3>1
    <3> HIDE DEF p, q, p2, q2
    <3>5. -q2 = -q - r /\ -p2 = -p + r
      BY <3>3
    <3>6. QED
      BY <3>4, <3>5
  <2>3. QED
    BY <2>1, <2>2
<1>15. \A x, y \in Nodes : Room(x, y) = (IF way = 1 THEN Res(x, y) ELSE Res(y, x))
                           /\ Room(x, y)' = (IF way = 1 THEN Res(x, y)' ELSE Res(y, x)')
  BY <1>5 DEF Room
<1>16. Room(i, j)' = Room(i, j) - r
  <2>1. Room(i, j) = Res(a, b) /\ Room(i, j)' = Res(a, b)'
    BY <1>1, <1>15
  <2>2. QED
    BY <1>9, <2>1
<1>17. \A x, y \in Nodes : (x # i \/ y # j) /\ (x # j \/ y # i) => Room(x, y)' = Room(x, y)
  BY <1>1, <1>9, <1>15
<1>18. QED
  BY <1>7, <1>9, <1>11, <1>13, <1>14, <1>16, <1>17 DEF Passed

\* The nodes of the next level, and the room there is towards them.
Beyond(i) == {j \in Nodes : Level(j) = Level(i) + 1}
Rooms(i) == [j \in Beyond(i) |-> Room(i, j)]

\* The room on an arc is never negative.
LEMMA RoomIs ==
  ASSUME Ground, Fits, NEW i \in Nodes, NEW j \in Nodes
  PROVE  Room(i, j) \in Nat /\ Res(i, j) \in Nat
<1>1. \A x, y \in Nodes : Res(x, y) \in Nat
  <2>1. ASSUME NEW x \in Nodes, NEW y \in Nodes PROVE Res(x, y) \in Nat
    <3>1. flow[x][y] \in Nat /\ flow[y][x] \in Nat /\ fcap[x][y] \in Nat /\ flow[x][y] <= fcap[x][y]
      BY DEF Ground, Fits
    <3>2. QED
      BY <3>1 DEF Res
  <2>2. QED
    BY <2>1
<1>2. QED
  BY <1>1 DEF Room

\* The room of a node, Incap() or Outcap(), is the sum over the next layer.
LEMMA AllRoomIs ==
  ASSUME Ground, Fits, way \in {0, 1}, NEW i \in Nodes
  PROVE  /\ AllRoom(i) = SumFunctionOnSet(Rooms(i), Beyond(i)) /\ AllRoom(i) \in Nat
         /\ IsFiniteSet(Beyond(i)) /\ Beyond(i) \subseteq Nodes
         /\ \A j \in Beyond(i) : Rooms(i)[j] = Room(i, j) /\ Room(i, j) \in Nat
<1>1. IsFiniteSet(Beyond(i)) /\ Beyond(i) \subseteq Nodes
  <2>1. Beyond(i) \subseteq Nodes
    BY DEF Beyond
  <2>2. QED
    BY <2>1, NodesAre, FS_Subset DEF Ground
<1>2. \A j \in Beyond(i) : Rooms(i)[j] = Room(i, j) /\ Room(i, j) \in Nat
  BY <1>1, RoomIs DEF Rooms
<1>3. AllRoom(i) = SumFunctionOnSet(Rooms(i), Beyond(i))
  <2>1. flayer \in [Nodes -> -20 .. 20]
    BY DEF Ground
  <2>2. CASE way = 1
    <3>1. Beyond(i) = {j \in Nodes : flayer[j] = flayer[i] + 1}
      BY <2>2 DEF Beyond, Level
    <3>2. Rooms(i) = [j \in {j \in Nodes : flayer[j] = flayer[i] + 1} |-> fcap[i][j] - flow[i][j] + flow[j][i]]
      BY <2>2, <3>1 DEF Rooms, Room, Res
    <3>3. QED
      BY <2>2, <3>1, <3>2 DEF AllRoom, Outcap, SumFunction
  <2>3. CASE way = 0
    <3>1. Beyond(i) = {j \in Nodes : flayer[j] = flayer[i] - 1}
      BY <2>1, <2>3 DEF Beyond, Level
    <3>2. Rooms(i) = [j \in {j \in Nodes : flayer[j] = flayer[i] - 1} |-> fcap[j][i] - flow[j][i] + flow[i][j]]
      BY <2>3, <3>1 DEF Rooms, Room, Res
    <3>3. QED
      BY <2>3, <3>1, <3>2 DEF AllRoom, Incap, SumFunction
  <2>4. QED
    BY <2>2, <2>3
<1>4. SumFunctionOnSet(Rooms(i), Beyond(i)) \in Nat
  BY <1>1, <1>2, SumType
<1>5. QED
  BY <1>1, <1>2, <1>3, <1>4

(***************************************************************************)
(* Levels, and what waits for its turn                                     *)
(***************************************************************************)

\* Levels are numbers.
LEMMA LevelIs ==
  ASSUME Ground, NEW i \in Nodes
  PROVE  Level(i) \in Int /\ flayer[i] \in Int
<1>1. flayer \in [Nodes -> -20 .. 20]
  BY DEF Ground
<1>2. flayer[i] \in -20 .. 20
  BY <1>1
<1>3. flayer[i] \in Int /\ -flayer[i] \in Int
  BY <1>2
<1>4. QED
  BY <1>3 DEF Level

\* What waits at a node and behind it is at least what its own call has left.
LEMMA WaitingIs ==
  ASSUME Ground, NEW i \in Nodes, NEW left \in [Nodes -> Nat]
  PROVE  /\ IsFiniteSet(Behind(i)) /\ Behind(i) \subseteq Nodes /\ i \in Behind(i)
         /\ Waiting(i, left) \in Nat
         /\ left[i] <= Waiting(i, left)
<1>1. Behind(i) \subseteq Nodes /\ i \in Behind(i)
  BY DEF Behind
<1>2. IsFiniteSet(Behind(i))
  BY <1>1, NodesAre, FS_Subset DEF Ground
<1>3. \A n \in Behind(i) : left[n] \in Nat
  BY <1>1
<1>4. SumFunctionOnSet(left, Behind(i)) \in Nat
  BY <1>2, <1>3, SumType
<1>5. left[i] <= SumFunctionOnSet(left, Behind(i))
  BY <1>1, <1>2, <1>3, SumHas
<1>6. QED
  BY <1>1, <1>2, <1>4, <1>5 DEF Waiting

\* What is left to move once r units have passed from i to j.
Passing(left, i, j, r) ==
  [n \in Nodes |-> IF n = i THEN left[n] - r
                   ELSE IF n = j /\ j \notin {src, dest} THEN r ELSE left[n]]

\* Units that pass to the next layer still wait, for the nodes of that layer and beyond.
LEMMA WaitingPasses ==
  ASSUME Ground, NEW left \in [Nodes -> Nat], NEW i \in Nodes, NEW j \in Nodes,
         Level(j) = Level(i) + 1, NEW r \in Nat, r <= left[i], j \notin {src, dest} => left[j] = 0,
         NEW x \in Nodes
  PROVE  /\ Passing(left, i, j, r) \in [Nodes -> Nat]
         /\ Waiting(x, Passing(left, i, j, r)) <= Waiting(x, left)
         /\ Waiting(i, Passing(left, i, j, r)) + r = Waiting(i, left)
<1> DEFINE new == Passing(left, i, j, r)
           mid == [n \in Nodes |-> IF n = i THEN left[n] - r ELSE left[n]]
<1>1. \A n \in Nodes : Level(n) \in Int
  BY LevelIs
<1>2. i # j
  BY <1>1
<1>3. \A n \in Nodes : left[n] \in Nat /\ left[n] \in Int
  OBVIOUS
<1>4. left[i] - r \in Nat
  BY <1>3
<1>5. /\ mid \in [Nodes -> Nat] /\ \A n \in Nodes : mid[n] \in Int
      /\ \A n \in Nodes : mid[n] = IF n = i THEN left[n] - r ELSE left[n]
  BY <1>3, <1>4
<1>6. /\ new \in [Nodes -> Nat] /\ \A n \in Nodes : new[n] \in Int
      /\ \A n \in Nodes : n # j => mid[n] = new[n]
  BY <1>3, <1>4 DEF Passing
<1>7. new[j] - mid[j] <= r /\ 0 <= new[j] - mid[j]
  <2>1. CASE j \in {src, dest}
    <3>1. new[j] = left[j] /\ mid[j] = left[j]
      BY <1>2, <2>1 DEF Passing
    <3>2. QED
      BY <1>3, <3>1
  <2>2. CASE j \notin {src, dest}
    <3>1. new[j] = r /\ mid[j] = 0
      BY <1>2, <2>2 DEF Passing
    <3>2. QED
      BY <3>1
  <2>3. QED
    BY <2>1, <2>2
<1> HIDE DEF new, mid
<1>8. ASSUME NEW y \in Nodes
      PROVE  /\ Waiting(y, left) \in Nat /\ Waiting(y, mid) \in Nat /\ Waiting(y, new) \in Nat
             /\ Behind(y) \subseteq Nodes /\ IsFiniteSet(Behind(y))
  BY <1>5, <1>6, WaitingIs
<1>9. ASSUME NEW y \in Nodes, i \in Behind(y)
      PROVE  Waiting(y, mid) = Waiting(y, left) - r
  <2>1. /\ IsFiniteSet(Behind(y)) /\ Behind(y) \subseteq Nodes
        /\ \A n \in Behind(y) : left[n] \in Int /\ mid[n] \in Int
        /\ \A n \in Behind(y) : n # i => left[n] = mid[n]
    BY <1>3, <1>5, <1>8
  <2>2. Altered(left, mid, Behind(y), i)
    BY <1>9, <2>1, SumChanges
  <2>3. Waiting(y, mid) = Waiting(y, left) - left[i] + mid[i]
    BY <2>2 DEF Altered, Waiting
  <2>4. mid[i] = left[i] - r /\ left[i] \in Int
    BY <1>3, <1>5
  <2>5. QED
    BY <1>8, <2>3, <2>4
<1>10. ASSUME NEW y \in Nodes, i \notin Behind(y)
       PROVE  Waiting(y, mid) = Waiting(y, left)
  <2>1. /\ IsFiniteSet(Behind(y)) /\ Behind(y) \subseteq Nodes
    BY <1>8
  <2>2. \A n \in Behind(y) : mid[n] = left[n]
    BY <1>5, <1>10, <2>1
  <2>3. SumFunctionOnSet(mid, Behind(y)) = SumFunctionOnSet(left, Behind(y))
    BY <2>1, <2>2, SumSame
  <2>4. QED
    BY <2>3 DEF Waiting
<1>11. ASSUME NEW y \in Nodes, j \in Behind(y)
       PROVE  Waiting(y, new) <= Waiting(y, mid) + r
  <2>1. /\ IsFiniteSet(Behind(y)) /\ Behind(y) \subseteq Nodes
        /\ \A n \in Behind(y) : mid[n] \in Int /\ new[n] \in Int
        /\ \A n \in Behind(y) : n # j => mid[n] = new[n]
    BY <1>5, <1>6, <1>8
  <2>2. Altered(mid, new, Behind(y), j)
    BY <1>11, <2>1, SumChanges
  <2>3. Waiting(y, new) = Waiting(y, mid) - mid[j] + new[j]
    BY <2>2 DEF Altered, Waiting
  <2>4. mid[j] \in Int /\ new[j] \in Int
    BY <1>5, <1>6
  <2>5. QED
    BY <1>7, <1>8, <2>3, <2>4
<1>12. ASSUME NEW y \in Nodes, j \notin Behind(y)
       PROVE  Waiting(y, new) = Waiting(y, mid)
  <2>1. /\ IsFiniteSet(Behind(y)) /\ Behind(y) \subseteq Nodes
    BY <1>8
  <2>2. \A n \in Behind(y) : new[n] = mid[n]
    BY <1>6, <1>12, <2>1
  <2>3. SumFunctionOnSet(new, Behind(y)) = SumFunctionOnSet(mid, Behind(y))
    BY <2>1, <2>2, SumSame
  <2>4. QED
    BY <2>3 DEF Waiting
<1>13. ASSUME NEW y \in Nodes, j \in Behind(y) PROVE i \in Behind(y)
  <2>1. Level(j) <= Level(y)
    BY <1>1, <1>13 DEF Behind
  <2>2. Level(i) < Level(y)
    BY <1>1, <2>1
  <2>3. QED
    BY <2>2 DEF Behind
<1>14. Waiting(x, new) <= Waiting(x, left)
  <2>1. CASE j \in Behind(x)
    <3>1. Waiting(x, mid) = Waiting(x, left) - r /\ Waiting(x, new) <= Waiting(x, mid) + r
      BY <1>9, <1>11, <1>13, <2>1
    <3>2. QED
      BY <1>8, <3>1
  <2>2. CASE j \notin Behind(x)
    <3>1. Waiting(x, new) = Waiting(x, mid)
          /\ (Waiting(x, mid) = Waiting(x, left) \/ Waiting(x, mid) = Waiting(x, left) - r)
      BY <1>9, <1>10, <1>12, <2>2
    <3>2. QED
      BY <1>8, <3>1
  <2>3. QED
    BY <2>1, <2>2
<1>15. Waiting(i, new) + r = Waiting(i, left)
  <2>1. i \in Behind(i) /\ j \notin Behind(i)
    <3>1. ~(Level(j) < Level(i))
      BY <1>1
    <3>2. QED
      BY <1>2, <3>1 DEF Behind
  <2>2. Waiting(i, mid) = Waiting(i, left) - r /\ Waiting(i, new) = Waiting(i, mid)
    BY <1>9, <1>12, <2>1
  <2>3. QED
    BY <1>8, <2>2
<1>16. QED
  BY <1>6, <1>14, <1>15 DEF new

Call == [node: Nodes, flowleft: Nat, j: Nodes \cup {-1}]

\* The innermost call has the types of a call.
LEMMA TopIs ==
  ASSUME stack \in Seq(Call), stack # <<>>
  PROVE  /\ top \in Call /\ top = stack[1] /\ Len(stack) \in Nat /\ Len(stack) >= 1
         /\ top.node \in Nodes /\ top.flowleft \in Nat /\ top.j \in Nodes \cup {-1}
         /\ Tail(stack) \in Seq(Call) /\ Len(Tail(stack)) = Len(stack) - 1
         /\ \A x \in 1 .. Len(stack) - 1 : Tail(stack)[x] = stack[x + 1]
<1>1. top \in Call /\ Tail(stack) \in Seq(Call) /\ Len(Tail(stack)) = Len(stack) - 1
      /\ \A x \in 1 .. Len(Tail(stack)) : Tail(stack)[x] = stack[x + 1]
  BY HeadTailProperties DEF top
<1>2. Len(stack) \in Nat /\ Len(stack) # 0 /\ top = stack[1]
  BY EmptySeq, LenProperties DEF top
<1>3. top.node \in Nodes /\ top.flowleft \in Nat /\ top.j \in Nodes \cup {-1}
  BY <1>1 DEF Call
<1>4. QED
  BY <1>1, <1>2, <1>3

\* An arc that push_pull() tries is one of the next level, and r what can go over it.
LEMMA MovableIs ==
  ASSUME Ground, Fits, way \in {0, 1}, stack \in Seq(Call), stack # <<>>, NEW j \in Nodes
  PROVE  /\ Movable(j) = Lesser(top.flowleft, Room(top.node, j)) /\ Room(top.node, j) \in Nat
         /\ flayer[j] = Sought <=> Level(j) = Level(top.node) + 1
<1>1. top.node \in Nodes
  BY TopIs
<1>2. Room(top.node, j) \in Nat
  BY <1>1, RoomIs
<1>3. Movable(j) = Lesser(top.flowleft, Room(top.node, j))
  BY DEF Movable, Room, From, To, Res
<1>4. flayer[j] \in Int /\ flayer[top.node] \in Int
  BY <1>1, LevelIs
<1>5. flayer[j] = Sought <=> Level(j) = Level(top.node) + 1
  <2>1. CASE way = 1
    BY <1>4, <2>1 DEF Sought, Level
  <2>2. CASE way = 0
    BY <1>4, <2>2 DEF Sought, Level
  <2>3. QED
    BY <2>1, <2>2
<1>6. QED
  BY <1>2, <1>3, <1>5

\* What Move does: r units pass from i to j.
Moves(i, j, r) ==
  /\ i = top.node /\ Level(j) = Level(i) + 1
  /\ r <= top.flowleft /\ r <= Room(i, j) /\ (r = top.flowleft \/ r = Room(i, j))
  /\ \A x \in Nodes : x > top.j /\ x < j /\ Level(x) = Level(j) => Room(i, x) = 0
  /\ flow' = Augmented(From(j), To(j), r)
  /\ stack' = LET rest == <<[top EXCEPT !.flowleft = @ - r, !.j = j]>> \o Tail(stack)
              IN  IF j \in {src, dest} THEN rest
                  ELSE <<[node |-> j, flowleft |-> r, j |-> -1]>> \o rest

\* Move is such a move.
LEMMA MoveIs ==
  ASSUME Ground, Fits, way \in {0, 1}, stack \in Seq(Call), stack # <<>>, Move
  PROVE  \E i, j \in Nodes : \E r \in Nat : Moves(i, j, r)
<1> DEFINE left == top.flowleft
<1>1. Usable # {}
  BY DEF Move
<1>2. top.node \in Nodes /\ left \in Nat /\ top.j \in Int
  BY TopIs DEF Nodes
<1>3. left > 0 /\ Usable = {j \in Nodes : j > top.j /\ Movable(j) > 0 /\ flayer[j] = Sought}
  BY <1>1 DEF Usable
<1>4. Usable \subseteq Nodes /\ Nodes \subseteq Nat
  <2>1. Nodes \subseteq Nat
    BY DEF Nodes
  <2>2. QED
    BY <1>3, <2>1
<1>5. Min(Usable) \in Usable /\ \A x \in Usable : Min(Usable) <= x
  BY <1>1, <1>4, MinIs
<1>6. PICK j \in Nodes : j = Min(Usable) /\ j \in Usable /\ \A x \in Usable : j <= x
  BY <1>4, <1>5
<1>7. PICK i \in Nodes : i = top.node
  BY <1>2
<1>8. Movable(j) = Lesser(left, Room(i, j)) /\ Room(i, j) \in Nat /\ Level(j) = Level(i) + 1
  <2>1. flayer[j] = Sought
    BY <1>3, <1>6
  <2>2. QED
    BY <1>7, <2>1, MovableIs
<1>9. PICK r \in Nat : r = Movable(j)
  BY <1>2, <1>8 DEF Lesser
<1>10. r <= left /\ r <= Room(i, j) /\ (r = left \/ r = Room(i, j))
  BY <1>2, <1>8, <1>9 DEF Lesser
<1>11. ASSUME NEW x \in Nodes, x > top.j, x < j, Level(x) = Level(j) PROVE Room(i, x) = 0
  <2>1. x \notin Usable
    <3>1. x \in Nat /\ j \in Nat
      BY <1>4
    <3>2. ~(j <= x)
      BY <1>11, <3>1
    <3>3. QED
      BY <1>6, <3>2
  <2>2. flayer[x] = Sought
    BY <1>7, <1>8, <1>11, MovableIs
  <2>3. ~(Movable(x) > 0)
    BY <1>3, <1>11, <2>1, <2>2
  <2>4. Movable(x) = Lesser(left, Room(i, x)) /\ Room(i, x) \in Nat
    BY <1>7, MovableIs
  <2>5. QED
    BY <1>2, <1>3, <2>3, <2>4 DEF Lesser
<1>12. /\ flow' = Augmented(From(j), To(j), r)
       /\ stack' = LET rest == <<[top EXCEPT !.flowleft = @ - r, !.j = j]>> \o Tail(stack)
                   IN  IF j \in {src, dest} THEN rest
                       ELSE <<[node |-> j, flowleft |-> r, j |-> -1]>> \o rest
  BY <1>6, <1>9 DEF Move
<1>13. Moves(i, j, r)
  BY <1>7, <1>8, <1>10, <1>11, <1>12 DEF Moves
<1>14. QED
  BY <1>13

\* With flow left and no arc to use, there is no room on any arc that was not tried.
LEMMA NoneUsable ==
  ASSUME Ground, Fits, way \in {0, 1}, stack \in Seq(Call), stack # <<>>,
         Usable = {}, top.flowleft > 0,
         NEW j \in Nodes, j > top.j, Level(j) = Level(top.node) + 1
  PROVE  Room(top.node, j) = 0
<1>1. Usable = {x \in Nodes : x > top.j /\ Movable(x) > 0 /\ flayer[x] = Sought}
  BY DEF Usable
<1>2. flayer[j] = Sought /\ Movable(j) = Lesser(top.flowleft, Room(top.node, j))
      /\ Room(top.node, j) \in Nat
  BY MovableIs
<1>3. ~(Movable(j) > 0)
  BY <1>1, <1>2
<1>4. top.flowleft \in Nat
  BY TopIs
<1>5. QED
  BY <1>2, <1>3, <1>4 DEF Lesser

\* The stack once r units have passed from i to j: d calls more.
Restacked(i, j, r, d) ==
  /\ stack' \in Seq(Call) /\ Len(stack') = Len(stack) + d
  /\ stack'[1 + d].node = i /\ stack'[1 + d].flowleft = top.flowleft - r /\ stack'[1 + d].j = j
  /\ \A x \in 2 .. Len(stack) : stack'[x + d] = stack[x]
  /\ d = 0 => j \in {src, dest}
  /\ d = 1 => /\ j \notin {src, dest}
              /\ stack'[1].node = j /\ stack'[1].flowleft = r /\ stack'[1].j = -1

\* After it the calls are these.
LEMMA RestackedIs ==
  ASSUME stack \in Seq(Call), stack # <<>>, NEW i \in Nodes, NEW j \in Nodes, NEW r \in Nat,
         Moves(i, j, r)
  PROVE  \E d \in {0, 1} : Restacked(i, j, r, d)
<1> DEFINE c == [top EXCEPT !.flowleft = @ - r, !.j = j]
           t == Tail(stack)
           rest == <<c>> \o t
           new == [node |-> j, flowleft |-> r, j |-> -1]
           n == Len(stack)
<1>1. /\ top \in Call /\ top.node = i /\ top.flowleft \in Nat
      /\ t \in Seq(Call) /\ Len(t) = n - 1 /\ n \in Nat /\ n >= 1
      /\ \A x \in 1 .. n - 1 : t[x] = stack[x + 1]
  BY TopIs DEF Moves
<1>2. top.flowleft - r \in Nat
  BY <1>1 DEF Moves
<1>3. c \in Call /\ c.node = i /\ c.flowleft = top.flowleft - r /\ c.j = j
  BY <1>1, <1>2 DEF Call
<1>4. new \in Call /\ new.node = j /\ new.flowleft = r /\ new.j = -1
  BY DEF Call
<1>5. stack' = IF j \in {src, dest} THEN rest ELSE <<new>> \o rest
  BY DEF Moves
<1> HIDE DEF c, t, new, n
<1>6. rest \in Seq(Call) /\ Len(rest) = n /\ rest[1] = c
      /\ \A x \in 2 .. n : rest[x] = stack[x]
  <2>1. <<c>> \in Seq(Call) /\ Len(<<c>>) = 1 /\ <<c>>[1] = c
    BY <1>3
  <2>2. rest \in Seq(Call) /\ Len(rest) = 1 + (n - 1)
        /\ \A x \in 1 .. 1 + (n - 1) : rest[x] = IF x <= 1 THEN <<c>>[x] ELSE t[x - 1]
    BY <1>1, <2>1, ConcatProperties
  <2>3. rest[1] = c
    BY <1>1, <2>1, <2>2
  <2>4. ASSUME NEW x \in 2 .. n PROVE rest[x] = stack[x]
    <3>1. x \in 1 .. 1 + (n - 1) /\ ~(x <= 1) /\ x - 1 \in 1 .. n - 1 /\ (x - 1) + 1 = x
      BY <1>1
    <3>2. rest[x] = t[x - 1]
      BY <2>2, <3>1
    <3>3. t[x - 1] = stack[(x - 1) + 1]
      BY <1>1, <3>1
    <3>4. QED
      BY <3>1, <3>2, <3>3
  <2>5. QED
    BY <1>1, <2>2, <2>3, <2>4
<1> HIDE DEF rest
<1>7. CASE j \in {src, dest}
  <2>1. stack' = rest
    BY <1>5, <1>7
  <2>2. stack' \in Seq(Call) /\ Len(stack') = n + 0 /\ stack'[1 + 0] = c
        /\ \A x \in 2 .. n : stack'[x + 0] = stack[x]
    BY <1>1, <1>6, <2>1
  <2>3. Restacked(i, j, r, 0)
    BY <1>3, <1>7, <2>2 DEF Restacked, n
  <2>4. QED
    BY <2>3
<1>8. CASE j \notin {src, dest}
  <2>1. stack' = <<new>> \o rest
    BY <1>5, <1>8
  <2>2. <<new>> \in Seq(Call) /\ Len(<<new>>) = 1 /\ <<new>>[1] = new
    BY <1>4
  <2>3. stack' \in Seq(Call) /\ Len(stack') = 1 + n
        /\ \A x \in 1 .. 1 + n : stack'[x] = IF x <= 1 THEN <<new>>[x] ELSE rest[x - 1]
    BY <1>1, <1>6, <2>1, <2>2, ConcatProperties
  <2>4. stack'[1] = new
    BY <1>1, <2>2, <2>3
  <2>5. ASSUME NEW x \in 1 .. n PROVE stack'[x + 1] = rest[x]
    <3>1. x + 1 \in 1 .. 1 + n /\ ~(x + 1 <= 1) /\ (x + 1) - 1 = x
      BY <1>1
    <3>2. stack'[x + 1] = rest[(x + 1) - 1]
      BY <2>3, <3>1
    <3>3. QED
      BY <3>1, <3>2
  <2>6. stack'[1 + 1] = c
    BY <1>1, <1>6, <2>5
  <2>7. \A x \in 2 .. n : stack'[x + 1] = stack[x]
    BY <1>1, <1>6, <2>5
  <2>8. Restacked(i, j, r, 1)
    <3>1. Len(stack') = Len(stack) + 1
      BY <1>1, <2>3 DEF n
    <3>2. \A x \in 2 .. Len(stack) : stack'[x + 1] = stack[x]
      BY <2>7 DEF n
    <3>3. QED
      BY <1>3, <1>4, <1>8, <2>3, <2>4, <2>6, <3>1, <3>2 DEF Restacked
  <2>9. QED
    BY <2>8
<1>9. QED
  BY <1>7, <1>8

\* A call of the new stack is the new one, the one that moved, or one below.
LEMMA CallsOf ==
  ASSUME stack \in Seq(Call), stack # <<>>, NEW i \in Nodes, NEW j \in Nodes, NEW r \in Nat,
         NEW d \in {0, 1}, Restacked(i, j, r, d), NEW x \in 1 .. Len(stack')
  PROVE  \/ x = 1 + d
         \/ x = 1 /\ d = 1
         \/ x - d \in 2 .. Len(stack) /\ stack'[x] = stack[x - d]
<1>1. Len(stack') = Len(stack) + d /\ \A y \in 2 .. Len(stack) : stack'[y + d] = stack[y]
  BY DEF Restacked
<1>2. Len(stack) \in Nat
  BY LenProperties
<1>3. CASE x > 1 + d
  <2>1. x - d \in 2 .. Len(stack) /\ (x - d) + d = x
    BY <1>1, <1>2, <1>3
  <2>2. stack'[(x - d) + d] = stack[x - d]
    BY <1>1, <2>1
  <2>3. QED
    BY <2>1, <2>2
<1>4. CASE ~(x > 1 + d)
  BY <1>1, <1>2, <1>4
<1>5. QED
  BY <1>3, <1>4

(***************************************************************************)
(* The calls of push_pull(), and what they keep                            *)
(***************************************************************************)

\* The calls of push_pull() in the layers of one network.
Pushing ==
  /\ Ground /\ Fits /\ AtEnds /\ way \in {0, 1} /\ stack \in Seq(Call)
  /\ fminpot \in Nat /\ frefnode \in Nodes
  /\ Levels /\ Calls /\ Tried /\ Pullable

Unmoved == UNCHANGED <<inputVars, mat, todo, flayer, fminpot, frefnode, way>>

\* Steps that leave the layers alone leave the levels alone.
LEMMA SameLevels ==
  ASSUME Unmoved
  PROVE  /\ Nodes' = Nodes /\ src' = src /\ dest' = dest /\ fcap' = fcap /\ numnodes' = numnodes
         /\ flayer' = flayer /\ fminpot' = fminpot /\ frefnode' = frefnode /\ way' = way
         /\ \A x : Level(x)' = Level(x) /\ Behind(x)' = Behind(x) /\ Beyond(x)' = Beyond(x)
         /\ \A x : Between(x)' <=> Between(x)
         /\ \A x : Owed(x)' = Owed(x)
<1>1. UNCHANGED <<inputVars, mat, todo>> /\ UNCHANGED <<flayer, fminpot, frefnode, way>>
  BY DEF Unmoved
<1>2. Nodes' = Nodes /\ src' = src /\ dest' = dest /\ fcap' = fcap /\ numnodes' = numnodes
  BY <1>1, SamePair
<1>3. \A x : Level(x)' = Level(x)
  BY <1>1 DEF Level
<1>4. ASSUME NEW x PROVE Behind(x)' = Behind(x) /\ Beyond(x)' = Beyond(x)
  BY <1>2, <1>3 DEF Behind, Beyond
<1>5. \A x : Between(x)' <=> Between(x)
  BY <1>1, <1>2 DEF Between
<1>6. \A x : Owed(x)' = Owed(x)
  BY <1>1 DEF Owed
<1>7. QED
  BY <1>1, <1>2, <1>3, <1>4, <1>5, <1>6

\* Where the calls are: one level apart, the reference node at the bottom.
LEMMA CallsAre ==
  ASSUME Pushing
  PROVE  /\ stack # <<>> /\ Len(stack) \in Nat /\ Len(stack) >= 1
         /\ \A x \in 1 .. Len(stack) :
              /\ stack[x] \in Call /\ stack[x].node \in Nodes /\ stack[x].flowleft \in Nat
              /\ Between(stack[x].node)
              /\ Level(stack[x].node) = Level(frefnode) + Len(stack) - x
         /\ Between(top.node) /\ top.node \in Nodes /\ top = stack[1]
         /\ Level(top.node) = Level(frefnode) + Len(stack) - 1
         /\ Level(frefnode) <= Level(top.node)
         /\ \A x \in 2 .. Len(stack) : /\ Level(stack[x].node) < Level(top.node)
                                       /\ Level(frefnode) <= Level(stack[x].node)
<1>1. /\ stack \in Seq(Call) /\ stack # <<>> /\ frefnode \in Nodes
      /\ \A x \in 1 .. Len(stack) :
              /\ Between(stack[x].node)
              /\ Level(stack[x].node) = Level(frefnode) + Len(stack) - x
  BY DEF Pushing, Calls
<1>2. Len(stack) \in Nat /\ Len(stack) >= 1 /\ top = stack[1]
  BY <1>1, TopIs
<1>3. \A x \in 1 .. Len(stack) : stack[x] \in Call /\ stack[x].node \in Nodes /\ stack[x].flowleft \in Nat
  <2>1. \A x \in 1 .. Len(stack) : stack[x] \in Call
    BY <1>1, ElementOfSeq
  <2>2. QED
    BY <2>1 DEF Call
<1>4. Level(frefnode) \in Int
  BY <1>1, LevelIs DEF Pushing
<1>5. 1 \in 1 .. Len(stack)
  BY <1>2
<1>6. Between(top.node) /\ Level(top.node) = Level(frefnode) + Len(stack) - 1 /\ top.node \in Nodes
  BY <1>1, <1>2, <1>3, <1>5
<1>7. Level(frefnode) <= Level(top.node)
  BY <1>2, <1>4, <1>6
<1>8. ASSUME NEW x \in 2 .. Len(stack)
      PROVE  Level(stack[x].node) < Level(top.node) /\ Level(frefnode) <= Level(stack[x].node)
  <2>1. Level(stack[x].node) = Level(frefnode) + Len(stack) - x
    BY <1>1, <1>2
  <2>2. QED
    BY <1>2, <1>4, <1>6, <2>1
<1>9. QED
  BY <1>1, <1>2, <1>3, <1>6, <1>7, <1>8

\* Where the units pass.
LEMMA PlacesOf ==
  ASSUME Pushing, NEW i \in Nodes, NEW j \in Nodes, NEW r \in Nat, Moves(i, j, r)
  PROVE  /\ Between(i) /\ i # src /\ i # dest /\ i # j /\ Level(j) = Level(i) + 1
         /\ way = 1 => j # src
         /\ way = 0 => j # dest
         /\ j \notin {src, dest} => Between(j)
         /\ Level(i) \in Int /\ Level(frefnode) \in Int /\ Level(frefnode) <= Level(i)
<1>1. i = top.node /\ Level(j) = Level(i) + 1
  BY DEF Moves
<1>2. Between(i) /\ Level(frefnode) <= Level(i)
  BY <1>1, CallsAre
<1>3. /\ flayer[i] > 0 /\ i # dest /\ flayer[src] = 0
      /\ flayer[i] < flayer[dest] /\ \A x \in Nodes : flayer[x] = 0 => x = src
  BY <1>2 DEF Between, Pushing, Levels
<1>4. \A x \in Nodes : flayer[x] \in Int /\ Level(x) \in Int
  BY LevelIs DEF Pushing
<1>5. dest \in Nodes /\ frefnode \in Nodes /\ way \in {0, 1}
  BY DEF Pushing, Ground
<1>6. (way = 1 => flayer[j] = flayer[i] + 1) /\ (way = 0 => flayer[j] = flayer[i] - 1)
  <2>1. (way = 1 => Level(j) = flayer[j] /\ Level(i) = flayer[i])
        /\ (way = 0 => Level(j) = -flayer[j] /\ Level(i) = -flayer[i])
    BY DEF Level
  <2>2. CASE way = 1
    BY <1>1, <2>1, <2>2
  <2>3. CASE way = 0
    BY <1>1, <1>4, <2>1, <2>3
  <2>4. QED
    BY <1>5, <2>2, <2>3
<1>7. i # src /\ i # j
  BY <1>1, <1>3, <1>4
<1>8. way = 1 => j # src
  BY <1>3, <1>4, <1>6
<1>9. way = 0 => j # dest
  BY <1>3, <1>4, <1>5, <1>6
<1>10. ASSUME j \notin {src, dest} PROVE Between(j)
  <2>1. flayer[j] # 0
    BY <1>3, <1>10
  <2>2. flayer[j] > 0
    BY <1>3, <1>4, <1>5, <1>6, <2>1
  <2>3. QED
    BY <1>10, <2>2 DEF Between
<1>11. QED
  BY <1>1, <1>2, <1>3, <1>4, <1>5, <1>7, <1>8, <1>9, <1>10

\* Each call stays one layer beyond its caller.
LEMMA CallsKeep ==
  ASSUME Pushing, Unmoved, NEW i \in Nodes, NEW j \in Nodes, NEW r \in Nat, NEW d \in {0, 1},
         Moves(i, j, r), Restacked(i, j, r, d)
  PROVE  Calls'
<1> DEFINE n == Len(stack)
           at(x) == Level(frefnode) + n + d - x
<1>1. /\ n \in Nat /\ n >= 1
      /\ \A x \in 1 .. n : stack[x].node \in Nodes /\ Between(stack[x].node)
                           /\ Level(stack[x].node) = Level(frefnode) + n - x
      /\ Level(top.node) = Level(frefnode) + n - 1 /\ stack[n].node = frefnode /\ top = stack[1]
  BY CallsAre DEF Pushing, Calls
<1>2. /\ Between(i) /\ Level(j) = Level(i) + 1 /\ (j \notin {src, dest} => Between(j))
      /\ i = top.node /\ Level(frefnode) \in Int
  BY PlacesOf DEF Moves
<1>3. /\ stack' \in Seq(Call) /\ Len(stack') = n + d
      /\ stack'[1 + d].node = i
      /\ \A x \in 2 .. n : stack'[x + d] = stack[x]
      /\ d = 1 => j \notin {src, dest} /\ stack'[1].node = j
  BY DEF Restacked
<1>4. \A x \in 1 .. Len(stack') :
        \/ x = 1 + d
        \/ x = 1 /\ d = 1
        \/ x - d \in 2 .. n /\ stack'[x] = stack[x - d]
  BY CallsOf DEF Pushing, Calls
<1> HIDE DEF n
<1>5. ASSUME NEW x \in 1 .. Len(stack')
      PROVE  Between(stack'[x].node) /\ Level(stack'[x].node) = at(x)
  <2>1. CASE x = 1 + d
    <3>1. Level(i) = Level(frefnode) + n - 1 /\ stack'[x].node = i
      BY <1>1, <1>2, <1>3, <2>1
    <3>2. Level(frefnode) + n - 1 = at(x)
      BY <1>1, <1>2, <2>1
    <3>3. QED
      BY <1>2, <3>1, <3>2
  <2>2. CASE x = 1 /\ d = 1
    <3>1. Level(i) = Level(frefnode) + n - 1 /\ stack'[x].node = j /\ Between(j)
      BY <1>1, <1>2, <1>3, <2>2
    <3>2. Level(j) = Level(frefnode) + n - 1 + 1
      BY <1>2, <3>1
    <3>3. Level(frefnode) + n - 1 + 1 = at(x)
      BY <1>1, <1>2, <2>2
    <3>4. QED
      BY <3>1, <3>2, <3>3
  <2>3. CASE x - d \in 2 .. n /\ stack'[x] = stack[x - d]
    <3>1. Between(stack[x - d].node) /\ Level(stack[x - d].node) = Level(frefnode) + n - (x - d)
      BY <1>1, <2>3
    <3>2. Level(frefnode) + n - (x - d) = at(x)
      BY <1>1, <1>2
    <3>3. QED
      BY <2>3, <3>1, <3>2
  <2>4. QED
    BY <1>4, <2>1, <2>2, <2>3
<1>6. stack' # <<>>
  BY <1>1, <1>3, EmptySeq
<1>7. stack'[Len(stack')].node = frefnode
  <2>1. CASE n = 1
    BY <1>1, <1>2, <1>3, <2>1
  <2>2. CASE n # 1
    <3>1. n \in 2 .. n
      BY <1>1, <2>2
    <3>2. stack'[n + d] = stack[n]
      BY <1>3, <3>1
    <3>3. QED
      BY <1>1, <1>3, <3>2
  <2>3. QED
    BY <2>1, <2>2
<1>8. /\ Nodes' = Nodes /\ dest' = dest /\ flayer' = flayer /\ frefnode' = frefnode /\ way' = way
  BY SameLevels
<1>9. \A x \in 1 .. Len(stack') : at(x) = Level(frefnode) + Len(stack') - x
  BY <1>1, <1>2, <1>3
<1> HIDE DEF at
<1>10. \A x \in 1 .. Len(stack') :
         Between(stack'[x].node) /\ Level(stack'[x].node) = Level(frefnode) + Len(stack') - x
  BY <1>5, <1>9
<1>11. QED
  BY <1>6, <1>7, <1>8, <1>10 DEF Calls, Between, Level

\* An arc that a call has passed over never gets room again in this network.
LEMMA TriedKeeps ==
  ASSUME Pushing, Unmoved, NEW i \in Nodes, NEW j \in Nodes, NEW r \in Nat, NEW d \in {0, 1},
         Moves(i, j, r), Restacked(i, j, r, d), Passed(i, j, r)
  PROVE  Tried'
<1> DEFINE n == Len(stack)
           Old(m, at) == \A y \in Nodes : y <= at /\ Level(y) = Level(m) + 1 => Room(m, y) = 0
           room(m, y) == IF way = 1 THEN fcap[m][y] - flow'[m][y] + flow'[y][m]
                         ELSE fcap[y][m] - flow'[y][m] + flow'[m][y]
           New(m, at) == \A y \in Nodes : y <= at /\ Level(y) = Level(m) + 1 => room(m, y) = 0
<1>1. /\ n \in Nat /\ n >= 1 /\ top = stack[1]
      /\ \A x \in 1 .. n : stack[x].node \in Nodes
      /\ \A x \in 2 .. n : Level(stack[x].node) < Level(top.node)
  BY CallsAre
<1>2. /\ Level(j) = Level(i) + 1 /\ i # j /\ i = top.node
      /\ r = top.flowleft \/ r = Room(i, j)
      /\ \A x \in Nodes : x > top.j /\ x < j /\ Level(x) = Level(j) => Room(i, x) = 0
  BY PlacesOf DEF Moves
<1>3. /\ Len(stack') = n + d
      /\ stack'[1 + d].node = i /\ stack'[1 + d].flowleft = top.flowleft - r /\ stack'[1 + d].j = j
      /\ d = 1 => stack'[1].node = j /\ stack'[1].j = -1
  BY DEF Restacked
<1>4. \A x \in 1 .. Len(stack') :
        \/ x = 1 + d
        \/ x = 1 /\ d = 1
        \/ x - d \in 2 .. n /\ stack'[x] = stack[x - d]
  BY CallsOf DEF Pushing, Calls
<1>11. Nodes' = Nodes /\ flayer' = flayer /\ way' = way /\ fcap' = fcap
  BY SameLevels
<1>5. /\ room(i, j) = Room(i, j) - r
      /\ \A x, y \in Nodes : (x # i \/ y # j) /\ (x # j \/ y # i) => room(x, y) = Room(x, y)
  <2>1. \A x, y : Room(x, y)' = room(x, y)
    BY <1>11 DEF Room, Res
  <2> HIDE DEF room
  <2>2. QED
    BY <2>1 DEF Passed
<1>6. \A x \in 1 .. n : stack[x].flowleft = 0 \/ Old(stack[x].node, stack[x].j)
  BY DEF Pushing, Tried
<1>7. \A x \in Nodes : Level(x) \in Int
  BY LevelIs DEF Pushing
<1>8. Nodes \subseteq Nat /\ top.flowleft \in Nat /\ top.j \in Int
  BY TopIs DEF Nodes, Pushing, Calls
<1>9. Room(i, j) \in Nat
  BY RoomIs DEF Pushing
<1> HIDE DEF n
<1> HIDE DEF room
<1>10. ASSUME NEW x \in 1 .. Len(stack')
       PROVE  stack'[x].flowleft = 0 \/ New(stack'[x].node, stack'[x].j)
  <2>1. CASE x = 1 + d
    <3>1. SUFFICES ASSUME r # top.flowleft PROVE New(i, j)
      BY <1>3, <1>8, <2>1
    <3>2. top.flowleft # 0 => Old(i, top.j)
      BY <1>1, <1>2, <1>6
    <3>3. top.flowleft # 0
      BY <1>2, <1>8, <3>1 DEF Moves
    <3>4. ASSUME NEW y \in Nodes, y <= j, Level(y) = Level(i) + 1 PROVE room(i, y) = 0
      <4>1. CASE y = j
        BY <1>2, <1>5, <1>9, <3>1, <4>1
      <4>2. CASE y # j
        <5>1. room(i, y) = Room(i, y)
          BY <1>2, <1>5, <4>2
        <5>2. y \in Nat /\ j \in Nat /\ y < j
          BY <1>8, <3>4, <4>2
        <5>3. CASE y <= top.j
          BY <3>2, <3>3, <3>4, <5>1, <5>3
        <5>4. CASE ~(y <= top.j)
          <6>1. y > top.j
            BY <1>8, <5>2, <5>4
          <6>2. QED
            BY <1>2, <3>4, <5>1, <5>2, <6>1
        <5>5. QED
          BY <5>3, <5>4
      <4>3. QED
        BY <4>1, <4>2
    <3>5. QED
      BY <3>4
  <2>2. CASE x = 1 /\ d = 1
    <3>1. stack'[x].j = -1
      BY <1>3, <2>2
    <3>2. \A y \in Nodes : ~(y <= -1)
      BY <1>8
    <3>3. QED
      BY <3>1, <3>2
  <2>3. CASE x - d \in 2 .. n /\ stack'[x] = stack[x - d]
    <3>1. PICK m \in Nodes : m = stack[x - d].node /\ Level(m) < Level(i)
      <4>1. x - d \in 1 .. n
        BY <1>1, <2>3
      <4>2. QED
        BY <1>1, <1>2, <2>3, <4>1
    <3>2. stack[x - d].flowleft = 0 \/ Old(m, stack[x - d].j)
      <4>1. x - d \in 1 .. n
        BY <1>1, <2>3
      <4>2. QED
        BY <1>6, <3>1, <4>1
    <3>3. ASSUME NEW y \in Nodes, Level(y) = Level(m) + 1 PROVE room(m, y) = Room(m, y)
      <4>1. m # i /\ m # j
        BY <1>2, <1>7, <3>1
      <4>2. QED
        BY <1>5, <4>1
    <3>4. Old(m, stack[x - d].j) => New(m, stack[x - d].j)
      BY <3>3
    <3> HIDE DEF Old, New
    <3>5. QED
      BY <2>3, <3>1, <3>2, <3>4
  <2>4. QED
    BY <1>4, <2>1, <2>2, <2>3
<1>12. ASSUME NEW x \in 1 .. Len(stack')
       PROVE  \/ stack'[x].flowleft = 0
              \/ \A y \in Nodes : y <= stack'[x].j /\ Level(y) = Level(stack'[x].node) + 1 =>
                                      room(stack'[x].node, y) = 0
  BY <1>10, <1>12
<1>13. QED
  BY <1>11, <1>12 DEF Tried, Level, Room, Res, room

\* What is left at the ends of the arc.
LEMMA LeftAt ==
  ASSUME Pushing, NEW left, Held(left), NEW i \in Nodes, NEW j \in Nodes, NEW r \in Nat, Moves(i, j, r)
  PROVE  /\ left \in [Nodes -> Nat] /\ left[i] = top.flowleft /\ r <= left[i] /\ left[j] = 0
<1>1. /\ left \in [Nodes -> Nat]
      /\ \A x \in 1 .. Len(stack) : left[stack[x].node] = stack[x].flowleft
      /\ \A n \in Nodes : (\A x \in 1 .. Len(stack) : stack[x].node # n) => left[n] = 0
  BY DEF Held
<1>2. /\ Len(stack) \in Nat /\ Len(stack) >= 1 /\ top = stack[1]
      /\ \A x \in 2 .. Len(stack) : Level(stack[x].node) < Level(top.node)
  BY CallsAre
<1>3. i = top.node /\ r <= top.flowleft
  BY DEF Moves
<1>4. left[i] = top.flowleft
  BY <1>1, <1>2, <1>3
<1>5. Level(j) = Level(i) + 1 /\ i # j /\ Level(i) \in Int
  BY PlacesOf
<1>6. ASSUME NEW x \in 1 .. Len(stack) PROVE stack[x].node # j
  <2>1. CASE x = 1
    BY <1>2, <1>3, <1>5, <2>1
  <2>2. CASE x # 1
    <3>1. Level(stack[x].node) < Level(i)
      BY <1>2, <1>3, <2>2
    <3>2. ~(Level(j) < Level(i))
      BY <1>5
    <3>3. QED
      BY <3>1, <3>2
  <2>3. QED
    BY <2>1, <2>2
<1>7. QED
  BY <1>1, <1>3, <1>4, <1>6

\* What the calls have left is what has come to their nodes.
LEMMA HeldKeeps ==
  ASSUME Pushing, Unmoved, NEW left, Held(left),
         NEW i \in Nodes, NEW j \in Nodes, NEW r \in Nat, NEW d \in {0, 1},
         Moves(i, j, r), Restacked(i, j, r, d), NEW new, new = Passing(left, i, j, r)
  PROVE  Held(new)'
<1> DEFINE n == Len(stack)
<1>1. /\ left \in [Nodes -> Nat] /\ left[i] = top.flowleft /\ r <= left[i] /\ left[j] = 0
  BY LeftAt
<1>2. /\ \A x \in 1 .. n : left[stack[x].node] = stack[x].flowleft
      /\ \A m \in Nodes : (\A x \in 1 .. n : stack[x].node # m) => left[m] = 0
  BY DEF Held
<1>3. /\ n \in Nat /\ n >= 1 /\ top = stack[1]
      /\ \A x \in 1 .. n : stack[x].node \in Nodes
      /\ \A x \in 2 .. n : Level(stack[x].node) < Level(top.node)
  BY CallsAre
<1>4. Level(j) = Level(i) + 1 /\ i # j /\ Level(i) \in Int /\ i = top.node
  BY PlacesOf DEF Moves
<1>5. /\ stack' \in Seq(Call) /\ Len(stack') = n + d
      /\ stack'[1 + d].node = i /\ stack'[1 + d].flowleft = top.flowleft - r
      /\ \A x \in 2 .. n : stack'[x + d] = stack[x]
      /\ d = 0 => j \in {src, dest}
      /\ d = 1 => j \notin {src, dest} /\ stack'[1].node = j /\ stack'[1].flowleft = r
  BY DEF Restacked
<1>6. \A x \in 1 .. Len(stack') :
        \/ x = 1 + d
        \/ x = 1 /\ d = 1
        \/ x - d \in 2 .. n /\ stack'[x] = stack[x - d]
  BY CallsOf DEF Pushing, Calls
<1> HIDE DEF n
<1>7. /\ new = [m \in Nodes |-> new[m]]
      /\ \A m \in Nodes : new[m] = IF m = i THEN left[m] - r
                                   ELSE IF m = j /\ j \notin {src, dest} THEN r ELSE left[m]
  BY DEF Passing
<1>8. new \in [Nodes -> Nat]
  <2>1. left[i] - r \in Nat
    BY <1>1
  <2>2. \A m \in Nodes : new[m] \in Nat
    BY <1>1, <1>7, <2>1
  <2>3. QED
    BY <1>7, <2>2
<1>9. ASSUME NEW x \in 1 .. Len(stack') PROVE new[stack'[x].node] = stack'[x].flowleft
  <2>1. CASE x = 1 + d
    BY <1>1, <1>5, <1>7, <2>1
  <2>2. CASE x = 1 /\ d = 1
    BY <1>4, <1>5, <1>7, <2>2
  <2>3. CASE x - d \in 2 .. n /\ stack'[x] = stack[x - d]
    <3>1. PICK m \in Nodes : m = stack[x - d].node /\ Level(m) < Level(i) /\ left[m] = stack[x - d].flowleft
      <4>1. x - d \in 1 .. n
        BY <1>3, <2>3
      <4>2. QED
        BY <1>2, <1>3, <1>4, <2>3, <4>1
    <3>2. m # i /\ m # j
      <4>1. ~(Level(i) < Level(i)) /\ ~(Level(j) < Level(i))
        BY <1>4
      <4>2. QED
        BY <3>1, <4>1
    <3>3. QED
      BY <1>7, <2>3, <3>1, <3>2
  <2>4. QED
    BY <1>6, <2>1, <2>2, <2>3
<1>10. ASSUME NEW m \in Nodes, \A x \in 1 .. Len(stack') : stack'[x].node # m PROVE new[m] = 0
  <2>1. m # i
    <3>1. 1 + d \in 1 .. Len(stack')
      BY <1>3, <1>5
    <3>2. QED
      BY <1>5, <1>10, <3>1
  <2>2. new[m] = left[m]
    <3>1. m = j => j \in {src, dest}
      <4>1. CASE d = 0
        BY <1>5, <4>1
      <4>2. CASE d = 1
        <5>1. 1 \in 1 .. Len(stack')
          BY <1>3, <1>5
        <5>2. m # j
          BY <1>5, <1>10, <4>2, <5>1
        <5>3. QED
          BY <5>2
      <4>3. QED
        BY <4>1, <4>2
    <3>2. QED
      BY <1>7, <2>1, <3>1
  <2>3. ASSUME NEW x \in 1 .. n PROVE stack[x].node # m
    <3>1. CASE x = 1
      BY <1>3, <1>4, <2>1, <3>1
    <3>2. CASE x # 1
      <4>1. x \in 2 .. n /\ x + d \in 1 .. Len(stack')
        BY <1>3, <1>5, <3>2
      <4>2. QED
        BY <1>5, <1>10, <4>1
    <3>3. QED
      BY <3>1, <3>2
  <2>4. QED
    BY <1>2, <2>2, <2>3
<1>11. Nodes' = Nodes
  BY SameLevels
<1>12. QED
  BY <1>8, <1>9, <1>10, <1>11 DEF Held

\* What entered a node and has not left it is what its call has left to move.
LEMMA BalancedKeeps ==
  ASSUME Pushing, Unmoved, NEW left, Held(left), Balanced(left),
         NEW i \in Nodes, NEW j \in Nodes, NEW r \in Nat, Moves(i, j, r), Passed(i, j, r),
         NEW new, new = Passing(left, i, j, r)
  PROVE  Balanced(new)'
<1>1. /\ left \in [Nodes -> Nat] /\ left[j] = 0
  BY LeftAt
<1>2. i # j
  BY PlacesOf
<1>3. /\ \A x \in Nodes \ {i, j} : Flux(x)' = Flux(x)
      /\ Flux(i)' = Flux(i) - r /\ Flux(j)' = Flux(j) + r
  BY DEF Passed
<1>4. \A x \in Nodes \ {src, dest} : Flux(x) = left[x] - Owed(x)
  BY DEF Balanced
<1>5. \A m \in Nodes : new[m] = IF m = i THEN left[m] - r
                                ELSE IF m = j /\ j \notin {src, dest} THEN r ELSE left[m]
  BY DEF Passing
<1>6. \A x : Owed(x) \in Nat
  BY DEF Owed, Pushing
<1>7. ASSUME NEW x \in Nodes \ {src, dest} PROVE Flux(x)' = new[x] - Owed(x)
  <2>1. Flux(x) = left[x] - Owed(x) /\ left[x] \in Nat /\ Owed(x) \in Nat
    BY <1>1, <1>4, <1>6
  <2>2. CASE x = i
    <3>1. new[x] = left[x] - r /\ Flux(x)' = Flux(x) - r
      BY <1>3, <1>5, <2>2
    <3>2. QED
      BY <2>1, <3>1
  <2>3. CASE x = j
    <3>1. new[x] = r /\ Flux(x)' = Flux(x) + r /\ left[x] = 0
      BY <1>1, <1>2, <1>3, <1>5, <2>3
    <3>2. QED
      BY <2>1, <3>1
  <2>4. CASE x # i /\ x # j
    <3>1. new[x] = left[x] /\ Flux(x)' = Flux(x)
      BY <1>3, <1>5, <2>4
    <3>2. QED
      BY <2>1, <3>1
  <2>5. QED
    BY <2>2, <2>3, <2>4
<1>8. Nodes' = Nodes /\ src' = src /\ dest' = dest /\ \A x : Owed(x)' = Owed(x)
  BY SameLevels
<1>9. QED
  BY <1>7, <1>8 DEF Balanced

\* Only the node the units leave has less room.
LEMMA AllRoomMoves ==
  ASSUME Pushing, Unmoved, NEW i \in Nodes, NEW j \in Nodes, NEW r \in Nat,
         Moves(i, j, r), Passed(i, j, r), NEW x \in Nodes
  PROVE  AllRoom(x)' = IF x = i THEN AllRoom(x) - r ELSE AllRoom(x)
<1> DEFINE room(m, y) == IF way = 1 THEN fcap[m][y] - flow'[m][y] + flow'[y][m]
                         ELSE fcap[y][m] - flow'[y][m] + flow'[m][y]
           new == [y \in Beyond(x) |-> room(x, y)]
           old == Rooms(x)
           S == Beyond(x)
<1>1. Nodes' = Nodes /\ flayer' = flayer /\ way' = way /\ fcap' = fcap
  BY SameLevels
<1>2. /\ room(i, j) = Room(i, j) - r
      /\ \A m, y \in Nodes : (m # i \/ y # j) /\ (m # j \/ y # i) => room(m, y) = Room(m, y)
  <2>1. \A m, y : Room(m, y)' = room(m, y)
    BY <1>1 DEF Room, Res
  <2> HIDE DEF room
  <2>2. QED
    BY <2>1 DEF Passed
<1>3. /\ AllRoom(x) = SumFunctionOnSet(old, S) /\ AllRoom(x) \in Nat
      /\ IsFiniteSet(S) /\ S \subseteq Nodes
      /\ \A y \in S : old[y] = Room(x, y) /\ Room(x, y) \in Nat
  BY AllRoomIs DEF Pushing
<1>4. AllRoom(x)' = SumFunctionOnSet(new, S)
  <2>1. flayer \in [Nodes -> -20 .. 20] /\ way \in {0, 1}
    BY DEF Pushing, Ground
  <2>2. CASE way = 1
    <3>1. S = {y \in Nodes : flayer[y] = flayer[x] + 1}
      BY <2>2 DEF Beyond, Level
    <3>2. new = [y \in {y \in Nodes : flayer[y] = flayer[x] + 1} |-> fcap[x][y] - flow'[x][y] + flow'[y][x]]
      BY <2>2, <3>1
    <3>3. QED
      BY <1>1, <2>2, <3>1, <3>2 DEF AllRoom, Outcap, SumFunction
  <2>3. CASE way = 0
    <3>1. S = {y \in Nodes : flayer[y] = flayer[x] - 1}
      BY <2>1, <2>3 DEF Beyond, Level
    <3>2. new = [y \in {y \in Nodes : flayer[y] = flayer[x] - 1} |-> fcap[y][x] - flow'[y][x] + flow'[x][y]]
      BY <2>3, <3>1
    <3>3. QED
      BY <1>1, <2>3, <3>1, <3>2 DEF AllRoom, Incap, SumFunction
  <2>4. QED
    BY <2>1, <2>2, <2>3
<1>5. \A y \in S : new[y] = room(x, y)
  OBVIOUS
<1>6. Level(j) = Level(i) + 1 /\ i # j /\ \A m \in Nodes : Level(m) \in Int
  BY PlacesOf, LevelIs DEF Pushing
<1>7. \A y \in S : y \in Nodes /\ Level(y) = Level(x) + 1
  BY DEF Beyond
<1>8. j \in Beyond(i)
  BY <1>6 DEF Beyond
<1> HIDE DEF room, new, old
<1>9. CASE x = i
  <2>1. j \in S
    BY <1>8, <1>9
  <2> HIDE DEF S
  <2>2. \A y \in S : y # j => old[y] = new[y]
    <3>1. ASSUME NEW y \in S, y # j PROVE old[y] = new[y]
      <4>1. y \in Nodes
        BY <1>3
      <4>2. room(x, y) = Room(x, y)
        BY <1>2, <1>6, <1>9, <3>1, <4>1
      <4>3. QED
        BY <1>3, <1>5, <4>2
    <3>2. QED
      BY <3>1
  <2>3. new[j] = old[j] - r /\ old[j] \in Nat
    BY <1>2, <1>3, <1>5, <1>9, <2>1
  <2>4. \A y \in S : old[y] \in Int /\ new[y] \in Int
    <3>1. ASSUME NEW y \in S PROVE old[y] \in Int /\ new[y] \in Int
      <4>1. old[y] \in Nat
        BY <1>3
      <4>2. QED
        BY <2>2, <2>3, <4>1
    <3>2. QED
      BY <3>1
  <2>5. Altered(old, new, S, j)
    BY <1>3, <2>1, <2>2, <2>4, SumChanges
  <2>6. SumFunctionOnSet(new, S) = SumFunctionOnSet(old, S) - old[j] + new[j]
    BY <2>5 DEF Altered
  <2>7. AllRoom(x)' = AllRoom(x) - r
    BY <1>3, <1>4, <2>3, <2>6
  <2>8. QED
    BY <1>9, <2>7
<1>10. CASE x # i
  <2>1. ASSUME NEW y \in S PROVE old[y] = new[y]
    <3>1. y \in Nodes /\ Level(y) = Level(x) + 1
      BY <1>7
    <3>2. x # j \/ y # i
      <4>1. ~(Level(i) = Level(j) + 1)
        BY <1>6
      <4>2. QED
        BY <3>1, <4>1
    <3>3. room(x, y) = Room(x, y)
      BY <1>2, <1>10, <3>1, <3>2
    <3>4. QED
      BY <1>3, <1>5, <3>3
  <2> HIDE DEF S
  <2>2. SumFunctionOnSet(old, S) = SumFunctionOnSet(new, S)
    BY <1>3, <2>1, SumSame
  <2>3. AllRoom(x)' = AllRoom(x)
    BY <1>3, <1>4, <2>2
  <2>4. QED
    BY <1>10, <2>3
<1>11. QED
  BY <1>9, <1>10

\* There stays room beyond each node for all that can still come to it.
LEMMA RoomyKeeps ==
  ASSUME Pushing, Unmoved, NEW left, Held(left), Roomy(left),
         NEW i \in Nodes, NEW j \in Nodes, NEW r \in Nat, Moves(i, j, r), Passed(i, j, r),
         NEW new, new = Passing(left, i, j, r)
  PROVE  Roomy(new)'
<1>1. /\ left \in [Nodes -> Nat] /\ r <= left[i] /\ left[j] = 0
  BY LeftAt
<1>2. Level(j) = Level(i) + 1
  BY DEF Moves
<1>3. ASSUME NEW x \in Nodes
      PROVE  /\ new \in [Nodes -> Nat]
             /\ Waiting(x, new) <= Waiting(x, left)
             /\ Waiting(i, new) + r = Waiting(i, left)
  BY <1>1, <1>2, WaitingPasses DEF Pushing
<1>4. \A x \in Nodes : Waiting(x, left) \in Nat /\ Waiting(x, new) \in Nat
  BY <1>1, <1>3, WaitingIs DEF Pushing
<1>5. \A x \in Nodes : AllRoom(x) \in Nat
  BY AllRoomIs DEF Pushing
<1>6. \A x \in Nodes : Between(x) => Waiting(x, left) <= AllRoom(x)
  BY DEF Roomy
<1>7. ASSUME NEW x \in Nodes, Between(x) PROVE Waiting(x, new) <= AllRoom(x)'
  <2>1. Waiting(x, left) <= AllRoom(x) /\ Waiting(x, left) \in Nat /\ Waiting(x, new) \in Nat /\ AllRoom(x) \in Nat
    BY <1>4, <1>5, <1>6, <1>7
  <2>2. AllRoom(x)' = IF x = i THEN AllRoom(x) - r ELSE AllRoom(x)
    BY AllRoomMoves
  <2>3. CASE x = i
    <3>1. Waiting(x, new) + r = Waiting(x, left) /\ AllRoom(x)' = AllRoom(x) - r
      BY <1>3, <2>2, <2>3
    <3>2. QED
      BY <2>1, <3>1
  <2>4. CASE x # i
    <3>1. Waiting(x, new) <= Waiting(x, left) /\ AllRoom(x)' = AllRoom(x)
      BY <1>3, <2>2, <2>4
    <3>2. QED
      BY <2>1, <3>1
  <2>5. QED
    BY <2>3, <2>4
<1>8. Nodes' = Nodes /\ (\A x : Behind(x)' = Behind(x)) /\ (\A x : Between(x)' <=> Between(x))
  BY SameLevels
<1>9. \A x : Waiting(x, new)' = Waiting(x, new)
  BY <1>8 DEF Waiting
<1>10. QED
  BY <1>7, <1>8, <1>9 DEF Roomy

\* A push uses no arc behind the reference node: the pull finds them unchanged.
LEMMA PullableKeeps ==
  ASSUME Pushing, Unmoved, NEW i \in Nodes, NEW j \in Nodes, NEW r \in Nat,
         Moves(i, j, r), Passed(i, j, r)
  PROVE  Pullable'
<1>1. /\ Nodes' = Nodes /\ flayer' = flayer /\ way' = way /\ fcap' = fcap /\ frefnode' = frefnode
      /\ fminpot' = fminpot /\ \A x : Between(x)' <=> Between(x)
  BY SameLevels
<1>2. SUFFICES ASSUME way = 1 PROVE Pullable'
  BY <1>1 DEF Pullable
<1>3. \A x \in Nodes : Between(x) /\ flayer[x] <= flayer[frefnode] => fminpot <= Incap(x)
  BY <1>2 DEF Pushing, Pullable
<1>4. /\ flayer[j] = flayer[i] + 1 /\ flayer[frefnode] <= flayer[i]
      /\ flayer[i] \in Int /\ flayer[frefnode] \in Int
  BY <1>2, PlacesOf DEF Level
<1>5. \A x \in Nodes : flayer[x] \in Int
  BY LevelIs DEF Pushing
<1>6. ASSUME NEW x \in Nodes, flayer[x] <= flayer[frefnode] PROVE Incap(x)' = Incap(x)
  <2> DEFINE S == {y \in Nodes : flayer[y] = flayer[x] - 1}
             old == [y \in S |-> fcap[y][x] - flow[y][x] + flow[x][y]]
             new == [y \in S |-> fcap[y][x] - flow'[y][x] + flow'[x][y]]
  <2>1. Incap(x) = SumFunction(old) /\ Incap(x)' = SumFunction(new)
    BY <1>1 DEF Incap
  <2>2. ASSUME NEW y \in S
        PROVE  fcap[y][x] - flow'[y][x] + flow'[x][y] = fcap[y][x] - flow[y][x] + flow[x][y]
    <3>1. y \in Nodes /\ flayer[y] = flayer[x] - 1
      OBVIOUS
    <3>2. (y # i \/ x # j) /\ (y # j \/ x # i)
      <4>1. ~(flayer[j] <= flayer[frefnode])
        BY <1>4
      <4>2. ~(flayer[j] = flayer[i] - 1)
        BY <1>4
      <4>3. QED
        BY <1>6, <3>1, <4>1, <4>2
    <3>3. Room(y, x)' = Room(y, x)
      BY <3>1, <3>2 DEF Passed
    <3>4. Room(y, x) = fcap[y][x] - flow[y][x] + flow[x][y]
      BY <1>2 DEF Room, Res
    <3>5. Room(y, x)' = fcap[y][x] - flow'[y][x] + flow'[x][y]
      BY <1>1, <1>2 DEF Room, Res
    <3>6. QED
      BY <3>3, <3>4, <3>5
  <2>3. old = new
    BY <2>2
  <2>4. QED
    BY <2>1, <2>3
<1>7. \A x \in Nodes : Between(x) /\ flayer[x] <= flayer[frefnode] => fminpot <= Incap(x)'
  BY <1>3, <1>6
<1>8. QED
  BY <1>1, <1>7 DEF Pullable

\* One arc used by push_pull() keeps all of it.
LEMMA MoveKeeps ==
  ASSUME Pushing, NEW left, Moving(left), Move, UNCHANGED <<inputVars, mat, todo>>
  PROVE  /\ Fits' /\ AtEnds' /\ Levels' /\ Calls' /\ Tried' /\ Pullable'
         /\ flow' \in [Nodes -> [Nodes -> Nat]] /\ stack' \in Seq(Call)
         /\ \E new : Moving(new)'
<1>1. Unmoved
  BY DEF Move, Unmoved
<1>2. Held(left) /\ Balanced(left) /\ Roomy(left)
  BY DEF Moving
<1>3. /\ Ground /\ Fits /\ AtEnds /\ way \in {0, 1} /\ stack \in Seq(Call) /\ stack # <<>>
  BY DEF Pushing, Calls
<1>4. PICK i \in Nodes, j \in Nodes : \E r \in Nat : Moves(i, j, r)
  BY <1>3, MoveIs
<1>5. PICK r \in Nat : Moves(i, j, r)
  BY <1>4
<1>6. PICK d \in {0, 1} : Restacked(i, j, r, d)
  BY <1>3, <1>5, RestackedIs
<1>7. Passed(i, j, r) /\ flow' \in [Nodes -> [Nodes -> Nat]]
  <2>1. i # src /\ i # dest /\ i # j /\ (way = 1 => j # src) /\ (way = 0 => j # dest)
    BY <1>5, PlacesOf
  <2>2. i = top.node /\ r <= Room(i, j) /\ flow' = Augmented(From(j), To(j), r)
    BY <1>5 DEF Moves
  <2>3. UNCHANGED <<inputVars, mat, todo, way>>
    BY <1>1 DEF Unmoved
  <2>4. QED
    BY <1>3, <2>1, <2>2, <2>3, PassedIs
<1>8. PICK new : new = Passing(left, i, j, r)
  OBVIOUS
<1>9. Held(new)'
  BY <1>1, <1>2, <1>5, <1>6, <1>8, HeldKeeps
<1>10. Balanced(new)'
  BY <1>1, <1>2, <1>5, <1>7, <1>8, BalancedKeeps
<1>11. Roomy(new)'
  BY <1>1, <1>2, <1>5, <1>7, <1>8, RoomyKeeps
<1>12. Moving(new)'
  BY <1>9, <1>10, <1>11 DEF Moving
<1>13. Calls'
  BY <1>1, <1>5, <1>6, CallsKeep
<1>14. Tried'
  BY <1>1, <1>5, <1>6, <1>7, TriedKeeps
<1>15. Pullable'
  BY <1>1, <1>5, <1>7, PullableKeeps
<1>16. Levels'
  BY <1>1, SameLevels DEF Levels, Pushing
<1>17. Fits' /\ AtEnds'
  BY <1>7 DEF Passed
<1>18. stack' \in Seq(Call)
  BY <1>6 DEF Restacked
<1>19. QED
  BY <1>7, <1>12, <1>13, <1>14, <1>15, <1>16, <1>17, <1>18

\* A call that finds no arc to use has moved all it had to.
LEMMA NothingIsLeft ==
  ASSUME Pushing, NEW left, Moving(left), Usable = {}
  PROVE  top.flowleft = 0
<1>1. /\ Ground /\ Fits /\ way \in {0, 1} /\ stack \in Seq(Call) /\ stack # <<>>
  BY DEF Pushing, Calls
<1>2. top.flowleft \in Nat /\ top.node \in Nodes /\ top = stack[1] /\ top.j \in Int /\ Len(stack) >= 1
      /\ Len(stack) \in Nat
  BY <1>1, TopIs DEF Nodes
<1>3. SUFFICES ASSUME top.flowleft > 0 PROVE FALSE
  BY <1>2
<1>4. PICK i \in Nodes : i = top.node
  BY <1>2
<1>5. ASSUME NEW y \in Beyond(i) PROVE Room(i, y) = 0
  <2>1. y \in Nodes /\ Level(y) = Level(i) + 1
    BY DEF Beyond
  <2>2. y \in Int
    BY <2>1 DEF Nodes
  <2>3. CASE y > top.j
    BY <1>1, <1>3, <1>4, <2>1, <2>3, NoneUsable
  <2>4. CASE ~(y > top.j)
    <3>1. y <= top.j
      BY <1>2, <2>2, <2>4
    <3>2. stack[1].flowleft # 0 /\ 1 \in 1 .. Len(stack)
      BY <1>2, <1>3
    <3>3. \A z \in Nodes : z <= stack[1].j /\ Level(z) = Level(stack[1].node) + 1 =>
                             Room(stack[1].node, z) = 0
      BY <3>2 DEF Pushing, Tried
    <3>4. QED
      BY <1>2, <1>4, <2>1, <3>1, <3>3
  <2>5. QED
    BY <2>3, <2>4
<1>6. AllRoom(i) = 0
  <2>1. /\ AllRoom(i) = SumFunctionOnSet(Rooms(i), Beyond(i)) /\ IsFiniteSet(Beyond(i))
        /\ \A y \in Beyond(i) : Rooms(i)[y] = Room(i, y)
    BY <1>1, AllRoomIs
  <2>2. SumFunctionOnSet(Rooms(i), Beyond(i)) = 0
    BY <1>5, <2>1, SumNothing
  <2>3. QED
    BY <2>1, <2>2
<1>7. Between(i)
  BY <1>4, CallsAre
<1>8. Waiting(i, left) <= AllRoom(i)
  BY <1>7 DEF Moving, Roomy
<1>9. left \in [Nodes -> Nat] /\ left[i] = top.flowleft
  <2>1. 1 \in 1 .. Len(stack)
    BY <1>2
  <2>2. QED
    BY <1>2, <1>4, <2>1 DEF Moving, Held
<1>10. left[i] <= Waiting(i, left) /\ Waiting(i, left) \in Nat
  BY <1>1, <1>9, WaitingIs
<1>11. QED
  BY <1>2, <1>3, <1>6, <1>8, <1>9, <1>10

\* What is said of flow and layers alone stays, when they stay.
LEMMA SameFlow ==
  ASSUME UNCHANGED <<inputVars, mat, todo, flow, flayer>>
  PROVE  /\ Fits' <=> Fits
         /\ AtEnds' <=> AtEnds
         /\ Levels' <=> Levels
         /\ \A i : Net(i)' = Net(i) /\ Incap(i)' = Incap(i) /\ Outcap(i)' = Outcap(i)
         /\ \A i : Between(i)' <=> Between(i)
         /\ \A i, j : Res(i, j)' = Res(i, j)
<1>1. UNCHANGED <<inputVars, mat, todo>> /\ UNCHANGED <<flow, flayer>>
  OBVIOUS
<1>2. Nodes' = Nodes /\ src' = src /\ dest' = dest /\ fcap' = fcap
  BY <1>1, SamePair
<1>3. Fits' <=> Fits
  BY <1>1, <1>2 DEF Fits
<1>4. AtEnds' <=> AtEnds
  BY <1>1, <1>2 DEF AtEnds
<1>5. Levels' <=> Levels
  BY <1>1, <1>2 DEF Levels
<1>6. \A i : Net(i)' = Net(i) /\ Incap(i)' = Incap(i) /\ Outcap(i)' = Outcap(i)
  BY <1>1, <1>2 DEF Net, Incap, Outcap
<1>7. \A i : Between(i)' <=> Between(i)
  BY <1>1, <1>2 DEF Between
<1>8. \A i, j : Res(i, j)' = Res(i, j)
  BY <1>1, <1>2 DEF Res
<1>9. QED
  BY <1>3, <1>4, <1>5, <1>6, <1>7, <1>8

\* After a call below the last one.
LEMMA PopKeeps ==
  ASSUME Pushing, NEW left, Moving(left), Usable = {}, Tail(stack) # <<>>,
         stack' = Tail(stack), UNCHANGED flow, Unmoved
  PROVE  Calls' /\ Tried' /\ Pullable' /\ Moving(left)'
<1> DEFINE n == Len(stack)
<1>1. /\ stack \in Seq(Call) /\ stack # <<>> /\ stack[n].node = frefnode
      /\ \A x \in 1 .. n : /\ Between(stack[x].node)
                           /\ Level(stack[x].node) = Level(frefnode) + n - x
  BY DEF Pushing, Calls
<1>2. /\ n \in Nat /\ Tail(stack) \in Seq(Call) /\ Len(Tail(stack)) = n - 1
      /\ top = stack[1]
      /\ \A x \in 1 .. n - 1 : Tail(stack)[x] = stack[x + 1]
  BY <1>1, TopIs
<1>3. n >= 2
  <2>1. Len(Tail(stack)) # 0
    BY <1>2, EmptySeq
  <2>2. QED
    BY <1>1, <1>2, <2>1, TopIs
<1>4. top.flowleft = 0
  BY NothingIsLeft
<1>5. Len(stack') = n - 1 /\ \A x \in 1 .. n - 1 : stack'[x] = stack[x + 1]
  BY <1>2
<1>6. Level(frefnode) \in Int
  BY LevelIs DEF Pushing
<1>7. /\ left \in [Nodes -> Nat]
      /\ \A x \in 1 .. n : left[stack[x].node] = stack[x].flowleft
      /\ \A i \in Nodes : (\A x \in 1 .. n : stack[x].node # i) => left[i] = 0
  BY DEF Moving, Held
<1>8. \A x \in 1 .. n :
        \/ stack[x].flowleft = 0
        \/ \A j \in Nodes : j <= stack[x].j /\ Level(j) = Level(stack[x].node) + 1 =>
                              Room(stack[x].node, j) = 0
  BY DEF Pushing, Tried
<1>9. /\ Nodes' = Nodes /\ src' = src /\ dest' = dest /\ fcap' = fcap
      /\ flayer' = flayer /\ fminpot' = fminpot /\ frefnode' = frefnode /\ way' = way
      /\ \A x : Level(x)' = Level(x) /\ Behind(x)' = Behind(x)
      /\ \A x : Between(x)' <=> Between(x)
      /\ \A x : Owed(x)' = Owed(x)
  BY SameLevels
<1>10. UNCHANGED <<inputVars, mat, todo, flow, flayer>>
  BY DEF Unmoved
<1>11. /\ \A i : Net(i)' = Net(i) /\ Incap(i)' = Incap(i) /\ Outcap(i)' = Outcap(i)
  BY <1>10, SameFlow
<1>12. stack' # <<>>
  OBVIOUS
<1> HIDE DEF n
<1>13. \A x \in 1 .. n - 1 : x + 1 \in 1 .. n
  BY <1>2
<1>14. Calls'
  <2>1. stack'[Len(stack')].node = frefnode
    <3>1. n - 1 \in 1 .. n - 1 /\ (n - 1) + 1 = n
      BY <1>2, <1>3
    <3>2. stack'[n - 1] = stack[(n - 1) + 1]
      BY <1>5, <3>1
    <3>3. QED
      BY <1>1, <1>5, <3>1, <3>2
  <2>2. ASSUME NEW x \in 1 .. Len(stack')
        PROVE  Between(stack'[x].node) /\ Level(stack'[x].node) = Level(frefnode) + Len(stack') - x
    <3>1. x \in 1 .. n - 1 /\ x + 1 \in 1 .. n /\ stack'[x] = stack[x + 1]
      BY <1>5, <1>13
    <3>2. Between(stack[x + 1].node) /\ Level(stack[x + 1].node) = Level(frefnode) + n - (x + 1)
      BY <1>1, <3>1
    <3>3. Level(frefnode) + n - (x + 1) = Level(frefnode) + Len(stack') - x
      BY <1>2, <1>5, <1>6
    <3>4. QED
      BY <3>1, <3>2, <3>3
  <2>3. QED
    BY <1>9, <1>12, <2>1, <2>2 DEF Calls, Between, Level
<1>15. Tried'
  <2>1. ASSUME NEW x \in 1 .. Len(stack')
        PROVE  \/ stack'[x].flowleft = 0
               \/ \A j \in Nodes : j <= stack'[x].j /\ Level(j) = Level(stack'[x].node) + 1 =>
                                     Room(stack'[x].node, j) = 0
    <3>1. x \in 1 .. n - 1 /\ x + 1 \in 1 .. n /\ stack'[x] = stack[x + 1]
      BY <1>5, <1>13
    <3>2. QED
      BY <1>8, <3>1
  <2>2. QED
    BY <1>9, <2>1 DEF Tried, Level, Room, Res
<1>16. Pullable'
  BY <1>9, <1>11 DEF Pushing, Pullable
<1>17. Held(left)'
  <2>1. ASSUME NEW x \in 1 .. Len(stack') PROVE left[stack'[x].node] = stack'[x].flowleft
    <3>1. x \in 1 .. n - 1 /\ x + 1 \in 1 .. n /\ stack'[x] = stack[x + 1]
      BY <1>5, <1>13
    <3>2. QED
      BY <1>7, <3>1
  <2>2. ASSUME NEW i \in Nodes, \A x \in 1 .. Len(stack') : stack'[x].node # i PROVE left[i] = 0
    <3>1. CASE i = stack[1].node
      <4>1. 1 \in 1 .. n
        BY <1>2, <1>3
      <4>2. QED
        BY <1>2, <1>4, <1>7, <3>1, <4>1
    <3>2. CASE i # stack[1].node
      <4>1. ASSUME NEW x \in 1 .. n PROVE stack[x].node # i
        <5>1. CASE x = 1
          BY <3>2, <5>1
        <5>2. CASE x # 1
          <6>1. x - 1 \in 1 .. n - 1 /\ (x - 1) + 1 = x
            BY <1>2, <5>2
          <6>2. stack'[x - 1] = stack[(x - 1) + 1] /\ x - 1 \in 1 .. Len(stack')
            BY <1>5, <6>1
          <6>3. QED
            BY <2>2, <6>1, <6>2
        <5>3. QED
          BY <5>1, <5>2
      <4>2. QED
        BY <1>7, <4>1
    <3>3. QED
      BY <3>1, <3>2
  <2>3. QED
    BY <1>7, <1>9, <2>1, <2>2 DEF Held
<1>18. Balanced(left)'
  <2>1. \A i : Flux(i)' = Flux(i)
    BY <1>9, <1>11 DEF Flux
  <2>2. QED
    BY <1>9, <2>1 DEF Moving, Balanced
<1>19. Roomy(left)'
  <2>1. \A i : Waiting(i, left)' = Waiting(i, left)
    BY <1>9 DEF Waiting
  <2>2. \A i : AllRoom(i)' = AllRoom(i)
    BY <1>9, <1>11 DEF AllRoom
  <2>3. QED
    BY <1>9, <2>1, <2>2 DEF Moving, Roomy
<1>20. QED
  BY <1>14, <1>15, <1>16, <1>17, <1>18, <1>19 DEF Moving

\* Incap() and Outcap() are not negative.
LEMMA CapsAre ==
  ASSUME Ground, Fits, NEW i \in Nodes
  PROVE  Incap(i) \in Nat /\ Outcap(i) \in Nat
<1> DEFINE S == {j \in Nodes : flayer[j] = flayer[i] - 1}
           f == [j \in S |-> fcap[j][i] - flow[j][i] + flow[i][j]]
           R == {j \in Nodes : flayer[j] = flayer[i] + 1}
           g == [j \in R |-> fcap[i][j] - flow[i][j] + flow[j][i]]
<1>1. IsFiniteSet(S) /\ IsFiniteSet(R)
  BY NodesAre, FS_Subset DEF Ground
<1>2. \A j \in S : f[j] \in Nat
  <2>1. \A j \in Nodes : fcap[j][i] - flow[j][i] + flow[i][j] \in Nat
    BY RoomIs DEF Res
  <2>2. QED
    BY <2>1
<1>3. \A j \in R : g[j] \in Nat
  <2>1. \A j \in Nodes : fcap[i][j] - flow[i][j] + flow[j][i] \in Nat
    BY RoomIs DEF Res
  <2>2. QED
    BY <2>1
<1>4. Incap(i) = SumFunctionOnSet(f, S)
  BY DEF Incap, SumFunction
<1>5. Outcap(i) = SumFunctionOnSet(g, R)
  BY DEF Outcap, SumFunction
<1> HIDE DEF f, g, S, R
<1>6. SumFunctionOnSet(f, S) \in Nat /\ SumFunctionOnSet(g, R) \in Nat
  BY <1>1, <1>2, <1>3, SumType
<1>7. QED
  BY <1>4, <1>5, <1>6

\* Nothing is left anywhere once the last call returns.
LEMMA AllMoved ==
  ASSUME Pushing, NEW left, Moving(left), Usable = {}, Tail(stack) = <<>>
  PROVE  /\ Between(frefnode)
         /\ \A i \in Nodes : left[i] = 0
<1>1. /\ stack \in Seq(Call) /\ stack # <<>> /\ stack[Len(stack)].node = frefnode
      /\ \A x \in 1 .. Len(stack) : Between(stack[x].node)
  BY DEF Pushing, Calls
<1>2. Len(stack) \in Nat /\ Len(stack) >= 1 /\ Len(Tail(stack)) = Len(stack) - 1 /\ top = stack[1]
  BY <1>1, TopIs
<1>3. Len(stack) = 1
  <2>1. Len(Tail(stack)) = 0
    BY EmptySeq
  <2>2. QED
    BY <1>2, <2>1
<1>4. top.flowleft = 0
  BY NothingIsLeft
<1>5. Between(frefnode)
  BY <1>1, <1>3
<1>6. ASSUME NEW i \in Nodes PROVE left[i] = 0
  <2>1. /\ \A x \in 1 .. Len(stack) : left[stack[x].node] = stack[x].flowleft
        /\ (\A x \in 1 .. Len(stack) : stack[x].node # i) => left[i] = 0
    BY DEF Moving, Held
  <2>2. CASE i = stack[1].node
    BY <1>2, <1>3, <1>4, <2>1, <2>2
  <2>3. CASE i # stack[1].node
    BY <1>3, <2>1, <2>3
  <2>4. QED
    BY <2>2, <2>3
<1>7. QED
  BY <1>5, <1>6

\* After the pull what enters a node leaves it.
LEMMA PullDone ==
  ASSUME Pushing, NEW left, Moving(left), Usable = {}, Tail(stack) = <<>>, way = 0
  PROVE  Conserved
<1>1. \A i \in Nodes : left[i] = 0
  BY AllMoved
<1>2. ASSUME NEW i \in Nodes \ {src, dest} PROVE Net(i) = 0
  <2>1. Flux(i) = left[i] - Owed(i)
    BY DEF Moving, Balanced
  <2>2. Flux(i) = -Net(i) /\ Owed(i) = 0
    BY DEF Flux, Owed
  <2>3. Net(i) \in Int
    BY NetIs DEF Pushing
  <2>4. QED
    BY <1>1, <2>1, <2>2, <2>3
<1>3. QED
  BY <1>2 DEF Conserved

\* After the push the pull of as much, from the same node.
LEMMA PullStarts ==
  ASSUME Pushing, NEW left, Moving(left), Usable = {}, Tail(stack) = <<>>, way = 1,
         way' = 0, stack' = <<[node |-> frefnode, flowleft |-> fminpot, j |-> -1]>>,
         UNCHANGED <<inputVars, mat, todo, flow, flayer, fminpot, frefnode>>
  PROVE  Calls' /\ Tried' /\ Pullable' /\ \E new : Moving(new)'
<1> DEFINE up(i) == -flayer[i]
           new == [i \in Nodes |-> IF i = frefnode THEN fminpot ELSE 0]
<1>1. UNCHANGED <<inputVars, mat, todo>> /\ UNCHANGED <<flow, flayer, fminpot, frefnode>>
  OBVIOUS
<1>2. Nodes' = Nodes /\ src' = src /\ dest' = dest /\ fcap' = fcap
  BY <1>1, SamePair
<1>3. /\ \A i : Net(i)' = Net(i) /\ Incap(i)' = Incap(i)
      /\ \A i : Between(i)' <=> Between(i)
  BY SameFlow
<1>4. \A i : Level(i)' = up(i)
  BY <1>1 DEF Level
<1>5. \A i \in Nodes : flayer[i] \in Int /\ up(i) \in Int
  BY LevelIs DEF Pushing
<1>6. frefnode \in Nodes /\ fminpot \in Nat /\ Between(frefnode) /\ \A i \in Nodes : left[i] = 0
  BY AllMoved DEF Pushing
<1>7. Len(stack') = 1 /\ stack'[1].node = frefnode /\ stack'[1].flowleft = fminpot
      /\ stack'[1].j = -1 /\ stack' # <<>>
  OBVIOUS
<1>8. Calls'
  <2>1. up(frefnode) = up(frefnode) + 1 - 1
    BY <1>5, <1>6
  <2>2. ASSUME NEW x \in 1 .. Len(stack')
        PROVE  Between(stack'[x].node) /\ -flayer[stack'[x].node] = -flayer[frefnode] + Len(stack') - x
    BY <1>6, <1>7, <2>1
  <2>3. QED
    BY <1>1, <1>2, <1>7, <2>2 DEF Calls, Between, Level
<1>9. Tried'
  <2>1. \A j \in Nodes : ~(j <= -1)
    BY DEF Nodes
  <2>2. \A x \in 1 .. Len(stack') : \A j \in Nodes : ~(j <= stack'[x].j)
    BY <1>7, <2>1
  <2>3. QED
    BY <1>2, <2>2 DEF Tried
<1>10. Pullable'
  BY DEF Pullable
<1>11. new \in [Nodes -> Nat] /\ \A i \in Nodes : new[i] = IF i = frefnode THEN fminpot ELSE 0
  BY <1>6
<1>12. PICK it : it = new
  OBVIOUS
<1> HIDE DEF new
<1>13. Held(it)'
  <2>1. \A x \in 1 .. Len(stack') : it[stack'[x].node] = stack'[x].flowleft
    BY <1>6, <1>7, <1>11, <1>12
  <2>2. ASSUME NEW i \in Nodes, \A x \in 1 .. Len(stack') : stack'[x].node # i PROVE it[i] = 0
    <3>1. i # frefnode
      BY <1>7, <2>2
    <3>2. QED
      BY <1>11, <1>12, <3>1
  <2>3. QED
    BY <1>2, <1>11, <1>12, <2>1, <2>2 DEF Held
<1>14. Balanced(it)'
  <2>1. ASSUME NEW i \in Nodes \ {src, dest} PROVE -Net(i) = it[i] - 0
    <3>1. Flux(i) = left[i] - Owed(i)
      BY DEF Moving, Balanced
    <3>2. Net(i) = 0 - Owed(i)
      BY <1>6, <3>1 DEF Flux
    <3>3. Owed(i) = it[i] /\ it[i] \in Nat
      BY <1>11, <1>12 DEF Owed
    <3>4. QED
      BY <3>2, <3>3
  <2>2. \A i : Flux(i)' = -Net(i) /\ Owed(i)' = 0
    BY <1>3 DEF Flux, Owed
  <2>3. QED
    BY <1>2, <2>1, <2>2 DEF Balanced
<1>15. Roomy(it)'
  <2>1. \A i : AllRoom(i)' = Incap(i)
    BY <1>3 DEF AllRoom
  <2>2. ASSUME NEW i \in Nodes, Between(i) PROVE Waiting(i, it)' <= Incap(i)
    <3> DEFINE S == {n \in Nodes : n = i \/ up(n) < up(i)}
    <3>1. Waiting(i, it)' = SumFunctionOnSet(it, S)
      BY <1>2, <1>4 DEF Waiting, Behind
    <3>2. IsFiniteSet(S) /\ S \subseteq Nodes
      <4>1. IsFiniteSet(Nodes)
        <5>1. numnodes \in Nat
          BY DEF Pushing, Ground
        <5>2. QED
          BY <5>1, NodesAre
      <4>2. S \subseteq Nodes
        OBVIOUS
      <4>3. QED
        BY <4>1, <4>2, FS_Subset
    <3>3. Incap(i) \in Nat
      BY CapsAre DEF Pushing
    <3>4. CASE frefnode \in S
      <4>1. flayer[i] <= flayer[frefnode]
        <5>1. frefnode = i \/ up(frefnode) < up(i)
          BY <3>4
        <5>2. QED
          BY <1>5, <1>6, <5>1
      <4>2. fminpot <= Incap(i)
        BY <2>2, <4>1 DEF Pushing, Pullable
      <4> HIDE DEF S
      <4>3. SumFunctionOnSet(it, S) = it[frefnode]
        BY <1>6, <1>11, <1>12, <3>2, <3>4, SumSingle
      <4>4. QED
        BY <1>6, <1>11, <1>12, <3>1, <4>2, <4>3
    <3>5. CASE frefnode \notin S
      <4> HIDE DEF S
      <4>1. \A n \in S : it[n] = 0
        BY <1>11, <1>12, <3>2, <3>5
      <4>2. SumFunctionOnSet(it, S) = 0
        BY <3>2, <4>1, SumNothing
      <4>3. QED
        BY <3>1, <3>3, <4>2
    <3>6. QED
      BY <3>4, <3>5
  <2>3. QED
    BY <1>2, <1>3, <2>1, <2>2 DEF Roomy
<1>16. Moving(it)'
  BY <1>13, <1>14, <1>15 DEF Moving
<1>17. QED
  BY <1>8, <1>9, <1>10, <1>16

(***************************************************************************)
(* A call returns                                                          *)
(***************************************************************************)

\* A call of push_pull() returns.
LEMMA ReturnedKeeps ==
  ASSUME Pushing, NEW left, Moving(left), Returned, UNCHANGED <<inputVars, mat, todo>>
  PROVE  /\ Fits' /\ AtEnds' /\ Levels' /\ way' \in {0, 1}
         /\ flow' \in [Nodes -> [Nodes -> Nat]] /\ stack' \in Seq(Call)
         /\ stack' = <<>> => Conserved'
         /\ stack' # <<>> => Calls' /\ Tried' /\ Pullable' /\ \E new : Moving(new)'
<1>1. /\ Usable = {} /\ UNCHANGED <<flow, flayer, fminpot, frefnode>>
      /\ IF Tail(stack) = <<>> /\ way = 1
         THEN /\ way' = 0
              /\ stack' = <<[node |-> frefnode, flowleft |-> fminpot, j |-> -1]>>
         ELSE way' = way /\ stack' = Tail(stack)
  BY DEF Returned
<1>2. UNCHANGED <<inputVars, mat, todo>> /\ UNCHANGED <<inputVars, mat, todo, flow, flayer>>
  BY <1>1
<1>3. /\ Fits' /\ AtEnds' /\ Levels'
  BY <1>2, SameFlow DEF Pushing
<1>4. flow' \in [Nodes -> [Nodes -> Nat]]
  BY <1>1 DEF Pushing, Ground
<1>5. /\ Tail(stack) \in Seq(Call) /\ way \in {0, 1} /\ frefnode \in Nodes /\ fminpot \in Nat
  BY TopIs DEF Pushing, Calls
<1>6. CASE Tail(stack) = <<>> /\ way = 1
  <2>1. way' = 0 /\ stack' = <<[node |-> frefnode, flowleft |-> fminpot, j |-> -1]>>
    BY <1>1, <1>6
  <2>2. Calls' /\ Tried' /\ Pullable' /\ \E new : Moving(new)'
    BY <1>1, <1>6, <2>1, PullStarts
  <2>3. stack' # <<>> /\ stack' \in Seq(Call)
    BY <1>5, <2>1 DEF Call
  <2>4. QED
    BY <1>3, <1>4, <2>1, <2>2, <2>3
<1>7. CASE Tail(stack) = <<>> /\ way # 1
  <2>1. stack' = <<>> /\ way' = way /\ way = 0
    BY <1>1, <1>5, <1>7
  <2>2. Conserved
    BY <1>1, <1>7, <2>1, PullDone
  <2>3. Conserved'
    <3>1. Nodes' = Nodes /\ src' = src /\ dest' = dest
      BY <1>2, SamePair
    <3>2. \A i : Net(i)' = Net(i)
      BY <1>2, SameFlow
    <3>3. QED
      BY <2>2, <3>1, <3>2 DEF Conserved
  <2>4. stack' \in Seq(Call) /\ way' \in {0, 1}
    BY <1>5, <1>7, <2>1
  <2>5. QED
    BY <1>3, <1>4, <2>1, <2>3, <2>4
<1>8. CASE Tail(stack) # <<>>
  <2>1. stack' = Tail(stack) /\ way' = way
    BY <1>1, <1>8
  <2>2. Unmoved /\ UNCHANGED flow
    BY <1>1, <1>2, <2>1 DEF Unmoved
  <2>3. Calls' /\ Tried' /\ Pullable' /\ Moving(left)'
    BY <1>1, <1>8, <2>1, <2>2, PopKeeps
  <2>4. stack' \in Seq(Call) /\ way' \in {0, 1} /\ stack' # <<>>
    BY <1>5, <1>8, <2>1
  <2>5. QED
    BY <1>3, <1>4, <2>3, <2>4
<1>9. QED
  BY <1>6, <1>7, <1>8

(***************************************************************************)
(* find_ref()                                                              *)
(***************************************************************************)

Has(q, x) == \E p \in 1 .. Len(q) : q[p] = x

\* Two sequences put together have what either has.
LEMMA ConcatHas ==
  ASSUME NEW S, NEW q \in Seq(S), NEW r \in Seq(S)
  PROVE  q \o r \in Seq(S) /\ \A x : Has(q, x) \/ Has(r, x) => Has(q \o r, x)
<1>1. /\ q \o r \in Seq(S) /\ Len(q \o r) = Len(q) + Len(r)
      /\ \A i \in 1 .. Len(q) + Len(r) : (q \o r)[i] = IF i <= Len(q) THEN q[i] ELSE r[i - Len(q)]
  BY ConcatProperties
<1>2. Len(q) \in Nat /\ Len(r) \in Nat
  BY LenProperties
<1> DEFINE t == q \o r
           m == Len(q)
<1>3. ASSUME NEW x, NEW p \in 1 .. Len(q), q[p] = x PROVE Has(t, x)
  <2>1. p \in 1 .. Len(t) /\ t[p] = q[p]
    BY <1>1, <1>2
  <2>2. QED
    BY <1>3, <2>1 DEF Has
<1>4. ASSUME NEW x, NEW p \in 1 .. Len(r), r[p] = x PROVE Has(t, x)
  <2>1. m + p \in 1 .. m + Len(r) /\ ~(m + p <= m) /\ (m + p) - m = p
    BY <1>2
  <2>2. t[m + p] = r[(m + p) - m]
    BY <1>1, <2>1
  <2>3. m + p \in 1 .. Len(t) /\ t[m + p] = r[p]
    BY <1>1, <2>1, <2>2
  <2> HIDE DEF m, t
  <2>4. QED
    BY <1>4, <2>3 DEF Has
<1>5. \A x : Has(q, x) \/ Has(r, x) => Has(t, x)
  BY <1>3, <1>4 DEF Has
<1>6. QED
  BY <1>1, <1>5

\* FlattenSeq() has what its sequences have.
LEMMA FlattenHas ==
  ASSUME NEW S, NEW s \in Seq(Seq(S)), Len(s) >= 1
  PROVE  /\ FlattenSeq(s) \in Seq(S)
         /\ \A n \in 1 .. Len(s) : \A x : Has(s[n], x) => Has(FlattenSeq(s), x)
<1> DEFINE n == Len(s)
<1>1. n \in Nat /\ n >= 1 /\ \A i \in 1 .. n : s[i] \in Seq(S)
  BY LenProperties, ElementOfSeq
<1>2. PICK f : Sums(s, n, f) /\ FlattenSeq(s) = f[n]
  BY <1>1, FlattenIs
<1> HIDE DEF n
<1>3. \A i \in 1 .. n : f[i] = IF i = 1 THEN s[i] ELSE f[i - 1] \o s[i]
  BY <1>2 DEF Sums
<1> DEFINE Good(m) == f[m] \in Seq(S) /\ \A i \in 1 .. m : \A x : Has(s[i], x) => Has(f[m], x)
           T == {m \in Nat : m \in 1 .. n => Good(m)}
<1>4. 0 \in T
  OBVIOUS
<1>5. ASSUME NEW m \in Nat, m \in T PROVE m + 1 \in T
  <2> SUFFICES ASSUME m + 1 \in 1 .. n PROVE Good(m + 1)
    OBVIOUS
  <2>1. s[m + 1] \in Seq(S)
    BY <1>1
  <2>2. CASE m = 0
    <3>1. f[m + 1] = s[m + 1]
      BY <1>3, <2>2
    <3>2. \A i \in 1 .. m + 1 : i = m + 1
      BY <2>2
    <3>3. QED
      BY <2>1, <3>1, <3>2
  <2>3. CASE m # 0
    <3>1. m \in 1 .. n /\ m + 1 # 1 /\ (m + 1) - 1 = m
      BY <1>1, <2>3
    <3>2. f[m + 1] = IF m + 1 = 1 THEN s[m + 1] ELSE f[(m + 1) - 1] \o s[m + 1]
      BY <1>3, Zenon
    <3>3. f[m + 1] = f[m] \o s[m + 1]
      BY <3>1, <3>2
    <3>4. f[m] \in Seq(S) /\ \A i \in 1 .. m : \A x : Has(s[i], x) => Has(f[m], x)
      BY <1>5, <3>1
    <3> DEFINE q == f[m]  r == s[m + 1]  t == f[m + 1]
    <3>5. q \in Seq(S) /\ r \in Seq(S) /\ t = q \o r
      BY <2>1, <3>3, <3>4
    <3>6. \A i \in 1 .. m : \A x : Has(s[i], x) => Has(q, x)
      BY <3>4
    <3> HIDE DEF q, r, t
    <3>7. t \in Seq(S) /\ \A x : Has(q, x) \/ Has(r, x) => Has(t, x)
      BY <3>5, ConcatHas
    <3>8. ASSUME NEW i \in 1 .. m + 1, NEW x, Has(s[i], x) PROVE Has(t, x)
      <4>1. i \in 1 .. m \/ i = m + 1
        OBVIOUS
      <4>2. CASE i \in 1 .. m
        BY <3>6, <3>7, <3>8, <4>2
      <4>3. CASE i = m + 1
        <5>1. Has(r, x)
          BY <3>8, <4>3 DEF r
        <5>2. QED
          BY <3>7, <5>1
      <4>4. QED
        BY <4>1, <4>2, <4>3
    <3>9. QED
      BY <3>7, <3>8 DEF t
  <2>4. QED
    BY <2>2, <2>3
<1> HIDE DEF T, Good
<1>6. Nat \subseteq T
  BY <1>4, <1>5, Induction
<1>7. Good(n)
  BY <1>1, <1>6 DEF T
<1>8. QED
  BY <1>2, <1>7 DEF Good, n

\* The nodes find_ref() goes on to from i, and how it leaves them, f[j] for j.
Below(j, i) == flayer[j] = flayer[i] - 1 /\ j # src /\ Residual(j, i)
Parts(f, i) == [n \in 1 .. numnodes |-> IF Below(n - 1, i) THEN f[n - 1] ELSE <<>>]
Order(f, i) == FlattenSeq(Parts(f, i)) \o <<i>>

\* There is such a function, layer by layer.
LEMMA VisitsExist ==
  ASSUME Ground
  PROVE  \E f : f = [i \in Nodes |-> Order(f, i)]
<1> DEFINE Good(f, m) == /\ f = [i \in Nodes |-> f[i]]
                         /\ \A i \in Nodes : flayer[i] <= m - 21 => f[i] = Order(f, i)
           T == {m \in Nat : \E f : Good(f, m)}
<1>0. \A i \in Nodes : flayer[i] \in -20 .. 20
  BY DEF Ground
<1>1. 0 \in T
  <2> DEFINE f == [i \in Nodes |-> 0]
  <2>1. f = [i \in Nodes |-> f[i]]
    OBVIOUS
  <2>2. \A i \in Nodes : ~(flayer[i] <= 0 - 21)
    BY <1>0
  <2> HIDE DEF f
  <2>3. Good(f, 0)
    BY <2>1, <2>2
  <2> HIDE DEF Good
  <2>4. QED
    BY <2>3
<1>2. ASSUME NEW m \in Nat, m \in T PROVE m + 1 \in T
  <2>1. PICK f : Good(f, m)
    BY <1>2
  <2>2. f = [i \in Nodes |-> f[i]] /\ \A i \in Nodes : flayer[i] <= m - 21 => f[i] = Order(f, i)
    BY <2>1
  <2> DEFINE g == [i \in Nodes |-> IF flayer[i] <= m - 21 THEN f[i] ELSE Order(f, i)]
  <2>3. \A i \in Nodes : g[i] = IF flayer[i] <= m - 21 THEN f[i] ELSE Order(f, i)
    OBVIOUS
  <2>4. g = [i \in Nodes |-> g[i]]
    OBVIOUS
  <2> HIDE DEF g
  <2>5. ASSUME NEW i \in Nodes, flayer[i] <= m + 1 - 21 PROVE Order(g, i) = Order(f, i)
    <3>1. ASSUME NEW n \in 1 .. numnodes, Below(n - 1, i) PROVE g[n - 1] = f[n - 1]
      <4>1. n - 1 \in Nodes
        BY DEF Ground, Nodes
      <4>2. flayer[n - 1] = flayer[i] - 1
        BY <3>1 DEF Below
      <4>3. flayer[n - 1] <= m - 21
        <5>1. flayer[i] \in Int
          BY <1>0
        <5>2. flayer[i] - 1 <= m - 21
          BY <2>5, <5>1
        <5>3. QED
          BY <4>2, <5>2
      <4>4. QED
        BY <2>3, <4>1, <4>3
    <3>2. Parts(g, i) = Parts(f, i)
      BY <3>1 DEF Parts
    <3>3. QED
      BY <3>2 DEF Order
  <2>6. ASSUME NEW i \in Nodes, flayer[i] <= m + 1 - 21 PROVE g[i] = Order(g, i)
    <3>1. Order(g, i) = Order(f, i)
      BY <2>5, <2>6
    <3>2. g[i] = Order(f, i)
      BY <2>2, <2>3
    <3>3. QED
      BY <3>1, <3>2
  <2>7. Good(g, m + 1)
    BY <2>4, <2>6
  <2> HIDE DEF Good
  <2>8. m + 1 \in Nat /\ \E h : Good(h, m + 1)
    BY <2>7
  <2>9. QED
    BY <2>8
<1> HIDE DEF T, Good
<1>3. Nat \subseteq T
  BY <1>1, <1>2, Induction
<1>4. PICK f : Good(f, 41)
  BY <1>3 DEF T
<1>5. f = [i \in Nodes |-> f[i]] /\ \A i \in Nodes : flayer[i] <= 41 - 21 => f[i] = Order(f, i)
  BY <1>4 DEF Good
<1>6. \A i \in Nodes : flayer[i] <= 41 - 21
  BY <1>0
<1>7. \A i \in Nodes : f[i] = Order(f, i)
  BY <1>5, <1>6
<1>8. f = [i \in Nodes |-> Order(f, i)]
  BY <1>5, <1>7
<1>9. QED
  BY <1>8

\* Visits is such a function.
LEMMA VisitsAre ==
  ASSUME Ground
  PROVE  Visits = [i \in Nodes |-> Order(Visits, i)]
<1> DEFINE V == CHOOSE f : f = [i \in Nodes |-> Order(f, i)]
<1>1. V = [i \in Nodes |-> Order(V, i)]
  BY VisitsExist
<1>2. Visits = V
  BY DEF Visits, Order, Parts, Below
<1>3. QED
  BY <1>1, <1>2

\* What the order of a node has, given that of the ones below it.
LEMMA OrderHas ==
  ASSUME Ground, NEW f, NEW i \in Nodes, \A j \in Nodes : Below(j, i) => f[j] \in Seq(Nodes)
  PROVE  /\ Order(f, i) \in Seq(Nodes) /\ Has(Order(f, i), i)
         /\ \A j \in Nodes : Below(j, i) => \A x : Has(f[j], x) => Has(Order(f, i), x)
<1> DEFINE s == Parts(f, i)
           t == FlattenSeq(s)
           o == <<i>>
<1>1. numnodes \in Nat /\ numnodes >= 1 /\ Nodes = 0 .. numnodes - 1
  BY DEF Ground, Nodes
<1>2. s \in Seq(Seq(Nodes)) /\ Len(s) = numnodes
      /\ \A n \in 1 .. numnodes : s[n] = IF Below(n - 1, i) THEN f[n - 1] ELSE <<>>
  <2>1. \A n \in 1 .. numnodes : n - 1 \in Nodes
    BY <1>1
  <2>2. \A n \in 1 .. numnodes : (IF Below(n - 1, i) THEN f[n - 1] ELSE <<>>) \in Seq(Nodes)
    BY <2>1
  <2>3. s = [n \in 1 .. numnodes |-> IF Below(n - 1, i) THEN f[n - 1] ELSE <<>>]
    BY DEF Parts
  <2> HIDE DEF s
  <2>4. s \in [1 .. numnodes -> Seq(Nodes)]
    BY <2>2, <2>3
  <2>5. s \in Seq(Seq(Nodes)) /\ Len(s) = numnodes
    BY <1>1, <2>4
  <2>6. \A n \in 1 .. numnodes : s[n] = IF Below(n - 1, i) THEN f[n - 1] ELSE <<>>
    BY <2>3
  <2>7. QED
    BY <2>5, <2>6
<1> HIDE DEF s
<1>3. t \in Seq(Nodes) /\ \A n \in 1 .. numnodes : \A x : Has(s[n], x) => Has(t, x)
  BY <1>1, <1>2, FlattenHas
<1>4. o \in Seq(Nodes) /\ Has(o, i)
  BY DEF Has
<1>5. Order(f, i) = t \o o
  BY DEF Order, s
<1> HIDE DEF t, o
<1>6. t \o o \in Seq(Nodes) /\ \A x : Has(t, x) \/ Has(o, x) => Has(t \o o, x)
  BY <1>3, <1>4, ConcatHas
<1>7. ASSUME NEW j \in Nodes, Below(j, i), NEW x, Has(f[j], x) PROVE Has(t, x)
  <2>1. j + 1 \in 1 .. numnodes /\ (j + 1) - 1 = j
    BY <1>1
  <2>2. s[j + 1] = IF Below((j + 1) - 1, i) THEN f[(j + 1) - 1] ELSE <<>>
    BY <1>2, <2>1
  <2>3. s[j + 1] = f[j]
    BY <1>7, <2>1, <2>2
  <2>4. QED
    BY <1>3, <1>7, <2>1, <2>3
<1>8. QED
  BY <1>4, <1>5, <1>6, <1>7

\* find_ref() visits each node it is called for, and those it is called for from there.
LEMMA VisitsTyped ==
  ASSUME Ground
  PROVE  /\ Visits \in [Nodes -> Seq(Nodes)]
         /\ \A i \in Nodes : Has(Visits[i], i)
         /\ \A i, j \in Nodes : Below(j, i) => \A x : Has(Visits[j], x) => Has(Visits[i], x)
<1>0. \A i \in Nodes : flayer[i] \in -20 .. 20
  BY DEF Ground
<1>1. Visits = [i \in Nodes |-> Order(Visits, i)]
  BY VisitsAre
<1>2. PICK f : f = Visits
  OBVIOUS
<1>3. \A i \in Nodes : f[i] = Order(f, i)
  BY <1>1, <1>2
<1> DEFINE T == {m \in Nat : \A i \in Nodes : flayer[i] <= m - 21 => f[i] \in Seq(Nodes)}
<1>4. 0 \in T
  <2>1. \A i \in Nodes : ~(flayer[i] <= 0 - 21)
    BY <1>0
  <2>2. QED
    BY <2>1
<1>5. ASSUME NEW m \in Nat, m \in T PROVE m + 1 \in T
  <2>1. ASSUME NEW i \in Nodes, flayer[i] <= m + 1 - 21 PROVE f[i] \in Seq(Nodes)
    <3>1. ASSUME NEW j \in Nodes, Below(j, i) PROVE f[j] \in Seq(Nodes)
      <4>1. flayer[j] = flayer[i] - 1 /\ flayer[i] \in Int
        BY <1>0, <3>1 DEF Below
      <4>2. flayer[j] <= m - 21
        BY <2>1, <4>1
      <4>3. QED
        BY <1>5, <4>2
    <3>2. Order(f, i) \in Seq(Nodes)
      BY <3>1, OrderHas
    <3>3. QED
      BY <1>3, <3>2
  <2>2. QED
    BY <2>1
<1> HIDE DEF T
<1>6. Nat \subseteq T
  BY <1>4, <1>5, Induction
<1>7. \A i \in Nodes : f[i] \in Seq(Nodes)
  <2>1. 41 \in T
    BY <1>6
  <2>2. \A i \in Nodes : flayer[i] <= 41 - 21
    BY <1>0
  <2>3. QED
    BY <2>1, <2>2 DEF T
<1>8. ASSUME NEW i \in Nodes
      PROVE  /\ Has(f[i], i)
             /\ \A j \in Nodes : Below(j, i) => \A x : Has(f[j], x) => Has(f[i], x)
  <2>1. /\ Has(Order(f, i), i)
        /\ \A j \in Nodes : Below(j, i) => \A x : Has(f[j], x) => Has(Order(f, i), x)
    BY <1>7, OrderHas
  <2>2. QED
    BY <1>3, <2>1
<1>9. f = [i \in Nodes |-> f[i]]
  BY <1>1, <1>2
<1>10. QED
  BY <1>2, <1>7, <1>8, <1>9

\* find_ref() comes to every node that walk() has kept.
LEMMA VisitsAll ==
  ASSUME Ground, Levels, Upward
  PROVE  Visits[dest] \in Seq(Nodes) /\ \A i \in Nodes : flayer[i] > 0 => Has(Visits[dest], i)
<1>0. /\ \A i \in Nodes : flayer[i] \in -20 .. 20
      /\ src \in Nodes /\ dest \in Nodes
  BY DEF Ground
<1>1. /\ Visits \in [Nodes -> Seq(Nodes)]
      /\ \A i \in Nodes : Has(Visits[i], i)
      /\ \A i, j \in Nodes : Below(j, i) => \A x : Has(Visits[j], x) => Has(Visits[i], x)
  BY VisitsTyped
<1>2. flayer[src] = 0 /\ \A i \in Nodes : i # dest => flayer[i] < flayer[dest]
  BY DEF Levels
<1> DEFINE T == {m \in Nat : \A i \in Nodes : flayer[i] > 0 /\ flayer[i] = flayer[dest] - m =>
                              \A x : Has(Visits[i], x) => Has(Visits[dest], x)}
<1>3. 0 \in T
  <2>1. ASSUME NEW i \in Nodes, flayer[i] = flayer[dest] - 0 PROVE i = dest
    <3>1. flayer[dest] \in Int
      BY <1>0
    <3>2. ~(flayer[i] < flayer[dest])
      BY <2>1, <3>1
    <3>3. QED
      BY <1>2, <3>2
  <2>2. QED
    BY <2>1
<1>4. ASSUME NEW m \in Nat, m \in T PROVE m + 1 \in T
  <2>1. ASSUME NEW j \in Nodes, flayer[j] > 0, flayer[j] = flayer[dest] - (m + 1), NEW x, Has(Visits[j], x)
        PROVE  Has(Visits[dest], x)
    <3>1. flayer[j] \in Int /\ flayer[dest] \in Int
      BY <1>0
    <3>2. j # dest /\ j # src
      BY <1>2, <2>1, <3>1
    <3>3. PICK i \in Nodes : flayer[i] = flayer[j] + 1 /\ Residual(j, i)
      BY <2>1, <3>2 DEF Upward
    <3>4. flayer[i] > 0 /\ flayer[i] = flayer[dest] - m /\ flayer[j] = flayer[i] - 1
      BY <2>1, <3>1, <3>3
    <3>5. Below(j, i)
      BY <3>2, <3>3, <3>4 DEF Below
    <3>6. Has(Visits[i], x)
      BY <1>1, <2>1, <3>5
    <3>7. QED
      BY <1>4, <3>4, <3>6
  <2>2. QED
    BY <2>1
<1> HIDE DEF T
<1>5. Nat \subseteq T
  BY <1>3, <1>4, Induction
<1>6. ASSUME NEW i \in Nodes, flayer[i] > 0 PROVE Has(Visits[dest], i)
  <2>1. flayer[i] \in Int /\ flayer[dest] \in Int /\ flayer[i] <= flayer[dest]
    BY <1>0, <1>2
  <2> DEFINE m == flayer[dest] - flayer[i]
  <2>2. m \in Nat /\ flayer[i] = flayer[dest] - m
    BY <2>1
  <2> HIDE DEF m
  <2>3. m \in T
    BY <1>5, <2>2
  <2>4. \A x : Has(Visits[i], x) => Has(Visits[dest], x)
    BY <1>6, <2>2, <2>3 DEF T
  <2>5. QED
    BY <1>1, <2>4
<1>7. QED
  BY <1>0, <1>1, <1>6

\* The potential is the smaller of the two.
LEMMA PotentialIs ==
  ASSUME Ground, Fits, NEW i \in Nodes
  PROVE  /\ Incap(i) \in Nat /\ Outcap(i) \in Nat /\ Potential(i) \in Nat
         /\ Potential(i) <= Incap(i) /\ Potential(i) <= Outcap(i)
BY CapsAre DEF Potential, Lesser

\* The source feeds the first layer, and with less than INFTY.
LEMMA SomeCandidate ==
  ASSUME Ground, Fits, AtEnds, Levels, NEW i \in Nodes, i # dest, flayer[i] = 1
  PROVE  i \in Candidates
<1> DEFINE S == {j \in Nodes : flayer[j] = flayer[i] - 1}
           f == [j \in S |-> fcap[j][i] - flow[j][i] + flow[i][j]]
<1>1. /\ src \in Nodes /\ INFTY \in Nat /\ fcap[src][i] \in 0 .. INFTY - 1
      /\ flow[src][i] \in Nat /\ flow[i][src] = 0
  BY DEF Ground, AtEnds
<1>2. S = {src}
  BY <1>1 DEF Levels
<1>3. Incap(i) = SumFunctionOnSet(f, S)
  BY DEF Incap, SumFunction
<1>4. f[src] = fcap[src][i] - flow[src][i] + flow[i][src]
  BY <1>2
<1>5. f[src] \in Int /\ f[src] < INFTY
  BY <1>1, <1>4
<1> HIDE DEF f
<1>6. SumFunctionOnSet(f, {src}) = f[src]
  <2>1. IsFiniteSet({src}) /\ src \in {src} /\ \A x \in {src} : x # src => f[x] = 0
    BY FS_Singleton
  <2>2. QED
    BY <1>5, <2>1, SumSingle
<1>7. Incap(i) < INFTY
  BY <1>2, <1>3, <1>5, <1>6
<1>8. Potential(i) < INFTY
  BY <1>1, <1>7, PotentialIs
<1>9. QED
  BY <1>8 DEF Candidates

\* The reference node: one walk() has kept, and none of these can take less.
Reference(i) ==
  /\ Between(i) /\ Potential(i) \in Nat /\ Potential(i) < INFTY
  /\ \A j \in Nodes : Between(j) => Potential(i) <= Potential(j)

\* find_ref() finds a node, and no other has less potential (ngraph.c:710-749).
LEMMA LeastIs ==
  ASSUME Ground, Fits, AtEnds, Levels, Upward, \E i \in Nodes : i # dest /\ flayer[i] = 1
  PROVE  Least # {} /\ Reference(FirstVisited(Least))
<1> DEFINE pots == {Potential(i) : i \in Candidates}
           V == Visits[dest]
           at == {n \in 1 .. Len(V) : V[n] \in Least}
           first == V[Min(at)]
<1>1. Candidates # {}
  BY SomeCandidate
<1>2. \A i \in Candidates : i \in Nodes /\ i # dest /\ flayer[i] > 0 /\ Potential(i) < INFTY
  BY DEF Candidates
<1>3. \A i \in Candidates : Potential(i) \in Nat
  BY <1>2, PotentialIs
<1>4. pots \subseteq Nat /\ pots # {}
  BY <1>1, <1>3
<1>5. \A i \in Candidates : Potential(i) \in pots
  OBVIOUS
<1>6. Min(pots) \in pots /\ \A x \in pots : Min(pots) <= x
  <2> HIDE DEF pots
  <2>1. QED
    BY <1>4, MinIs
<1>7. PICK i \in Candidates : Potential(i) = Min(pots)
  BY <1>6
<1>8. i \in Least
  BY <1>5, <1>6, <1>7 DEF Least
<1>9. \A j \in Least : /\ j \in Candidates
                       /\ \A x \in Candidates : Potential(j) <= Potential(x)
  BY DEF Least
<1>10. V \in Seq(Nodes) /\ \A j \in Nodes : flayer[j] > 0 => Has(V, j)
  BY VisitsAll
<1>11. Has(V, i)
  BY <1>2, <1>10
<1> HIDE DEF pots, V
<1>12. PICK n \in 1 .. Len(V) : V[n] = i
  BY <1>11 DEF Has
<1>13. n \in at /\ at \subseteq Nat
  BY <1>8, <1>12
<1>14. Min(at) \in at
  <2> HIDE DEF at
  <2>1. at # {}
    BY <1>13
  <2>2. QED
    BY <1>13, <2>1, MinIs
<1>15. first \in Least
  BY <1>14
<1>16. FirstVisited(Least) = first
  BY DEF FirstVisited, V
<1> HIDE DEF first
<1>17. ASSUME NEW j \in Nodes, Between(j) PROVE Potential(first) <= Potential(j)
  <2>1. CASE j \in Candidates
    BY <1>9, <1>15, <2>1
  <2>2. CASE j \notin Candidates
    <3>1. ~(Potential(j) < INFTY)
      BY <1>17, <2>2 DEF Between, Candidates
    <3>2. Potential(first) < INFTY /\ Potential(first) \in Nat /\ Potential(j) \in Nat /\ INFTY \in Nat
      BY <1>2, <1>3, <1>9, <1>15, PotentialIs DEF Ground
    <3>3. QED
      BY <3>1, <3>2
  <2>3. QED
    BY <2>1, <2>2
<1>18. Between(first) /\ Potential(first) \in Nat /\ Potential(first) < INFTY
  BY <1>2, <1>3, <1>9, <1>15 DEF Between
<1>19. Reference(first)
  BY <1>17, <1>18 DEF Reference
<1>20. QED
  BY <1>8, <1>16, <1>19

\* From the reference node a push can begin: every layer beyond has room for it.
LEMMA FindRefKeeps ==
  ASSUME Ground, Fits, AtEnds, Conserved, Levels, Upward, FindRef,
         \E i \in Nodes : i # dest /\ flayer[i] = 1
  PROVE  /\ Fits' /\ AtEnds' /\ Levels' /\ Calls' /\ Tried' /\ Pullable'
         /\ flow' \in [Nodes -> [Nodes -> Nat]] /\ stack' \in Seq(Call)
         /\ way' = 1 /\ frefnode' \in Nodes /\ fminpot' \in Nat /\ fminpot' <= INFTY
         /\ \E new : Moving(new)'
<1>1. /\ Least # {} => frefnode' = FirstVisited(Least) /\ fminpot' = Potential(frefnode')
      /\ way' = 1
      /\ stack' = <<[node |-> frefnode', flowleft |-> fminpot', j |-> -1]>>
      /\ UNCHANGED <<inputVars, mat, todo>> /\ UNCHANGED <<flow, flayer>>
  BY DEF FindRef
<1>2. Least # {} /\ Reference(FirstVisited(Least))
  BY LeastIs
<1>3. PICK ref, pot : ref = frefnode' /\ pot = fminpot' /\ ref = FirstVisited(Least) /\ pot = Potential(ref)
  BY <1>1, <1>2
<1>4. /\ ref \in Nodes /\ Between(ref) /\ pot \in Nat /\ pot < INFTY
      /\ \A j \in Nodes : Between(j) => pot <= Potential(j)
  BY <1>2, <1>3 DEF Reference, Between
<1>5. Nodes' = Nodes /\ src' = src /\ dest' = dest /\ fcap' = fcap
  BY <1>1, SamePair
<1>6. UNCHANGED <<inputVars, mat, todo, flow, flayer>>
  BY <1>1
<1>7. /\ Fits' /\ AtEnds' /\ Levels'
      /\ \A i : Net(i)' = Net(i) /\ Incap(i)' = Incap(i) /\ Outcap(i)' = Outcap(i)
      /\ \A i : Between(i)' <=> Between(i)
  BY <1>6, SameFlow
<1>8. \A j \in Nodes : Between(j) => pot <= Incap(j) /\ pot <= Outcap(j)
  <2>1. ASSUME NEW j \in Nodes, Between(j) PROVE pot <= Incap(j) /\ pot <= Outcap(j)
    <3>1. /\ Incap(j) \in Nat /\ Outcap(j) \in Nat /\ Potential(j) \in Nat
          /\ Potential(j) <= Incap(j) /\ Potential(j) <= Outcap(j)
      BY PotentialIs
    <3>2. pot <= Potential(j)
      BY <1>4, <2>1
    <3>3. QED
      BY <1>4, <3>1, <3>2
  <2>2. QED
    BY <2>1
<1>9. \A i : Level(i)' = flayer[i]
  BY <1>1 DEF Level
<1>10. \A i \in Nodes : flayer[i] \in Int
  BY LevelIs
<1>11. /\ Len(stack') = 1 /\ stack'[1].node = ref /\ stack'[1].flowleft = pot /\ stack'[1].j = -1
       /\ stack' # <<>>
  BY <1>1, <1>3
<1>12. stack' \in Seq(Call)
  BY <1>1, <1>3, <1>4 DEF Call
<1>13. Calls'
  <2>1. flayer[ref] = flayer[ref] + 1 - 1
    BY <1>4, <1>10
  <2>2. ASSUME NEW x \in 1 .. Len(stack')
        PROVE  Between(stack'[x].node) /\ flayer[stack'[x].node] = flayer[ref] + Len(stack') - x
    BY <1>4, <1>11, <2>1
  <2>3. QED
    BY <1>1, <1>3, <1>5, <1>11, <2>2 DEF Calls, Between, Level
<1>14. Tried'
  <2>1. \A j \in Nodes : ~(j <= -1)
    BY DEF Nodes
  <2>2. \A x \in 1 .. Len(stack') : \A j \in Nodes : ~(j <= stack'[x].j)
    BY <1>11, <2>1
  <2>3. QED
    BY <1>5, <2>2 DEF Tried
<1>15. Pullable'
  BY <1>3, <1>5, <1>7, <1>8 DEF Pullable
<1>16. PICK it : it = [i \in Nodes |-> IF i = ref THEN pot ELSE 0]
  OBVIOUS
<1>17. it \in [Nodes -> Nat] /\ \A i \in Nodes : it[i] = IF i = ref THEN pot ELSE 0
  BY <1>4, <1>16
<1>18. Held(it)'
  <2>1. \A x \in 1 .. Len(stack') : it[stack'[x].node] = stack'[x].flowleft
    BY <1>4, <1>11, <1>17
  <2>2. ASSUME NEW i \in Nodes, \A x \in 1 .. Len(stack') : stack'[x].node # i PROVE it[i] = 0
    <3>1. i # ref
      BY <1>11, <2>2
    <3>2. QED
      BY <1>17, <3>1
  <2>3. QED
    BY <1>5, <1>17, <2>1, <2>2 DEF Held
<1>19. Balanced(it)'
  <2>1. ASSUME NEW i \in Nodes \ {src, dest} PROVE Net(i) = it[i] - (IF i = ref THEN pot ELSE 0)
    <3>1. Net(i) = 0
      BY DEF Conserved
    <3>2. it[i] = (IF i = ref THEN pot ELSE 0) /\ it[i] \in Nat
      BY <1>17
    <3>3. QED
      BY <3>1, <3>2
  <2>2. \A i : Flux(i)' = Net(i) /\ Owed(i)' = IF i = ref THEN pot ELSE 0
    BY <1>1, <1>3, <1>7 DEF Flux, Owed
  <2>3. QED
    BY <1>5, <2>1, <2>2 DEF Balanced
<1>20. Roomy(it)'
  <2>1. \A i : AllRoom(i)' = Outcap(i)
    BY <1>1, <1>7 DEF AllRoom
  <2>2. ASSUME NEW i \in Nodes, Between(i) PROVE Waiting(i, it)' <= Outcap(i)
    <3> DEFINE S == {n \in Nodes : n = i \/ flayer[n] < flayer[i]}
    <3>1. Waiting(i, it)' = SumFunctionOnSet(it, S)
      BY <1>5, <1>9 DEF Waiting, Behind
    <3>2. IsFiniteSet(S) /\ S \subseteq Nodes
      <4>1. IsFiniteSet(Nodes)
        <5>1. numnodes \in Nat
          BY DEF Ground
        <5>2. QED
          BY <5>1, NodesAre
      <4>2. S \subseteq Nodes
        OBVIOUS
      <4>3. QED
        BY <4>1, <4>2, FS_Subset
    <3>3. Outcap(i) \in Nat /\ pot <= Outcap(i)
      BY <1>8, <2>2, PotentialIs
    <3> HIDE DEF S
    <3>4. CASE ref \in S
      <4>1. SumFunctionOnSet(it, S) = it[ref]
        BY <1>4, <1>17, <3>2, <3>4, SumSingle
      <4>2. QED
        BY <1>4, <1>17, <3>1, <3>3, <4>1
    <3>5. CASE ref \notin S
      <4>1. \A n \in S : it[n] = 0
        BY <1>17, <3>2, <3>5
      <4>2. SumFunctionOnSet(it, S) = 0
        BY <3>2, <4>1, SumNothing
      <4>3. QED
        BY <3>1, <3>3, <4>2
    <3>6. QED
      BY <3>4, <3>5
  <2>3. QED
    BY <1>5, <1>7, <2>1, <2>2 DEF Roomy
<1>21. Moving(it)'
  BY <1>18, <1>19, <1>20 DEF Moving
<1>22. flow' \in [Nodes -> [Nodes -> Nat]]
  BY <1>1 DEF Ground
<1>23. frefnode' \in Nodes /\ fminpot' \in Nat /\ fminpot' <= INFTY
  <2>1. INFTY \in Nat
    BY DEF Ground
  <2>2. QED
    BY <1>3, <1>4, <2>1
<1>24. QED
  BY <1>1, <1>7, <1>12, <1>13, <1>14, <1>15, <1>21, <1>22, <1>23

(***************************************************************************)
(* layer_net()                                                             *)
(***************************************************************************)

\* Only the arc from source to destination, when there is one, has a flow.
LEMMA FlowStarts ==
  ASSUME Ground, NEW new, new = [i \in Nodes |-> [j \in Nodes |->
                                   IF i = src /\ j = dest THEN fcap[i][j] ELSE 0]]
  PROVE  /\ new \in [Nodes -> [Nodes -> Nat]]
         /\ \A i, j \in Nodes : new[i][j] = IF i = src /\ j = dest THEN fcap[i][j] ELSE 0
<1>1. fcap \in [Nodes -> [Nodes -> 0 .. INFTY - 1]] /\ INFTY \in Nat
  BY DEF Ground
<1>2. \A i, j \in Nodes : fcap[i][j] \in Nat
  BY <1>1
<1>3. QED
  BY <1>2

\* The first flow is the one arc from source to destination (ngraph.c:811-837).
LEMMA MaxFlowKeeps ==
  ASSUME Ground, MaxFlow
  PROVE  /\ Fits' /\ AtEnds' /\ Conserved'
         /\ flow' \in [Nodes -> [Nodes -> Nat]]
<1>1. /\ UNCHANGED <<inputVars, mat, todo>>
      /\ flow' = [i \in Nodes |-> [j \in Nodes |-> IF i = src /\ j = dest THEN fcap[i][j] ELSE 0]]
  BY DEF MaxFlow
<1>2. Nodes' = Nodes /\ src' = src /\ dest' = dest /\ fcap' = fcap
  BY <1>1, SamePair
<1>3. PICK new : new = flow'
  OBVIOUS
<1>4. /\ new \in [Nodes -> [Nodes -> Nat]]
      /\ \A i, j \in Nodes : new[i][j] = IF i = src /\ j = dest THEN fcap[i][j] ELSE 0
  BY <1>1, <1>3, FlowStarts
<1>5. \A i, j \in Nodes : fcap[i][j] \in Nat
  <2>1. fcap \in [Nodes -> [Nodes -> 0 .. INFTY - 1]] /\ INFTY \in Nat
    BY DEF Ground
  <2>2. QED
    BY <2>1
<1>6. src \in Nodes /\ dest \in Nodes /\ src # dest
  BY DEF Ground
<1>7. Fits'
  <2>1. \A i, j \in Nodes : new[i][j] <= fcap[i][j] /\ (new[i][j] = 0 \/ new[j][i] = 0)
    BY <1>4, <1>5, <1>6
  <2>2. QED
    BY <1>2, <1>3, <2>1 DEF Fits
<1>8. AtEnds'
  <2>1. /\ \A i \in Nodes : new[i][src] = 0
        /\ new[src][dest] = fcap[src][dest]
    BY <1>4, <1>6
  <2>2. QED
    BY <1>2, <1>3, <2>1 DEF AtEnds
<1>9. Conserved'
  <2>1. ASSUME NEW i \in Nodes \ {src, dest}
        PROVE  SumFunctionOnSet([j \in Nodes |-> new[j][i] - new[i][j]], Nodes) = 0
    <3>1. \A j \in Nodes : new[j][i] - new[i][j] = 0
      BY <1>4
    <3>2. IsFiniteSet(Nodes)
      <4>1. numnodes \in Nat
        BY DEF Ground
      <4>2. QED
        BY <4>1, NodesAre
    <3> DEFINE f == [j \in Nodes |-> new[j][i] - new[i][j]]
    <3>3. \A j \in Nodes : f[j] = 0
      BY <3>1
    <3> HIDE DEF f
    <3>4. SumFunctionOnSet(f, Nodes) = 0
      BY <3>2, <3>3, SumNothing
    <3>5. QED
      BY <3>4 DEF f
  <2>2. QED
    BY <1>2, <1>3, <2>1 DEF Conserved, Net
<1>10. QED
  BY <1>3, <1>4, <1>7, <1>8, <1>9

\* Before the first layer is looked for, only the source has a label.
LEMMA LayerNetKeeps ==
  ASSUME Ground, LayerNet
  PROVE  /\ k' = 0 /\ flayer' \in [Nodes -> {0, UNSCANNED}]
         /\ Layered(0)' /\ Filled(0)' /\ Closed(0)' /\ (flayer[dest])' = UNSCANNED
<1>1. /\ UNCHANGED <<inputVars, mat, todo, flow>> /\ k' = 0
      /\ flayer' = [j \in Nodes |-> IF j = src THEN 0 ELSE UNSCANNED]
  BY DEF LayerNet
<1>2. Nodes' = Nodes /\ src' = src /\ dest' = dest /\ fcap' = fcap
  BY <1>1, SamePair
<1>3. PICK new : new = flayer'
  OBVIOUS
<1>4. src \in Nodes /\ dest \in Nodes /\ src # dest
  BY DEF Ground
<1>5. new \in [Nodes -> {0, UNSCANNED}] /\ \A j \in Nodes : new[j] = IF j = src THEN 0 ELSE UNSCANNED
  BY <1>1, <1>3
<1>6. Layered(0)'
  <2>1. \A i \in Nodes : new[i] = UNSCANNED \/ new[i] \in -0 .. 0
    BY <1>5
  <2>2. new[src] = 0 /\ \A i \in Nodes : new[i] = 0 => i = src
    BY <1>4, <1>5 DEF UNSCANNED
  <2>3. \A j \in Nodes : ~(new[j] # UNSCANNED /\ j # src)
    BY <1>5
  <2>4. QED
    BY <1>2, <1>3, <2>1, <2>2, <2>3 DEF Layered
<1>7. Filled(0)'
  <2>1. \A m \in 0 .. 0 : new[src] = -m
    BY <1>4, <1>5
  <2>2. QED
    BY <1>2, <1>3, <1>4, <2>1 DEF Filled
<1>8. Closed(0)'
  <2>1. \A i \in Nodes : ~(new[i] # UNSCANNED /\ -0 < new[i])
    BY <1>5
  <2>2. QED
    BY <1>2, <1>3, <2>1 DEF Closed
<1>9. (flayer[dest])' = UNSCANNED
  BY <1>2, <1>3, <1>4, <1>5
<1>10. QED
  BY <1>1, <1>3, <1>5, <1>6, <1>7, <1>8, <1>9

\* Each of the layers has a node, and the destination is in none.
LEMMA LayersFew ==
  ASSUME Ground, NEW n \in Nat, Filled(n), flayer[dest] = UNSCANNED, n < 20
  PROVE  n + 2 <= numnodes
<1> DEFINE A(m) == {i \in Nodes : flayer[i] \in -m .. 0}
           T == {m \in Nat : m <= n => Cardinality(A(m)) >= m + 1}
<1>1. numnodes \in Nat /\ dest \in Nodes /\ \A i \in Nodes : flayer[i] \in Int
  <2>1. flayer \in [Nodes -> -20 .. 20]
    BY DEF Ground
  <2>2. \A i \in Nodes : flayer[i] \in Int
    BY <2>1
  <2>3. numnodes \in Nat /\ dest \in Nodes
    BY DEF Ground
  <2>4. QED
    BY <2>2, <2>3
<1>2. \A m \in Nat : A(m) \subseteq Nodes
  OBVIOUS
<1>3. \A m \in Nat : m <= n => \E i \in Nodes : flayer[i] = -m
  BY DEF Filled
<1>4. ASSUME NEW m \in Nat, m <= n, NEW i \in Nodes, flayer[i] = -m PROVE i \in A(m)
  BY <1>4
<1>5. ASSUME NEW S, S \subseteq Nodes PROVE Cardinality(S) \in 0 .. numnodes
  BY <1>1, <1>5, CountIs
<1>6. 0 \in T
  <2>1. PICK i \in Nodes : flayer[i] = 0
    BY <1>3
  <2>2. i \in A(0)
    BY <1>4, <2>1
  <2>3. A(0) \subseteq Nodes
    OBVIOUS
  <2> HIDE DEF A
  <2>4. Cardinality(A(0)) # 0
    <3>1. IsFiniteSet(Nodes)
      BY <1>1, NodesAre
    <3>2. IsFiniteSet(A(0))
      BY <2>3, <3>1, FS_Subset
    <3>3. QED
      BY <2>2, <3>2, FS_EmptySet
  <2>5. Cardinality(A(0)) \in 0 .. numnodes
    BY <1>5, <2>3
  <2>6. QED
    BY <1>1, <2>4, <2>5
<1>7. ASSUME NEW m \in Nat, m \in T PROVE m + 1 \in T
  <2> SUFFICES ASSUME m + 1 <= n PROVE Cardinality(A(m + 1)) >= m + 2
    OBVIOUS
  <2>1. Cardinality(A(m)) >= m + 1
    BY <1>7
  <2>2. PICK i \in Nodes : flayer[i] = -(m + 1)
    BY <1>3
  <2>3. i \notin A(m)
    BY <2>2
  <2>4. i \in A(m + 1)
    BY <1>4, <2>2
  <2>5. A(m) \cup {i} \subseteq A(m + 1)
    BY <1>1, <2>4
  <2>6. A(m) \subseteq Nodes /\ A(m + 1) \subseteq Nodes /\ IsFiniteSet(Nodes)
    BY <1>1, NodesAre
  <2> HIDE DEF A
  <2>7. Cardinality(A(m) \cup {i}) = Cardinality(A(m)) + 1
    BY <1>1, <2>3, <2>6, CountIs
  <2>8. Cardinality(A(m) \cup {i}) <= Cardinality(A(m + 1))
    BY <2>5, <2>6, FS_Subset
  <2>9. Cardinality(A(m)) \in Nat /\ Cardinality(A(m + 1)) \in Nat
    BY <1>1, <1>5, <2>6
  <2>10. QED
    BY <2>1, <2>7, <2>8, <2>9
<1>8. n \in T
  <2> HIDE DEF T
  <2>1. QED
    BY <1>6, <1>7, Induction
<1>9. Cardinality(A(n)) >= n + 1
  BY <1>8
<1>10. dest \notin A(n)
  BY DEF UNSCANNED
<1> HIDE DEF A
<1>11. Cardinality(A(n)) + 1 \in 0 .. numnodes
  BY <1>1, <1>2, <1>10, CountIs
<1>12. Cardinality(A(n)) \in Nat
  BY <1>1, <1>2, <1>5
<1>13. QED
  BY <1>1, <1>9, <1>11, <1>12

\* The next layer: the nodes that the last one leads on to.
LEMMA NextLayerIs ==
  ASSUME Ground, k \in Nat, NEW j
  PROVE  j \in NextLayer <=> /\ j \in Nodes /\ flayer[j] = UNSCANNED
                            /\ \E i \in Nodes : flayer[i] = -k /\ Residual(i, j)
<1>1. \A i \in Nodes : flayer[i] \in Int
  <2>1. flayer \in [Nodes -> -20 .. 20]
    BY DEF Ground
  <2>2. QED
    BY <2>1
<1>2. \A i \in Nodes : Residual(i, j) => (flayer[i] = -k <=> -flayer[i] = k)
  BY <1>1, k \in Nat
<1>3. (\E i \in Nodes : -flayer[i] = k /\ Residual(i, j))
        <=> \E i \in Nodes : flayer[i] = -k /\ Residual(i, j)
  BY <1>2, Zenon
<1>4. QED
  BY <1>3, Zenon DEF NextLayer

\* One turn of layer_net()'s loop: which nodes it labels.
LEMMA ScanLabels ==
  ASSUME Ground, k \in Nat, Layered(k), Filled(k), flayer[dest] = UNSCANNED, Scan
  PROVE  /\ k < 19 /\ k' = k + 1 /\ k' <= numnodes
         /\ \A j \in Nodes : /\ flayer[j] = UNSCANNED \/ flayer[j] \in -k .. 0
                             /\ flayer'[j] = IF j \in NextLayer THEN -(k + 1) ELSE flayer[j]
                             /\ j \in NextLayer => flayer[j] = UNSCANNED
         /\ flayer' \in [Nodes -> Int]
         /\ Nodes' = Nodes /\ src' = src /\ dest' = dest /\ fcap' = fcap
         /\ \A i, j : Residual(i, j)' <=> Residual(i, j)
<1>1. /\ UNCHANGED <<inputVars, mat, todo, flow>> /\ k' = k + 1
      /\ flayer' = [j \in Nodes |-> IF j \in NextLayer THEN -(k + 1) ELSE flayer[j]]
  BY DEF Scan
<1>2. Nodes' = Nodes /\ src' = src /\ dest' = dest /\ fcap' = fcap
  BY <1>1, SamePair
<1>3. \A i, j : Residual(i, j)' <=> Residual(i, j)
  BY <1>1, <1>2 DEF Residual
<1>4. \A j \in Nodes : flayer[j] = UNSCANNED \/ flayer[j] \in -k .. 0
  BY DEF Layered
<1>5. \A j \in Nodes : j \in NextLayer => flayer[j] = UNSCANNED
  BY NextLayerIs
<1>6. \A i \in Nodes : flayer[i] \in -20 .. 20
  BY DEF Ground
<1>7. k <= 20
  <2>1. PICK i \in Nodes : flayer[i] = -k
    BY DEF Filled
  <2>2. QED
    BY <1>6, <2>1
<1>8. k # 20
  <2> SUFFICES ASSUME k = 20 PROVE FALSE
    OBVIOUS
  <2>1. Filled(18)
    BY DEF Filled
  <2>2. 18 + 2 <= numnodes
    BY <2>1, LayersFew
  <2>3. Filled(19)
    BY DEF Filled
  <2>4. 19 + 2 <= numnodes
    BY <2>3, LayersFew
  <2>5. QED
    BY <2>4 DEF Ground
<1>9. k + 2 <= numnodes
  BY <1>7, <1>8, LayersFew
<1>10. numnodes <= 20 /\ numnodes \in Nat
  BY DEF Ground
<1>11. k < 19 /\ k' <= numnodes
  BY <1>1, <1>9, <1>10
<1>12. flayer' \in [Nodes -> Int]
  BY <1>1, <1>6
<1>13. \A j \in Nodes : flayer'[j] = IF j \in NextLayer THEN -(k + 1) ELSE flayer[j]
  BY <1>1
<1>14. QED
  BY <1>1, <1>2, <1>3, <1>4, <1>5, <1>11, <1>12, <1>13

\* After a turn of layer_net(): another layer, the destination, or no way on.
Scanned ==
  /\ place' = "scan" => Layered(k)' /\ Filled(k)' /\ Closed(k)' /\ (flayer[dest] = UNSCANNED)'
  /\ place' = "walk" => /\ Layered(k)'
                        /\ (flayer[dest] = UNSCANNED => Closed(k + 1))'
                        /\ (flayer[dest] # UNSCANNED => flayer[dest] = -k)'

\* One turn of layer_net()'s loop adds a layer (ngraph.c:666-682).
LEMMA ScanKeeps ==
  ASSUME Ground, k \in Nat, Layered(k), Filled(k), Closed(k), flayer[dest] = UNSCANNED, Scan
  PROVE  Scanned
<1>1. /\ k < 19 /\ k' = k + 1 /\ k' <= numnodes
      /\ \A j \in Nodes : /\ flayer[j] = UNSCANNED \/ flayer[j] \in -k .. 0
                          /\ flayer'[j] = IF j \in NextLayer THEN -(k + 1) ELSE flayer[j]
                          /\ j \in NextLayer => flayer[j] = UNSCANNED
      /\ flayer' \in [Nodes -> Int]
      /\ Nodes' = Nodes /\ src' = src /\ dest' = dest /\ fcap' = fcap
      /\ \A i, j : Residual(i, j)' <=> Residual(i, j)
  BY ScanLabels
<1>2. \A j : j \in NextLayer <=> /\ j \in Nodes /\ flayer[j] = UNSCANNED
                                 /\ \E i \in Nodes : flayer[i] = -k /\ Residual(i, j)
  BY NextLayerIs
<1>3. PICK new, L, n : new = flayer' /\ L = NextLayer /\ n = k + 1
  OBVIOUS
<1>4. k \in Nat /\ n \in 1 .. 19 /\ n = k + 1 /\ k' = n
  BY <1>1, <1>3
<1>5. \A j \in Nodes : /\ flayer[j] = -20 \/ flayer[j] \in -k .. 0
                       /\ new[j] = IF j \in L THEN -n ELSE flayer[j]
                       /\ j \in L => flayer[j] = -20
  BY <1>1, <1>3 DEF UNSCANNED
<1>6. \A j \in Nodes : flayer[j] \in Int /\ new[j] \in Int
  BY <1>4, <1>5
<1>7. \A j \in Nodes : /\ j \in L => new[j] = -n /\ new[j] # -20
                       /\ new[j] = -20 => j \notin L /\ flayer[j] = -20
                       /\ flayer[j] # -20 => new[j] = flayer[j] /\ j \notin L
  BY <1>4, <1>5
<1>8. src \in Nodes /\ dest \in Nodes /\ flayer[src] = 0 /\ \A i \in Nodes : flayer[i] = 0 => i = src
  BY DEF Ground, Layered
<1>9. Layered(k)'
  <2>1. \A i \in Nodes : new[i] = -20 \/ new[i] \in -n .. 0
    BY <1>4, <1>5
  <2>2. new[src] = 0
    BY <1>7, <1>8
  <2>3. \A i \in Nodes : new[i] = 0 => i = src
    BY <1>4, <1>5, <1>8
  <2>4. ASSUME NEW j \in Nodes, new[j] # -20, j # src
        PROVE  \E i \in Nodes : new[i] = new[j] + 1 /\ Residual(i, j)
    <3>1. CASE j \in L
      <4>1. PICK i \in Nodes : flayer[i] = -k /\ Residual(i, j)
        BY <1>2, <1>3, <3>1
      <4>2. new[i] = -k
        BY <1>4, <1>7, <4>1
      <4>3. new[i] = new[j] + 1
        BY <1>4, <1>7, <3>1, <4>2
      <4>4. QED
        BY <4>1, <4>3
    <3>2. CASE j \notin L
      <4>1. new[j] = flayer[j] /\ flayer[j] # UNSCANNED
        BY <1>5, <2>4, <3>2 DEF UNSCANNED
      <4>2. PICK i \in Nodes : flayer[i] = flayer[j] + 1 /\ Residual(i, j)
        BY <2>4, <4>1 DEF Layered
      <4>3. flayer[i] # -20
        BY <1>4, <1>5, <2>4, <4>1, <4>2
      <4>4. QED
        BY <1>7, <4>1, <4>2, <4>3
    <3>3. QED
      BY <3>1, <3>2
  <2>5. \A j \in Nodes : new[j] # UNSCANNED /\ j # src =>
          \E i \in Nodes : new[i] = new[j] + 1 /\ Residual(i, j)'
    BY <1>1, <2>4 DEF UNSCANNED
  <2>6. \A i \in Nodes : new[i] = UNSCANNED \/ new[i] \in -n .. 0
    BY <2>1 DEF UNSCANNED
  <2>7. QED
    BY <1>1, <1>3, <1>4, <2>2, <2>3, <2>5, <2>6 DEF Layered
<1>10. ASSUME NEW i \in Nodes, NEW j \in Nodes, new[i] # -20, -n < new[i], new[j] = -20
       PROVE  ~Residual(i, j)
  <2>1. j \notin L /\ flayer[j] = UNSCANNED
    BY <1>7, <1>10 DEF UNSCANNED
  <2>2. flayer[i] = new[i] /\ flayer[i] # UNSCANNED /\ flayer[i] >= -k
    BY <1>4, <1>5, <1>10 DEF UNSCANNED
  <2>3. CASE flayer[i] = -k
    BY <1>2, <1>3, <2>1, <2>3
  <2>4. CASE flayer[i] # -k
    <3>1. -k < flayer[i]
      BY <1>4, <1>6, <2>2, <2>4
    <3>2. QED
      BY <2>1, <2>2, <3>1 DEF Closed
  <2>5. QED
    BY <2>3, <2>4
<1>11. Closed(k)'
  <2>1. \A i, j \in Nodes : new[i] # UNSCANNED /\ -n < new[i] /\ new[j] = UNSCANNED
                              => ~Residual(i, j)'
    BY <1>1, <1>10 DEF UNSCANNED
  <2>2. QED
    BY <1>1, <1>3, <1>4, <2>1 DEF Closed
<1>12. place' = IF dest \in L \/ L = {} THEN "walk" ELSE "scan"
  BY <1>3 DEF Scan
<1>13. ASSUME place' = "scan" PROVE Filled(k)' /\ (flayer[dest] = UNSCANNED)'
  <2>1. dest \notin L /\ L # {}
    BY <1>12, <1>13
  <2>2. ASSUME NEW m \in 0 .. n PROVE \E i \in Nodes : new[i] = -m
    <3>1. CASE m = n
      <4>1. PICK j : j \in L
        BY <2>1
      <4>2. j \in Nodes
        BY <1>2, <1>3, <4>1
      <4>3. QED
        BY <1>7, <3>1, <4>1, <4>2
    <3>2. CASE m # n
      <4>1. m \in 0 .. k
        BY <1>4, <3>2
      <4>2. PICK i \in Nodes : flayer[i] = -m
        BY <4>1 DEF Filled
      <4>3. flayer[i] # -20
        BY <1>4, <4>1, <4>2
      <4>4. QED
        BY <1>7, <4>2, <4>3
    <3>3. QED
      BY <3>1, <3>2
  <2>3. Filled(k)'
    BY <1>1, <1>3, <1>4, <2>2 DEF Filled
  <2>4. new[dest] = UNSCANNED
    BY <1>5, <1>8, <2>1
  <2>5. QED
    BY <1>1, <1>3, <2>3, <2>4
<1>14. ASSUME place' = "walk" PROVE (flayer[dest] = UNSCANNED => Closed(k + 1))'
  <2> SUFFICES ASSUME new[dest] = UNSCANNED PROVE Closed(k + 1)'
    BY <1>1, <1>3
  <2>1. L = {}
    <3>1. dest \notin L
      BY <1>7, <1>8 DEF UNSCANNED
    <3>2. QED
      BY <1>12, <1>14, <3>1
  <2>2. \A i \in Nodes : new[i] # -20 => -n < new[i]
    BY <1>4, <1>5, <2>1
  <2>3. \A i, j \in Nodes : new[i] # UNSCANNED /\ -(n + 1) < new[i] /\ new[j] = UNSCANNED
                              => ~Residual(i, j)'
    BY <1>1, <1>10, <2>2 DEF UNSCANNED
  <2>4. QED
    BY <1>1, <1>3, <1>4, <2>3 DEF Closed
<1>15. ASSUME place' = "walk" PROVE (flayer[dest] # UNSCANNED => flayer[dest] = -k)'
  <2> SUFFICES ASSUME new[dest] # UNSCANNED PROVE new[dest] = -n
    BY <1>1, <1>3, <1>4
  <2>1. dest \in L
    BY <1>5, <1>8
  <2>2. QED
    BY <1>7, <1>8, <2>1
<1>16. QED
  BY <1>9, <1>11, <1>13, <1>14, <1>15 DEF Scanned

(***************************************************************************)
(* walk()                                                                  *)
(***************************************************************************)
\* The nodes of layer k - n that lead on to a node kept in the layer above.
Leading(above, n) ==
  {j \in Nodes \ {src} : /\ flayer[j] = n - k
                         /\ \E i \in above : flayer[i] = n - k - 1 /\ Residual(j, i)}
Down(N, f) ==
  f = [n \in 0 .. N |-> IF n = 0 THEN {dest}
                        ELSE LET above == f[n - 1] IN above \cup Leading(above, n)]

\* There is such a function for any number of layers.
LEMMA DownExists ==
  ASSUME NEW N \in Nat
  PROVE  \E f : Down(N, f)
<1> DEFINE T == {m \in Nat : \E f : Down(m, f)}
           on(above, n) == above \cup Leading(above, n)
<1>1. 0 \in T
  <2>1. Down(0, [n \in 0 .. 0 |-> {dest}])
    BY DEF Down
  <2>2. QED
    BY <2>1
<1>2. ASSUME NEW m \in Nat, m \in T PROVE m + 1 \in T
  <2>1. PICK f : Down(m, f)
    BY <1>2
  <2>2. f = [n \in 0 .. m |-> IF n = 0 THEN {dest} ELSE on(f[n - 1], n)]
    BY <2>1 DEF Down
  <2> HIDE DEF on
  <2> DEFINE g == [n \in 0 .. m + 1 |-> IF n = 0 THEN {dest} ELSE on(f[n - 1], n)]
  <2>3. ASSUME NEW n \in 0 .. m PROVE g[n] = f[n]
    <3>1. f[n] = IF n = 0 THEN {dest} ELSE on(f[n - 1], n)
      BY <2>2
    <3>2. n \in 0 .. m + 1
      OBVIOUS
    <3>3. QED
      BY <3>1, <3>2
  <2>4. ASSUME NEW n \in 0 .. m + 1, n # 0 PROVE g[n] = on(g[n - 1], n)
    <3>1. n - 1 \in 0 .. m
      BY <2>4
    <3>2. g[n - 1] = f[n - 1]
      BY <2>3, <3>1
    <3>3. QED
      BY <2>4, <3>2
  <2>5. g = [n \in 0 .. m + 1 |-> IF n = 0 THEN {dest} ELSE on(g[n - 1], n)]
    BY <2>4
  <2> HIDE DEF g
  <2>6. Down(m + 1, g)
    BY <2>5 DEF Down, on
  <2>7. QED
    BY <2>6
<1> HIDE DEF T
<1>3. Nat \subseteq T
  BY <1>1, <1>2, Induction
<1>4. QED
  BY <1>3 DEF T

\* Walked is what it has after the last.
LEMMA WalkedIs ==
  ASSUME k \in Nat, k >= 1
  PROVE  \E f : Down(k - 1, f) /\ Walked = f[k - 1]
<1> DEFINE f == CHOOSE f : Down(k - 1, f)
<1>1. Walked = f[k - 1]
  BY DEF Walked, Down, Leading
<1>2. Down(k - 1, f)
  <2>1. k - 1 \in Nat
    OBVIOUS
  <2>2. \E g : Down(k - 1, g)
    BY <2>1, DownExists
  <2>3. QED
    BY <2>2
<1>3. QED
  BY <1>1, <1>2

\* What walk() has kept down to layer k - n: each node but the destination
\* leads on to one of the layer above.
Kept(W, n) ==
  /\ W \subseteq Nodes /\ dest \in W /\ src \notin W
  /\ \A j \in W : j # dest =>
       /\ -k < flayer[j] /\ flayer[j] <= n - k
       /\ \E i \in W : flayer[i] = flayer[j] - 1 /\ Residual(j, i)
  /\ \E i \in W : flayer[i] = n - k

\* One layer more of walk().
LEMMA KeptMore ==
  ASSUME Ground, k \in Nat, Layered(k), flayer[dest] = -k, k < 20,
         NEW n \in Nat, n + 1 < k, NEW W, Kept(W, n)
  PROVE  Kept(W \cup Leading(W, n + 1), n + 1)
<1> DEFINE L == Leading(W, n + 1)
           U == W \cup L
           m == n + 1
<1>1. /\ W \subseteq Nodes /\ dest \in W /\ src \notin W
      /\ \A j \in W : j # dest =>
           /\ -k < flayer[j] /\ flayer[j] <= n - k
           /\ \E i \in W : flayer[i] = flayer[j] - 1 /\ Residual(j, i)
      /\ \E i \in W : flayer[i] = n - k
  BY DEF Kept
<1>2. m \in Nat /\ m = n + 1 /\ m < k /\ m - k - 1 = n - k
  OBVIOUS
<1>3. \A j : j \in L <=> /\ j \in Nodes \ {src} /\ flayer[j] = m - k
                         /\ \E i \in W : flayer[i] = m - k - 1 /\ Residual(j, i)
  BY DEF Leading
<1> HIDE DEF L, m
<1>4. \A i \in Nodes : flayer[i] \in Int
  BY LevelIs
<1>5. U \subseteq Nodes /\ dest \in U /\ src \notin U
  BY <1>1, <1>3
<1>6. ASSUME NEW j \in U, j # dest
      PROVE  /\ -k < flayer[j] /\ flayer[j] <= m - k
             /\ \E i \in U : flayer[i] = flayer[j] - 1 /\ Residual(j, i)
  <2>1. CASE j \in W
    <3>1. -k < flayer[j] /\ flayer[j] <= n - k /\ j \in Nodes
      BY <1>1, <1>6, <2>1
    <3>2. flayer[j] <= m - k
      BY <1>2, <1>4, <3>1
    <3>3. PICK i \in W : flayer[i] = flayer[j] - 1 /\ Residual(j, i)
      BY <1>1, <1>6, <2>1
    <3>4. QED
      BY <3>1, <3>2, <3>3
  <2>2. CASE j \in L
    <3>1. flayer[j] = m - k
      BY <1>3, <2>2
    <3>2. PICK i \in W : flayer[i] = m - k - 1 /\ Residual(j, i)
      BY <1>3, <2>2
    <3>3. QED
      BY <1>2, <3>1, <3>2
  <2>3. QED
    BY <1>6, <2>1, <2>2
<1>7. \E j \in U : flayer[j] = m - k
  <2>1. PICK i \in W : flayer[i] = n - k
    BY <1>1
  <2>2. i \in Nodes /\ flayer[i] # UNSCANNED /\ i # src
    BY <1>1, <1>2, <2>1 DEF UNSCANNED
  <2>3. PICK j \in Nodes : flayer[j] = flayer[i] + 1 /\ Residual(j, i)
    BY <2>2 DEF Layered
  <2>4. flayer[j] = m - k /\ flayer[j] # 0 /\ flayer[i] = m - k - 1
    BY <1>2, <2>1, <2>3
  <2>5. j # src
    BY <2>4 DEF Layered
  <2>6. j \in L
    BY <1>3, <2>1, <2>3, <2>4, <2>5
  <2>7. QED
    BY <2>4, <2>6
<1> HIDE DEF U
<1>8. QED
  BY <1>5, <1>6, <1>7 DEF Kept, U, L, m

\* walk() keeps nodes that have an arc on, down to the source (ngraph.c:622-646).
LEMMA WalkedKept ==
  ASSUME Ground, k \in Nat, k >= 1, k < 20, Layered(k), flayer[dest] = -k
  PROVE  Kept(Walked, k - 1)
<1>1. PICK f : Down(k - 1, f) /\ Walked = f[k - 1]
  BY WalkedIs
<1> DEFINE T == {n \in Nat : n <= k - 1 => Kept(f[n], n)}
<1>2. f[0] = {dest}
  BY <1>1 DEF Down
<1>3. ASSUME NEW n \in Nat, n + 1 <= k - 1
      PROVE  f[n + 1] = f[n] \cup Leading(f[n], n + 1)
  <2>1. n + 1 \in 0 .. k - 1 /\ n + 1 # 0 /\ (n + 1) - 1 = n
    BY <1>3
  <2>2. f[n + 1] = IF n + 1 = 0 THEN {dest}
                   ELSE f[(n + 1) - 1] \cup Leading(f[(n + 1) - 1], n + 1)
    BY <1>1, <2>1, Zenon DEF Down
  <2>3. QED
    BY <2>1, <2>2
<1>4. 0 \in T
  <2>1. src \in Nodes /\ dest \in Nodes /\ src # dest
    BY DEF Ground
  <2>2. -k = 0 - k
    OBVIOUS
  <2>3. Kept({dest}, 0)
    BY <2>1, <2>2 DEF Kept
  <2>4. QED
    BY <1>2, <2>3
<1>5. ASSUME NEW n \in Nat, n \in T PROVE n + 1 \in T
  <2> SUFFICES ASSUME n + 1 <= k - 1 PROVE Kept(f[n + 1], n + 1)
    OBVIOUS
  <2>1. Kept(f[n], n) /\ n + 1 < k
    BY <1>5
  <2>2. Kept(f[n] \cup Leading(f[n], n + 1), n + 1)
    BY <2>1, KeptMore
  <2>3. QED
    BY <1>3, <2>2
<1> HIDE DEF T
<1>6. Nat \subseteq T
  BY <1>4, <1>5, Induction
<1>7. k - 1 \in T /\ k - 1 <= k - 1
  BY <1>6
<1>8. QED
  BY <1>1, <1>7 DEF T

\* The arc from source to destination is full from the beginning, so another
\* node is on the way.
LEMMA TwoLayers ==
  ASSUME Ground, AtEnds, k \in Nat, k >= 1, Layered(k), flayer[dest] = -k, flayer[dest] # UNSCANNED
  PROVE  k >= 2
<1> SUFFICES ASSUME k = 1 PROVE FALSE
  OBVIOUS
<1>1. src \in Nodes /\ dest \in Nodes /\ src # dest /\ fcap[src][dest] \in Nat
  <2>1. fcap \in [Nodes -> [Nodes -> 0 .. INFTY - 1]] /\ INFTY \in Nat /\ src \in Nodes /\ dest \in Nodes /\ src # dest
    BY DEF Ground
  <2>2. QED
    BY <2>1
<1>2. PICK i \in Nodes : flayer[i] = flayer[dest] + 1 /\ Residual(i, dest)
  BY <1>1 DEF Layered
<1>3. flayer[i] = 0
  BY <1>2
<1>4. i = src
  BY <1>3 DEF Layered
<1>5. flow[src][dest] = fcap[src][dest] /\ flow[dest][src] = 0
  BY <1>1 DEF AtEnds
<1>6. QED
  BY <1>1, <1>2, <1>4, <1>5 DEF Residual

\* No layer holds the destination: the labels are a cut.
LEMMA NoWayOn ==
  ASSUME Ground, k \in Nat, Layered(k), flayer[dest] = UNSCANNED, Closed(k + 1)
  PROVE  \E S : CutOff(S)
<1> DEFINE S == {i \in Nodes : flayer[i] # UNSCANNED}
<1>1. src \in Nodes /\ flayer[src] # UNSCANNED
  BY DEF Ground, Layered, UNSCANNED
<1>2. ASSUME NEW i \in S, NEW j \in Nodes \ S PROVE ~Residual(i, j)
  <2>1. flayer[i] \in -k .. 0
    BY DEF Layered
  <2>2. -(k + 1) < flayer[i]
    BY <2>1
  <2>3. QED
    BY <2>2 DEF Closed
<1>3. CutOff(S)
  BY <1>1, <1>2 DEF CutOff
<1>4. QED
  BY <1>3

\* When the destination is in no layer, the labelled nodes are cut off.
LEMMA WalkBackCuts ==
  ASSUME Ground, k \in Nat, Layered(k), flayer[dest] = UNSCANNED, Closed(k + 1), WalkBack
  PROVE  \E S : CutOff(S)'
<1>1. PICK S : CutOff(S)
  BY NoWayOn
<1>2. UNCHANGED <<inputVars, mat, todo>> /\ flow' = flow
  BY DEF WalkBack
<1>3. Nodes' = Nodes /\ src' = src /\ dest' = dest /\ fcap' = fcap
  BY <1>2, SamePair
<1>4. \A i, j : Residual(i, j)' <=> Residual(i, j)
  BY <1>2, <1>3 DEF Residual
<1>5. CutOff(S)'
  BY <1>1, <1>3, <1>4 DEF CutOff
<1>6. QED
  BY <1>5

\* The layers as the reference node is looked for in them.
Ready == Levels /\ Upward /\ \E i \in Nodes : i # dest /\ flayer[i] = 1

\* When it is, each node kept has a way on (ngraph.c:684-706).
LEMMA WalkBackKeeps ==
  ASSUME Ground, AtEnds, k \in Nat, k >= 1, Layered(k), flayer[dest] = -k,
         flayer[dest] # UNSCANNED, WalkBack
  PROVE  Ready'
<1>1. /\ UNCHANGED <<inputVars, mat, todo, flow>>
      /\ flayer' = [j \in Nodes |-> IF j \in Walked THEN -flayer[j] ELSE flayer[j]]
  BY DEF WalkBack
<1>2. Nodes' = Nodes /\ src' = src /\ dest' = dest /\ fcap' = fcap
  BY <1>1, SamePair
<1>3. \A i, j : Residual(i, j)' <=> Residual(i, j)
  BY <1>1, <1>2 DEF Residual
<1>4. \A i \in Nodes : flayer[i] \in -20 .. 20
  BY DEF Ground
<1>5. src \in Nodes /\ dest \in Nodes /\ src # dest
  BY DEF Ground
<1>6. k < 20
  BY <1>4, <1>5 DEF UNSCANNED
<1>7. k >= 2
  BY TwoLayers
<1>8. PICK W, new : W = Walked /\ new = flayer'
  OBVIOUS
<1>9. Kept(W, k - 1)
  BY <1>6, <1>8, WalkedKept
<1>10. \A j \in Nodes : new[j] = IF j \in W THEN -flayer[j] ELSE flayer[j]
  BY <1>1, <1>8
<1>11. /\ W \subseteq Nodes /\ dest \in W /\ src \notin W
       /\ \A j \in W : j # dest =>
            /\ -k < flayer[j] /\ flayer[j] <= k - 1 - k
            /\ \E i \in W : flayer[i] = flayer[j] - 1 /\ Residual(j, i)
       /\ \E i \in W : flayer[i] = k - 1 - k
  BY <1>9 DEF Kept
<1>12. /\ \A i \in Nodes : flayer[i] = UNSCANNED \/ flayer[i] \in -k .. 0
       /\ flayer[src] = 0 /\ \A i \in Nodes : flayer[i] = 0 => i = src
  BY DEF Layered
<1>13. \A i \in Nodes : flayer[i] <= 0
  BY <1>4, <1>12 DEF UNSCANNED
<1>14. new[src] = 0
  BY <1>5, <1>10, <1>11, <1>12
<1>15. \A i \in Nodes : new[i] = 0 => i = src
  BY <1>4, <1>10, <1>12
<1>16. new[dest] = k
  BY <1>5, <1>10, <1>11
<1>17. ASSUME NEW i \in Nodes, i # dest PROVE new[i] < new[dest]
  <2>1. CASE i \in W
    <3>1. -k < flayer[i] /\ new[i] = -flayer[i]
      BY <1>10, <1>11, <1>17, <2>1
    <3>2. QED
      BY <1>4, <1>16, <3>1
  <2>2. CASE i \notin W
    BY <1>4, <1>10, <1>13, <1>16, <2>2
  <2>3. QED
    BY <2>1, <2>2
<1>18. Levels'
  BY <1>2, <1>7, <1>8, <1>14, <1>15, <1>16, <1>17 DEF Levels
<1>19. ASSUME NEW j \in Nodes, new[j] > 0, j # dest
       PROVE  \E i \in Nodes : new[i] = new[j] + 1 /\ Residual(j, i)
  <2>1. j \in W
    BY <1>4, <1>10, <1>13, <1>19
  <2>2. PICK i \in W : flayer[i] = flayer[j] - 1 /\ Residual(j, i)
    BY <1>11, <1>19, <2>1
  <2>3. i \in Nodes /\ new[i] = -flayer[i] /\ new[j] = -flayer[j]
    BY <1>10, <1>11, <2>1, <2>2
  <2>4. new[i] = new[j] + 1
    BY <1>4, <2>2, <2>3
  <2>5. QED
    BY <2>2, <2>3, <2>4
<1>20. Upward'
  <2>1. \A j \in Nodes : new[j] > 0 /\ j # dest =>
          \E i \in Nodes : new[i] = new[j] + 1 /\ Residual(j, i)'
    BY <1>3, <1>19
  <2>2. QED
    BY <1>2, <1>8, <2>1 DEF Upward
<1>21. \E i \in Nodes : i # dest /\ new[i] = 1
  <2>1. PICK i \in W : flayer[i] = k - 1 - k
    BY <1>11
  <2>2. flayer[i] = -1 /\ i \in Nodes
    BY <1>11, <2>1
  <2>3. new[i] = 1
    BY <1>10, <2>1, <2>2
  <2>4. i # dest
    BY <1>7, <2>2
  <2>5. QED
    BY <2>2, <2>3, <2>4
<1>22. QED
  BY <1>2, <1>8, <1>18, <1>20, <1>21 DEF Ready

(***************************************************************************)
(* The value of the flow, and cuts                                         *)
(***************************************************************************)
Value == SumFunction([i \in Nodes |-> flow[src][i]])
Through == [i \in Nodes |-> [j \in Nodes |-> flow[i][j] - flow[j][i]]]
Leaving(T) == SumFunctionOnSet(Across(Through, Nodes, Nodes \ T), T)

\* Its values are numbers, opposite for the two directions.
LEMMA ThroughIs ==
  ASSUME Ground
  PROVE  /\ IsFiniteSet(Nodes)
         /\ \A i, j \in Nodes : /\ flow[i][j] \in Nat /\ fcap[i][j] \in Nat
                                /\ Through[i][j] = flow[i][j] - flow[j][i]
                                /\ Through[i][j] \in Int /\ Through[i][j] = -Through[j][i]
<1>1. IsFiniteSet(Nodes)
  <2>1. numnodes \in Nat
    BY DEF Ground
  <2>2. QED
    BY <2>1, NodesAre
<1>2. \A i, j \in Nodes : Through[i][j] = flow[i][j] - flow[j][i]
  BY DEF Through
<1>3. \A i, j \in Nodes : flow[i][j] \in Nat
  <2>1. flow \in [Nodes -> [Nodes -> Nat]]
    BY DEF Ground
  <2>2. QED
    BY <2>1
<1>4. \A i, j \in Nodes : fcap[i][j] \in Nat
  <2>1. fcap \in [Nodes -> [Nodes -> 0 .. INFTY - 1]] /\ INFTY \in Nat
    BY DEF Ground
  <2>2. QED
    BY <2>1
<1>5. \A i, j \in Nodes : Through[i][j] \in Int /\ Through[i][j] = -Through[j][i]
  BY <1>2, <1>3
<1>6. QED
  BY <1>1, <1>2, <1>3, <1>4, <1>5

\* What goes through a node: all of it leaves, and nothing enters the source.
LEMMA RowsAre ==
  ASSUME Ground, AtEnds, Conserved
  PROVE  /\ \A i \in Nodes : SumFunctionOnSet(Through[i], Nodes) \in Int
         /\ \A i \in Nodes \ {src, dest} : SumFunctionOnSet(Through[i], Nodes) = 0
         /\ SumFunctionOnSet(Through[src], Nodes) = Value
<1>1. /\ IsFiniteSet(Nodes)
      /\ \A i, j \in Nodes : /\ flow[i][j] \in Nat
                             /\ Through[i][j] = flow[i][j] - flow[j][i]
                             /\ Through[i][j] \in Int
  BY ThroughIs
<1>2. src \in Nodes /\ \A i \in Nodes : flow[i][src] = 0
  BY DEF Ground, AtEnds
<1>3. \A i \in Nodes : SumFunctionOnSet(Through[i], Nodes) \in Int
  BY <1>1, SumType
<1>4. ASSUME NEW i \in Nodes \ {src, dest} PROVE SumFunctionOnSet(Through[i], Nodes) = 0
  <2> DEFINE net == [j \in Nodes |-> flow[j][i] - flow[i][j]]
             none == [j \in Nodes |-> 0]
  <2>1. SumFunctionOnSet(net, Nodes) = 0
    BY DEF Conserved, Net
  <2>2. \A j \in Nodes : net[j] = flow[j][i] - flow[i][j] /\ none[j] = 0
    OBVIOUS
  <2> HIDE DEF net, none
  <2>3. \A j \in Nodes : net[j] \in Int /\ none[j] = net[j] + Through[i][j]
    BY <1>1, <2>2
  <2>4. SumFunctionOnSet(none, Nodes) = SumFunctionOnSet(net, Nodes) + SumFunctionOnSet(Through[i], Nodes)
    BY <1>1, <2>3, SumTwo
  <2>5. SumFunctionOnSet(none, Nodes) = 0
    BY <1>1, <2>2, SumNothing
  <2>6. QED
    BY <1>3, <2>1, <2>4, <2>5
<1>5. SumFunctionOnSet(Through[src], Nodes) = Value
  <2> DEFINE out == [i \in Nodes |-> flow[src][i]]
  <2>1. Value = SumFunctionOnSet(out, Nodes)
    BY DEF Value, SumFunction
  <2>2. \A i \in Nodes : Through[src][i] = out[i]
    BY <1>1, <1>2
  <2> HIDE DEF out
  <2>3. SumFunctionOnSet(Through[src], Nodes) = SumFunctionOnSet(out, Nodes)
    BY <1>1, <2>2, SumSame
  <2>4. QED
    BY <2>1, <2>3
<1>6. QED
  BY <1>3, <1>4, <1>5

\* As much leaves any set of nodes around the source, without the destination.
LEMMA LeavingIs ==
  ASSUME Ground, AtEnds, Conserved, NEW T \in SUBSET Nodes, src \in T, dest \notin T
  PROVE  Leaving(T) = Value /\ Leaving(T) \in Int
<1> DEFINE full == Across(Through, Nodes, Nodes)
           part == Across(Through, Nodes, T)
           rest == Across(Through, Nodes, Nodes \ T)
<1>1. /\ IsFiniteSet(Nodes)
      /\ \A i, j \in Nodes : Through[i][j] \in Int /\ Through[i][j] = -Through[j][i]
  BY ThroughIs
<1>2. IsFiniteSet(T) /\ IsFiniteSet(Nodes \ T)
  BY <1>1, FS_Subset
<1>3. \A i \in Nodes : /\ full[i] = SumFunctionOnSet(Through[i], Nodes)
                       /\ part[i] = SumFunctionOnSet(Through[i], T)
                       /\ rest[i] = SumFunctionOnSet(Through[i], Nodes \ T)
  BY DEF Across
<1>4. Leaving(T) = SumFunctionOnSet(rest, T) /\ SumFunctionOnSet(part, T) = Square(Through, Nodes, T)
  BY DEF Leaving, Square
<1> HIDE DEF full, part, rest
<1>5. SumFunctionOnSet(part, T) = 0
  BY <1>1, <1>4, SquareIs
<1>6. \A i \in Nodes : full[i] = part[i] + rest[i] /\ part[i] \in Int /\ rest[i] \in Int
  <2>1. ASSUME NEW i \in Nodes PROVE full[i] = part[i] + rest[i] /\ part[i] \in Int /\ rest[i] \in Int
    <3>1. \A j \in Nodes : Through[i][j] \in Int
      BY <1>1
    <3>2. SumFunctionOnSet(Through[i], Nodes)
            = SumFunctionOnSet(Through[i], T) + SumFunctionOnSet(Through[i], Nodes \ T)
      BY <1>1, <3>1, SumSplit
    <3>3. SumFunctionOnSet(Through[i], T) \in Int /\ SumFunctionOnSet(Through[i], Nodes \ T) \in Int
      BY <1>2, <3>1, SumType
    <3>4. QED
      BY <1>3, <3>2, <3>3
  <2>2. QED
    BY <2>1
<1>7. \A i \in T : part[i] \in Int /\ rest[i] \in Int /\ full[i] = part[i] + rest[i]
  BY <1>6
<1>8. SumFunctionOnSet(full, T) = SumFunctionOnSet(part, T) + SumFunctionOnSet(rest, T)
  BY <1>2, <1>7, SumTwo
<1>9. SumFunctionOnSet(rest, T) \in Int
  BY <1>2, <1>7, SumType
<1>10. SumFunctionOnSet(full, T) = full[src]
  <2>1. full[src] \in Int /\ \A i \in T : i # src => full[i] = 0
    BY <1>3, RowsAre
  <2>2. QED
    BY <1>2, <2>1, SumSingle
<1>11. full[src] = Value
  BY <1>3, RowsAre
<1>12. QED
  BY <1>4, <1>5, <1>8, <1>9, <1>10, <1>11

\* The capacity of the cut around T, as one double sum.
LEMMA CapacityIs ==
  ASSUME Ground, NEW T \in SUBSET Nodes
  PROVE  /\ Capacity(T) = SumFunctionOnSet(Across(fcap, Nodes, Nodes \ T), T)
         /\ Capacity(T) \in Nat
<1> DEFINE U == Nodes \ T
           inner(i) == [j \in U |-> fcap[i][j]]
           c == [i \in T |-> SumFunctionOnSet(inner(i), U)]
           a == Across(fcap, Nodes, U)
<1>1. IsFiniteSet(Nodes) /\ \A i, j \in Nodes : fcap[i][j] \in Nat
  BY ThroughIs
<1>2. IsFiniteSet(T) /\ IsFiniteSet(U)
  BY <1>1, FS_Subset
<1>3. Capacity(T) = SumFunctionOnSet(c, T)
  BY DEF Capacity, SumFunction
<1>4. ASSUME NEW i \in T PROVE c[i] = a[i] /\ a[i] \in Nat
  <2>1. c[i] = SumFunctionOnSet(inner(i), U)
    OBVIOUS
  <2>2. a[i] = SumFunctionOnSet(fcap[i], U)
    BY DEF Across
  <2>3. \A j \in U : inner(i)[j] = fcap[i][j] /\ fcap[i][j] \in Nat
    BY <1>1
  <2> HIDE DEF inner, U, c, a
  <2>4. SumFunctionOnSet(inner(i), U) = SumFunctionOnSet(fcap[i], U)
    BY <1>2, <2>3, SumSame
  <2>5. SumFunctionOnSet(fcap[i], U) \in Nat
    BY <1>2, <2>3, SumType
  <2>6. QED
    BY <2>1, <2>2, <2>4, <2>5
<1> HIDE DEF c, a, inner
<1>5. SumFunctionOnSet(c, T) = SumFunctionOnSet(a, T)
  BY <1>2, <1>4, SumSame
<1>6. SumFunctionOnSet(a, T) \in Nat
  BY <1>2, <1>4, SumType
<1>7. QED
  BY <1>3, <1>5, <1>6 DEF a

\* No more leaves a set of nodes than the cut around it can take, and as much
\* when no arc leads on.
LEMMA LeavingBelow ==
  ASSUME Ground, Fits, NEW T \in SUBSET Nodes
  PROVE  /\ Leaving(T) <= Capacity(T)
         /\ (\A i \in T, j \in Nodes \ T : ~Residual(i, j)) => Leaving(T) = Capacity(T)
<1> DEFINE U == Nodes \ T
           a == Across(Through, Nodes, U)
           c == Across(fcap, Nodes, U)
<1>1. /\ IsFiniteSet(Nodes)
      /\ \A i, j \in Nodes : /\ flow[i][j] \in Nat /\ fcap[i][j] \in Nat
                             /\ Through[i][j] = flow[i][j] - flow[j][i]
                             /\ Through[i][j] \in Int
  BY ThroughIs
<1>2. IsFiniteSet(T) /\ IsFiniteSet(U)
  BY <1>1, FS_Subset
<1>3. Leaving(T) = SumFunctionOnSet(a, T) /\ Capacity(T) = SumFunctionOnSet(c, T)
  BY CapacityIs DEF Leaving
<1>4. \A i \in Nodes : a[i] = SumFunctionOnSet(Through[i], U) /\ c[i] = SumFunctionOnSet(fcap[i], U)
  BY DEF Across
<1>5. T \subseteq Nodes /\ U \subseteq Nodes
  OBVIOUS
<1>6. \A i, j \in Nodes : flow[i][j] <= fcap[i][j]
  BY DEF Fits
<1>7. \A i, j \in Nodes : Through[i][j] <= fcap[i][j]
  BY <1>1, <1>6
<1> HIDE DEF a, c
<1>8. \A i \in T : a[i] \in Int /\ c[i] \in Int /\ a[i] <= c[i]
  <2>1. ASSUME NEW i \in T PROVE a[i] \in Int /\ c[i] \in Int /\ a[i] <= c[i]
    <3>1. i \in Nodes /\ \A j \in U : /\ Through[i][j] \in Int /\ fcap[i][j] \in Int
                                      /\ Through[i][j] <= fcap[i][j]
      BY <1>1, <1>5, <1>7
    <3> HIDE DEF U
    <3>2. SumFunctionOnSet(Through[i], U) <= SumFunctionOnSet(fcap[i], U)
      BY <1>2, <3>1, SumBounds
    <3>3. SumFunctionOnSet(Through[i], U) \in Int /\ SumFunctionOnSet(fcap[i], U) \in Int
      BY <1>2, <3>1, SumType
    <3>4. QED
      BY <1>4, <3>1, <3>2, <3>3
  <2>2. QED
    BY <2>1
<1>9. Leaving(T) <= Capacity(T)
  BY <1>2, <1>3, <1>8, SumBounds
<1>10. ASSUME \A i \in T, j \in U : ~Residual(i, j) PROVE Leaving(T) = Capacity(T)
  <2>1. ASSUME NEW i \in T PROVE a[i] = c[i]
    <3>1. ASSUME NEW j \in U PROVE Through[i][j] = fcap[i][j]
      <4>1. i \in Nodes /\ j \in Nodes
        BY <1>5
      <4>2. ~(flow[i][j] < fcap[i][j]) /\ ~(flow[j][i] > 0)
        BY <1>10 DEF Residual
      <4>3. /\ flow[i][j] \in Nat /\ fcap[i][j] \in Nat /\ flow[j][i] \in Nat
            /\ Through[i][j] = flow[i][j] - flow[j][i] /\ flow[i][j] <= fcap[i][j]
        BY <1>1, <1>6, <4>1
      <4>4. QED
        BY <4>2, <4>3
    <3> HIDE DEF U
    <3>2. SumFunctionOnSet(Through[i], U) = SumFunctionOnSet(fcap[i], U)
      BY <1>2, <3>1, SumSame
    <3>3. QED
      BY <1>4, <1>5, <3>2
  <2>2. SumFunctionOnSet(a, T) = SumFunctionOnSet(c, T)
    BY <1>2, <2>1, SumSame
  <2>3. QED
    BY <1>3, <2>2
<1>11. QED
  BY <1>9, <1>10

\* The value of the flow is the capacity of the smallest cut.
LEMMA ValueIsMinimum ==
  ASSUME Ground, Fits, AtEnds, Conserved, NEW S, CutOff(S)
  PROVE  Value = Min({Capacity(T \cup {src}) : T \in SUBSET (Nodes \ {src, dest})})
<1> DEFINE caps == {Capacity(T \cup {src}) : T \in SUBSET (Nodes \ {src, dest})}
<1>1. src \in Nodes /\ dest \in Nodes /\ src # dest
  BY DEF Ground
<1>2. ASSUME NEW T \in SUBSET (Nodes \ {src, dest})
      PROVE  /\ T \cup {src} \in SUBSET Nodes /\ Capacity(T \cup {src}) \in Nat
             /\ Value <= Capacity(T \cup {src}) /\ Value \in Int
  <2>1. T \cup {src} \in SUBSET Nodes /\ src \in T \cup {src} /\ dest \notin T \cup {src}
    BY <1>1
  <2>2. Leaving(T \cup {src}) = Value /\ Leaving(T \cup {src}) \in Int
    BY <2>1, LeavingIs
  <2>3. Leaving(T \cup {src}) <= Capacity(T \cup {src}) /\ Capacity(T \cup {src}) \in Nat
    BY <2>1, LeavingBelow, CapacityIs
  <2>4. QED
    BY <2>1, <2>2, <2>3
<1>3. /\ S \in SUBSET Nodes /\ src \in S /\ dest \notin S
      /\ \A i \in S, j \in Nodes \ S : ~Residual(i, j)
  BY DEF CutOff
<1>4. Leaving(S) = Value /\ Leaving(S) = Capacity(S)
  BY <1>3, LeavingIs, LeavingBelow
<1>5. S \ {src} \in SUBSET (Nodes \ {src, dest}) /\ (S \ {src}) \cup {src} = S
  BY <1>3
<1>6. Value \in caps
  BY <1>4, <1>5
<1>7. caps \subseteq Nat /\ \A c \in caps : Value <= c /\ Value \in Int
  BY <1>2
<1> HIDE DEF caps
<1>8. Min(caps) \in caps /\ \A c \in caps : Min(caps) <= c
  BY <1>6, <1>7, MinIs
<1>9. Value <= Min(caps) /\ Min(caps) <= Value /\ Min(caps) \in Nat /\ Value \in Nat
  BY <1>6, <1>7, <1>8
<1>10. Value = Min(caps)
  BY <1>9
<1>11. QED
  BY <1>10 DEF caps

\* What goes into a node comes out of it.
LEMMA InIsOut ==
  ASSUME Ground, Conserved, NEW i \in Nodes \ {src, dest}
  PROVE  SumFunction([j \in Nodes |-> flow[j][i]]) = SumFunction([j \in Nodes |-> flow[i][j]])
<1> DEFINE in == [j \in Nodes |-> flow[j][i]]
           out == [j \in Nodes |-> flow[i][j]]
           net == [j \in Nodes |-> flow[j][i] - flow[i][j]]
<1>1. IsFiniteSet(Nodes) /\ \A x, y \in Nodes : flow[x][y] \in Nat
  BY ThroughIs
<1>2. SumFunctionOnSet(net, Nodes) = 0
  BY DEF Conserved, Net
<1>3. \A j \in Nodes : net[j] \in Int /\ out[j] \in Int /\ in[j] = net[j] + out[j]
  BY <1>1
<1>4. SumFunction(in) = SumFunctionOnSet(in, Nodes) /\ SumFunction(out) = SumFunctionOnSet(out, Nodes)
  BY DEF SumFunction
<1> HIDE DEF in, out, net
<1>5. SumFunctionOnSet(in, Nodes) = SumFunctionOnSet(net, Nodes) + SumFunctionOnSet(out, Nodes)
  BY <1>1, <1>3, SumTwo
<1>6. SumFunctionOnSet(out, Nodes) \in Int
  BY <1>1, <1>3, SumType
<1>7. SumFunctionOnSet(in, Nodes) = SumFunctionOnSet(out, Nodes)
  BY <1>2, <1>5, <1>6
<1>8. QED
  BY <1>4, <1>7 DEF in, out

(***************************************************************************)
(* The types, in parts                                                     *)
(***************************************************************************)
\* The types, by what uses the variables: commands, short_path(), max_flow().
CommandTypes ==
  /\ place \in {"read", "rloop", "call", "repeat", "trace", "layer", "scan", "walk", "ref",
                "move", "sum", "quit"}
  /\ entered \in 0 .. MaxCommands
  /\ mat \in {"metric", "capacity", "kmat"}
PathTypes ==
  /\ nodestate \in [Nodes -> [perm: {0, 1}, predecess: Nodes \cup {-1}, len: 0 .. INFTY]]
  /\ k \in 0 .. numnodes
FlowTypes ==
  /\ flow \in Matrices
  /\ flayer \in [Nodes -> -numnodes .. numnodes \cup {UNSCANNED, -UNSCANNED}]
  /\ fminpot \in 0 .. INFTY /\ frefnode \in Nodes /\ way \in {0, 1}
  /\ stack \in Seq(Call)

\* The parts together are the types.
LEMMA TypesAre ==
  ASSUME PathInv, FileInv, CommandTypes, PathTypes, FlowTypes
  PROVE  GraphTypes
<1>1. INFTY \in Nat /\ numnodes \in Nat /\ Nodes \subseteq Nat
  <2>1. INFTY \in Nat
    BY GraphAssumption
  <2>2. numnodes \in Nat
    BY DEF PathInv
  <2>3. QED
    BY <2>1, <2>2, NodesAre
<1>2. lines \in Seq(Lines)
  <2> DEFINE L == [from: Nodes, to: Nodes, metric: Nat, cap: Nat]
  <2>1. lines \in Seq(L)
    BY DEF PathInv
  <2>2. L \subseteq Lines
    BY <1>1 DEF Lines
  <2> HIDE DEF L
  <2>3. QED
    BY <2>1, <2>2, SeqMonotonic
<1>3. metric \in Matrices
  BY DEF PathInv, Network, Matrices
<1>4. capacity \in Matrices /\ kmat \in Matrices
  <2>1. capacity \in [Nodes -> [Nodes -> 0 .. INFTY - 1]] /\ kmat \in [Nodes -> [Nodes -> 0 .. INFTY - 1]]
    BY DEF FileInv
  <2>2. 0 .. INFTY - 1 \subseteq Nat
    BY <1>1
  <2>3. QED
    BY <2>1, <2>2 DEF Matrices
<1>5. place \in {"read", "rloop", "call", "repeat", "trace", "layer", "scan", "walk", "ref",
                 "move", "sum", "quit"}
      /\ entered \in 0 .. MaxCommands /\ mat \in {"metric", "capacity", "kmat"}
  BY DEF CommandTypes
<1>6. todo \in Seq(Pairs)
  BY DEF PathInv
<1>7. /\ nodestate \in [Nodes -> [perm: {0, 1}, predecess: Nodes \cup {-1}, len: 0 .. INFTY]]
      /\ k \in 0 .. numnodes
  BY DEF PathTypes
<1>8. /\ flow \in Matrices
      /\ flayer \in [Nodes -> -numnodes .. numnodes \cup {UNSCANNED, -UNSCANNED}]
      /\ fminpot \in 0 .. INFTY /\ frefnode \in Nodes /\ way \in {0, 1}
      /\ stack \in Seq([node: Nodes, flowleft: Nat, j: Nodes \cup {-1}])
  BY DEF FlowTypes, Call
<1>9. QED
  BY <1>1, <1>2, <1>3, <1>4, <1>5, <1>6, <1>7, <1>8 DEF GraphTypes

\* The steps of max_flow() find the network and the pair as they need them.
LEMMA GroundIs ==
  ASSUME PathInv, FileInv, FlowTypes, todo # <<>>
  PROVE  Ground
<1>1. INFTY \in Nat /\ INFTY > 1
  BY GraphAssumption
<1>2. numnodes \in 2 .. 20
  BY DEF FileInv
<1>3. src \in Nodes /\ dest \in Nodes
  BY PairIs
<1>4. src # dest
  <2>1. todo \in Seq(Pairs)
    BY DEF PathInv
  <2>2. Head(todo) \in Pairs
    BY <2>1, HeadTailProperties
  <2>3. QED
    BY <2>2 DEF Pairs, src, dest
<1>5. fcap \in [Nodes -> [Nodes -> 0 .. INFTY - 1]]
  BY DEF FileInv, fcap
<1>6. flow \in [Nodes -> [Nodes -> Nat]]
  BY DEF FlowTypes, Matrices
<1>7. flayer \in [Nodes -> -20 .. 20]
  <2>1. flayer \in [Nodes -> -numnodes .. numnodes \cup {UNSCANNED, -UNSCANNED}]
    BY DEF FlowTypes
  <2>2. -numnodes .. numnodes \cup {UNSCANNED, -UNSCANNED} \subseteq -20 .. 20
    BY <1>2 DEF UNSCANNED
  <2>3. QED
    BY <2>1, <2>2
<1>8. QED
  BY <1>1, <1>2, <1>3, <1>4, <1>5, <1>6, <1>7 DEF Ground

\* A line of the file sets both directions of an arc.
LEMMA BothKeeps ==
  ASSUME NEW V, NEW m \in [Nodes -> [Nodes -> V]], NEW l, l.from \in Nodes, l.to \in Nodes, NEW v \in V
  PROVE  Both(m, l, v) \in [Nodes -> [Nodes -> V]]
<1> DEFINE x == l.from
           y == l.to
           half == [m EXCEPT ![x][y] = v]
<1>1. Both(m, l, v) = [half EXCEPT ![y][x] = v]
  BY DEF Both
<1>2. half \in [Nodes -> [Nodes -> V]]
  OBVIOUS
<1>3. x \in Nodes /\ y \in Nodes
  OBVIOUS
<1> HIDE DEF half, x, y
<1>4. [half EXCEPT ![y][x] = v] \in [Nodes -> [Nodes -> V]]
  BY <1>2, <1>3
<1>5. QED
  BY <1>1, <1>4

\* They hold before the file is read, if it has no capacity of INFTY or more.
LEMMA FileStarts == CapacitiesBelow /\ GraphInit => FileInv /\ CommandTypes /\ PathTypes /\ FlowTypes
<1> SUFFICES ASSUME CapacitiesBelow, GraphInit PROVE FileInv /\ CommandTypes /\ PathTypes /\ FlowTypes
  OBVIOUS
<1>1. PICK f \in Files :
        /\ numnodes = f.n /\ lines = f.lines
        /\ capacity = [i \in 0 .. f.n - 1 |-> [j \in 0 .. f.n - 1 |-> 0]]
        /\ kmat = capacity /\ flow = capacity
        /\ flayer = [i \in 0 .. f.n - 1 |-> 0]
        /\ nodestate = [i \in 0 .. f.n - 1 |-> [perm |-> 0, predecess |-> -1, len |-> INFTY]]
  BY DEF GraphInit
<1>2. /\ INFTY \in Nat /\ INFTY > 1 /\ MaxCommands \in Nat
      /\ f.n \in 2 .. 20
      /\ f.lines \in Seq([from: 0 .. f.n - 1, to: 0 .. f.n - 1, metric: Nat, cap: Nat])
  <2>1. INFTY \in Nat \ {0, 1} /\ MaxCommands \in Nat
    BY GraphAssumption
  <2>2. /\ f.n \in 2 .. 20
        /\ f.lines \in Seq([from: 0 .. f.n - 1, to: 0 .. f.n - 1, metric: Nat, cap: Nat])
    BY GraphAssumption
  <2>3. INFTY > 1
    BY <2>1
  <2>4. QED
    BY <2>1, <2>2, <2>3
<1>3. numnodes \in 2 .. 20 /\ Nodes = 0 .. f.n - 1 /\ 0 \in Nodes
  <2>1. numnodes = f.n
    BY <1>1
  <2>2. Nodes = 0 .. f.n - 1
    BY <2>1 DEF Nodes
  <2>3. f.n \in 2 .. 20
    BY <1>2
  <2>4. 0 \in 0 .. f.n - 1
    BY <2>3
  <2>5. QED
    BY <2>1, <2>2, <2>3, <2>4
<1>4. place = "read" /\ entered = 0 /\ mat = "metric"
      /\ k = 0 /\ fminpot = 0 /\ frefnode = 0 /\ way = 1 /\ stack = <<>>
  BY DEF GraphInit
<1>5. lines \in Seq([from: Nodes, to: Nodes, metric: Nat, cap: 0 .. INFTY - 1])
  <2> DEFINE L == [from: Nodes, to: Nodes, metric: Nat, cap: Nat]
             B == [from: Nodes, to: Nodes, metric: Nat, cap: 0 .. INFTY - 1]
  <2>1. lines \in Seq(L)
    BY <1>1, <1>2, <1>3
  <2>2. \A x \in 1 .. Len(lines) : lines[x].cap < INFTY
    BY <1>1 DEF CapacitiesBelow
  <2>3. \A l \in L : l.cap < INFTY => l \in B
    BY <1>2
  <2> HIDE DEF L, B
  <2>4. Len(lines) \in Nat /\ lines = [x \in 1 .. Len(lines) |-> lines[x]] /\ \A x \in 1 .. Len(lines) : lines[x] \in L
    BY <2>1, LenProperties, ElementOfSeq
  <2>5. \A x \in 1 .. Len(lines) : lines[x] \in B
    BY <2>2, <2>3, <2>4
  <2>6. lines \in Seq(B)
    <3>1. lines \in [1 .. Len(lines) -> B]
      BY <2>4, <2>5
    <3>2. QED
      BY <2>4, <3>1, SeqDef
  <2>7. QED
    BY <2>6 DEF B
<1>6. capacity \in [Nodes -> [Nodes -> 0 .. INFTY - 1]] /\ kmat \in [Nodes -> [Nodes -> 0 .. INFTY - 1]]
  <2>1. 0 \in 0 .. INFTY - 1
    BY <1>2
  <2>2. QED
    BY <1>1, <1>3, <2>1
<1>7. FileInv
  BY <1>3, <1>5, <1>6 DEF FileInv
<1>8. CommandTypes
  BY <1>2, <1>4 DEF CommandTypes
<1>9. PathTypes
  <2>1. INFTY \in 0 .. INFTY
    BY <1>2
  <2>2. nodestate \in [Nodes -> [perm: {0, 1}, predecess: Nodes \cup {-1}, len: 0 .. INFTY]]
    BY <1>1, <1>3, <2>1
  <2>3. k \in 0 .. numnodes
    BY <1>3, <1>4
  <2>4. QED
    BY <2>2, <2>3 DEF PathTypes
<1>10. FlowTypes
  <2>1. flow \in Matrices
    BY <1>1, <1>3 DEF Matrices
  <2>2. flayer \in [Nodes -> -numnodes .. numnodes \cup {UNSCANNED, -UNSCANNED}]
    <3>1. 0 \in -numnodes .. numnodes \cup {UNSCANNED, -UNSCANNED}
      BY <1>3
    <3>2. flayer = [i \in Nodes |-> 0]
      BY <1>1, <1>3
    <3>3. QED
      BY <3>1, <3>2
  <2>3. fminpot \in 0 .. INFTY
    BY <1>2, <1>4
  <2>4. stack \in Seq(Call)
    BY <1>4
  <2>5. QED
    BY <1>3, <1>4, <2>1, <2>2, <2>3, <2>4 DEF FlowTypes
<1>11. QED
  BY <1>7, <1>8, <1>9, <1>10

(***************************************************************************)
(* The steps                                                               *)
(***************************************************************************)

\* Only reading the file changes the network.
LEMMA InputsStay ==
  ASSUME [GraphNext]_graphVars, ~ReadLine
  PROVE  UNCHANGED inputVars
<1>1. CASE Command
  BY <1>1 DEF Command, AskPath, AskFlow, AskConnectivity, PathTable, FlowTable, ConnectivityTable,
              Quit, Enter
<1>2. CASE Work
  BY <1>2 DEF Work, ReadEnd, ShortPath, Repeat, Trace, MaxFlow, LayerNet, Scan, WalkBack, FindRef,
              Move, Returned, Sum, Return
<1>3. CASE UNCHANGED graphVars
  BY <1>3 DEF graphVars
<1>4. QED
  BY <1>1, <1>2, <1>3 DEF GraphNext

\* The nodes stay what the file said.
LEMMA SameNodes ==
  ASSUME [GraphNext]_graphVars
  PROVE  numnodes' = numnodes /\ Nodes' = Nodes
<1>1. numnodes' = numnodes
  <2>1. CASE ReadLine
    BY <2>1 DEF ReadLine
  <2>2. CASE ~ReadLine
    BY <2>2, InputsStay DEF inputVars
  <2>3. QED
    BY <2>1, <2>2
<1>2. QED
  BY <1>1 DEF Nodes

\* Reading the file keeps it that the capacities are below INFTY.
LEMMA FileKeeps ==
  ASSUME FileInv, [GraphNext]_graphVars
  PROVE  FileInv'
<1> DEFINE L == [from: Nodes, to: Nodes, metric: Nat, cap: 0 .. INFTY - 1]
           V == 0 .. INFTY - 1
<1>1. /\ numnodes \in 2 .. 20 /\ lines \in Seq(L)
      /\ capacity \in [Nodes -> [Nodes -> V]] /\ kmat \in [Nodes -> [Nodes -> V]]
  BY DEF FileInv
<1>2. numnodes' = numnodes /\ Nodes' = Nodes
  BY SameNodes
<1>3. CASE ReadLine
  <2> DEFINE l == Head(lines)
  <2>1. /\ lines # <<>> /\ lines' = Tail(lines)
        /\ kmat' = IF l.cap > 0 THEN Both(kmat, l, 1) ELSE kmat
        /\ capacity' = Both(capacity, l, l.cap)
    BY <1>3 DEF ReadLine
  <2>2. l \in L /\ Tail(lines) \in Seq(L)
    BY <1>1, <2>1, HeadTailProperties
  <2>3. l.from \in Nodes /\ l.to \in Nodes /\ l.cap \in V /\ 1 \in V
    <3>1. INFTY \in Nat \ {0, 1}
      BY GraphAssumption
    <3>2. 1 \in V
      BY <3>1
    <3>3. QED
      BY <2>2, <3>2
  <2> HIDE DEF L, V, l
  <2>4. Both(capacity, l, l.cap) \in [Nodes -> [Nodes -> V]]
    BY <1>1, <2>3, BothKeeps
  <2>5. Both(kmat, l, 1) \in [Nodes -> [Nodes -> V]]
    BY <1>1, <2>3, BothKeeps
  <2>6. capacity' \in [Nodes -> [Nodes -> V]] /\ kmat' \in [Nodes -> [Nodes -> V]]
    BY <1>1, <2>1, <2>4, <2>5
  <2>7. lines' \in Seq(L)
    BY <2>1, <2>2
  <2>8. QED
    BY <1>1, <1>2, <2>6, <2>7 DEF FileInv, L, V
<1>4. CASE ~ReadLine
  <2>1. UNCHANGED <<numnodes, lines, capacity, kmat>>
    BY <1>4, InputsStay DEF inputVars
  <2>2. QED
    BY <1>1, <1>2, <2>1 DEF FileInv
<1>5. QED
  BY <1>3, <1>4

\* Every step keeps the types of what commands use.
LEMMA CommandTypesKeep ==
  ASSUME CommandTypes, [GraphNext]_graphVars
  PROVE  CommandTypes'
<1>1. MaxCommands \in Nat
  BY GraphAssumption
<1>2. ASSUME NEW m \in {"metric", "capacity", "kmat"}, NEW pairs, Enter(m, pairs) PROVE CommandTypes'
  <2>1. place' = "call" /\ entered' = entered + 1 /\ entered < MaxCommands /\ mat' = m
    BY <1>2 DEF Enter
  <2>2. entered' \in 0 .. MaxCommands
    BY <1>1, <2>1 DEF CommandTypes
  <2>3. QED
    BY <2>1, <2>2 DEF CommandTypes
<1>3. CASE Command
  <2>1. CASE Quit
    BY <2>1 DEF CommandTypes, Quit
  <2>2. CASE ~Quit
    BY <1>2, <1>3, <2>2 DEF Command, AskPath, AskFlow, AskConnectivity, PathTable, FlowTable,
                            ConnectivityTable
  <2>3. QED
    BY <2>1, <2>2
<1>4. CASE Work
  <2>1. UNCHANGED <<entered, mat>>
    BY <1>4 DEF Work, ReadLine, ReadEnd, ShortPath, Repeat, Trace, MaxFlow, LayerNet, Scan, WalkBack,
                FindRef, Move, Returned, Sum, Return
  <2>2. place' \in {"read", "rloop", "call", "repeat", "trace", "layer", "scan", "walk", "ref",
                    "move", "sum", "quit"}
    BY <1>4 DEF Work, ReadLine, ReadEnd, ShortPath, Repeat, Trace, MaxFlow, LayerNet, Scan, WalkBack,
                FindRef, Move, Returned, Sum, Return
  <2>3. QED
    BY <2>1, <2>2 DEF CommandTypes
<1>5. CASE UNCHANGED graphVars
  BY <1>5 DEF CommandTypes, graphVars
<1>6. QED
  BY <1>3, <1>4, <1>5 DEF GraphNext

\* Every step keeps the types of what short_path() uses.
LEMMA PathTypesKeep ==
  ASSUME PathInv, PathTypes, [GraphNext]_graphVars, Scan => k' <= numnodes
  PROVE  PathTypes'
<1>1. numnodes' = numnodes /\ Nodes' = Nodes /\ numnodes \in Nat
  BY SameNodes DEF PathInv
<1>2. PathInv'
  BY PathStep
<1>3. INFTY \in Nat
  BY GraphAssumption
<1>4. CASE place' \in {"repeat", "trace"}
  <2>1. (Labels(nodestate, k, Lengths(dest)))'
    BY <1>2, <1>4 DEF PathInv
  <2>2. /\ nodestate' \in [Nodes -> [perm: {0, 1}, predecess: Nodes \cup {-1}, len: Nat]]
        /\ k' \in Nodes
        /\ \A i \in Nodes : nodestate'[i].len <= INFTY
    BY <1>1, <2>1 DEF Labels, Labelled, Label
  <2>3. k' \in 0 .. numnodes
    BY <1>1, <2>2 DEF Nodes
  <2>4. nodestate' \in [Nodes -> [perm: {0, 1}, predecess: Nodes \cup {-1}, len: 0 .. INFTY]]
    <3> DEFINE A == [perm: {0, 1}, predecess: Nodes \cup {-1}, len: Nat]
               B == [perm: {0, 1}, predecess: Nodes \cup {-1}, len: 0 .. INFTY]
    <3>1. \A r \in A : r.len <= INFTY => r \in B
      BY <1>3
    <3> HIDE DEF A, B
    <3>2. nodestate' \in [Nodes -> B]
      BY <2>2, <3>1 DEF A
    <3>3. QED
      BY <3>2 DEF B
  <2>5. QED
    BY <1>1, <2>3, <2>4 DEF PathTypes
<1>5. CASE place' \notin {"repeat", "trace"}
  <2>1. nodestate' = nodestate /\ (k' = k \/ k' = 0 \/ Scan)
    <3>1. CASE Command
      BY <3>1 DEF Command, AskPath, AskFlow, AskConnectivity, PathTable, FlowTable, ConnectivityTable,
                  Quit, Enter, pathVars
    <3>2. CASE Work
      BY <1>5, <3>2 DEF Work, ReadLine, ReadEnd, ShortPath, Repeat, Trace, MaxFlow, LayerNet, Scan,
                  WalkBack, FindRef, Move, Returned, Sum, Return, pathVars
    <3>3. CASE UNCHANGED graphVars
      BY <3>3 DEF graphVars, pathVars
    <3>4. QED
      BY <3>1, <3>2, <3>3 DEF GraphNext
  <2>2. Scan => k' = k + 1
    BY DEF Scan
  <2>3. k' \in 0 .. numnodes
    BY <1>1, <2>1, <2>2 DEF PathTypes
  <2>4. QED
    BY <1>1, <2>1, <2>3 DEF PathTypes
<1>6. QED
  BY <1>4, <1>5

\* The inductive invariant.
FlowState ==
  /\ PathInv /\ FileInv /\ CommandTypes /\ PathTypes /\ FlowTypes /\ FlowInv

\* Where max_flow() is not at work, nothing of it changes.
IdleStep == Command \/ ReadLine \/ ReadEnd \/ ShortPath \/ Repeat \/ Trace \/ Sum

\* These steps do not disturb what is said of the flow.
LEMMA IdleKeeps ==
  ASSUME FlowTypes, IdleStep
  PROVE  FlowTypes' /\ FlowInv'
<1>1. UNCHANGED flowVars /\ place' \notin FlowPlaces
  <2>1. CASE Command
    BY <2>1 DEF Command, AskPath, AskFlow, AskConnectivity, PathTable, FlowTable, ConnectivityTable,
                Quit, Enter, FlowPlaces
  <2>2. CASE ReadLine \/ ReadEnd \/ ShortPath \/ Repeat \/ Trace \/ Sum
    BY <2>2 DEF ReadLine, ReadEnd, ShortPath, Repeat, Trace, Sum, Return, FlowPlaces
  <2>3. QED
    BY <2>1, <2>2 DEF IdleStep
<1>2. numnodes' = numnodes /\ Nodes' = Nodes
  <2>1. GraphNext
    BY DEF IdleStep, GraphNext, Work
  <2>2. QED
    BY <2>1, SameNodes
<1>3. Matrices' = Matrices /\ Call' = Call
  BY <1>2 DEF Matrices, Call
<1>4. FlowTypes'
  BY <1>1, <1>2, <1>3 DEF FlowTypes, flowVars
<1>5. FlowInv'
  BY <1>1 DEF FlowInv, FlowPlaces
<1>6. QED
  BY <1>4, <1>5

\* Nor do stuttering steps.
LEMMA FlowStays ==
  ASSUME FlowTypes, FlowInv, UNCHANGED graphVars
  PROVE  FlowTypes' /\ FlowInv'
<1>1. /\ UNCHANGED <<inputVars, mat, todo, flow, flayer>>
      /\ UNCHANGED <<inputVars, mat, todo>>
      /\ UNCHANGED <<place, k, fminpot, frefnode, way, stack, flow, flayer>>
  BY DEF graphVars, pathVars, flowVars
<1>2. Nodes' = Nodes /\ src' = src /\ dest' = dest /\ fcap' = fcap /\ numnodes' = numnodes
  BY <1>1, SamePair
<1>3. /\ (Fits' <=> Fits) /\ (AtEnds' <=> AtEnds) /\ (Levels' <=> Levels)
      /\ \A i : Net(i)' = Net(i) /\ Incap(i)' = Incap(i) /\ Outcap(i)' = Outcap(i)
      /\ \A i : Between(i)' <=> Between(i)
      /\ \A i, j : Res(i, j)' = Res(i, j)
  BY <1>1, SameFlow
<1>4. \A i, j : Residual(i, j)' <=> Residual(i, j)
  BY <1>1, <1>2 DEF Residual
<1>5. Conserved' <=> Conserved
  BY <1>2, <1>3 DEF Conserved
<1>6. (Layered(k)' <=> Layered(k)) /\ (Filled(k)' <=> Filled(k))
  BY <1>1, <1>2, <1>4 DEF Layered, Filled
<1>7. (Closed(k)' <=> Closed(k)) /\ (Closed(k + 1)' <=> Closed(k + 1))
  BY <1>1, <1>2, <1>4 DEF Closed
<1>8. Upward' <=> Upward
  BY <1>1, <1>2, <1>4 DEF Upward
<1>9. \A S : CutOff(S)' <=> CutOff(S)
  BY <1>2, <1>4 DEF CutOff
<1>10. \A i : Level(i)' = Level(i) /\ Behind(i)' = Behind(i)
  BY <1>1, <1>2 DEF Level, Behind
<1>11. Calls' <=> Calls
  BY <1>1, <1>3, <1>10 DEF Calls
<1>12. \A i, j : Room(i, j)' = Room(i, j)
  BY <1>1, <1>3 DEF Room
<1>13. Tried' <=> Tried
  BY <1>1, <1>2, <1>10, <1>12 DEF Tried
<1>14. Pullable' <=> Pullable
  BY <1>1, <1>2, <1>3 DEF Pullable
<1>15. \A left : Held(left)' <=> Held(left)
  BY <1>1, <1>2 DEF Held
<1>16. \A left : Balanced(left)' <=> Balanced(left)
  <2>1. \A i : Flux(i)' = Flux(i) /\ Owed(i)' = Owed(i)
    BY <1>1, <1>3 DEF Flux, Owed
  <2>2. QED
    BY <1>2, <2>1 DEF Balanced
<1>17. \A left : Roomy(left)' <=> Roomy(left)
  <2>1. \A i : AllRoom(i)' = AllRoom(i)
    BY <1>1, <1>3 DEF AllRoom
  <2>2. \A i, left : Waiting(i, left)' = Waiting(i, left)
    BY <1>10 DEF Waiting
  <2>3. QED
    BY <1>2, <1>3, <2>1, <2>2 DEF Roomy
<1>18. \A left : Moving(left)' <=> Moving(left)
  BY <1>15, <1>16, <1>17 DEF Moving
<1>19. FlowInv'
  <2>1. place \in FlowPlaces => Fits' /\ AtEnds'
    BY <1>3 DEF FlowInv
  <2>2. place \in FlowPlaces \ {"move"} => Conserved'
    BY <1>5 DEF FlowInv
  <2>3. place = "scan" => Layered(k)' /\ Filled(k)' /\ Closed(k)' /\ (flayer[dest])' = UNSCANNED
    BY <1>1, <1>2, <1>6, <1>7 DEF FlowInv
  <2>4. place = "walk" => /\ k' >= 1 /\ Layered(k)'
                          /\ (flayer[dest] = UNSCANNED => Closed(k + 1))'
                          /\ (flayer[dest] # UNSCANNED => flayer[dest] = -k)'
    BY <1>1, <1>2, <1>6, <1>7 DEF FlowInv
  <2>5. place = "ref" => Levels' /\ Upward' /\ (\E i \in Nodes : i # dest /\ flayer[i] = 1)'
    BY <1>1, <1>2, <1>3, <1>8 DEF FlowInv
  <2>6. place = "move" => Levels' /\ Calls' /\ Tried' /\ Pullable' /\ \E left : Moving(left)'
    BY <1>3, <1>11, <1>13, <1>14, <1>18 DEF FlowInv
  <2>7. place = "sum" => \E S : CutOff(S)'
    BY <1>9 DEF FlowInv
  <2>8. QED
    BY <1>1, <2>1, <2>2, <2>3, <2>4, <2>5, <2>6, <2>7 DEF FlowInv
<1>20. Matrices' = Matrices /\ Call' = Call
  BY <1>2 DEF Matrices, Call
<1>21. FlowTypes'
  BY <1>1, <1>2, <1>20 DEF FlowTypes
<1>22. QED
  BY <1>19, <1>21

\* max_flow() begins.
LEMMA MaxFlowStep ==
  ASSUME Ground, FlowTypes, MaxFlow
  PROVE  FlowTypes' /\ FlowInv'
<1>1. /\ place' = "layer" /\ UNCHANGED <<inputVars, mat, todo>>
      /\ UNCHANGED <<flayer, fminpot, frefnode, way, stack>>
  BY DEF MaxFlow
<1>2. Nodes' = Nodes /\ numnodes' = numnodes
  BY <1>1, SamePair
<1>3. Fits' /\ AtEnds' /\ Conserved' /\ flow' \in [Nodes -> [Nodes -> Nat]]
  BY MaxFlowKeeps
<1>4. FlowInv'
  BY <1>1, <1>3 DEF FlowInv
<1>5. FlowTypes'
  BY <1>1, <1>2, <1>3 DEF FlowTypes, Matrices, Call
<1>6. QED
  BY <1>4, <1>5

\* layer_net() begins.
LEMMA LayerNetStep ==
  ASSUME Ground, FlowTypes, FlowInv, LayerNet
  PROVE  FlowTypes' /\ FlowInv'
<1>1. /\ place = "layer" /\ place' = "scan" /\ k' = 0
      /\ UNCHANGED <<inputVars, mat, todo>> /\ UNCHANGED <<flow, fminpot, frefnode, way, stack>>
  BY DEF LayerNet
<1>2. Nodes' = Nodes /\ src' = src /\ dest' = dest /\ fcap' = fcap /\ numnodes' = numnodes
  BY <1>1, SamePair
<1>3. Fits /\ AtEnds /\ Conserved
  BY <1>1 DEF FlowInv, FlowPlaces
<1>4. Fits' /\ AtEnds' /\ Conserved'
  BY <1>1, <1>2, <1>3 DEF Fits, AtEnds, Conserved, Net
<1>5. /\ flayer' \in [Nodes -> {0, UNSCANNED}]
      /\ Layered(0)' /\ Filled(0)' /\ Closed(0)' /\ (flayer[dest])' = UNSCANNED
  BY LayerNetKeeps
<1>6. Layered(k)' /\ Filled(k)' /\ Closed(k)'
  <2>1. Layered(k)'
    BY <1>1, <1>5 DEF Layered
  <2>2. Filled(k)'
    BY <1>1, <1>5 DEF Filled
  <2>3. Closed(k)'
    BY <1>1, <1>5 DEF Closed
  <2>4. QED
    BY <2>1, <2>2, <2>3
<1>7. FlowInv'
  BY <1>1, <1>4, <1>5, <1>6 DEF FlowInv
<1>8. FlowTypes'
  <2>1. numnodes \in Nat
    BY DEF Ground
  <2>2. {0, UNSCANNED} \subseteq -numnodes .. numnodes \cup {UNSCANNED, -UNSCANNED}
    BY <2>1
  <2>3. flayer' \in [Nodes -> -numnodes .. numnodes \cup {UNSCANNED, -UNSCANNED}]
    BY <1>5, <2>2
  <2>4. QED
    BY <1>1, <1>2, <2>3 DEF FlowTypes, Matrices, Call
<1>9. QED
  BY <1>7, <1>8

\* layer_net() labels one layer.
LEMMA ScanStep ==
  ASSUME Ground, k \in Nat, FlowTypes, FlowInv, Scan
  PROVE  FlowTypes' /\ FlowInv' /\ k' <= numnodes
<1>1. /\ place = "scan" /\ place' \in {"scan", "walk"}
      /\ UNCHANGED <<inputVars, mat, todo>> /\ UNCHANGED <<flow, fminpot, frefnode, way, stack>>
      /\ flayer' = [j \in Nodes |-> IF j \in NextLayer THEN -(k + 1) ELSE flayer[j]]
  BY DEF Scan
<1>2. Nodes' = Nodes /\ src' = src /\ dest' = dest /\ fcap' = fcap /\ numnodes' = numnodes
  BY <1>1, SamePair
<1>3. Fits /\ AtEnds /\ Conserved /\ Layered(k) /\ Filled(k) /\ Closed(k) /\ flayer[dest] = UNSCANNED
  BY <1>1 DEF FlowInv, FlowPlaces
<1>4. Fits' /\ AtEnds' /\ Conserved'
  BY <1>1, <1>2, <1>3 DEF Fits, AtEnds, Conserved, Net
<1>5. Scanned
  BY <1>3, ScanKeeps
<1>6. k' = k + 1 /\ k' <= numnodes
  BY <1>3, ScanLabels
<1>7. k' >= 1
  BY <1>6
<1>8. FlowInv'
  <2>1. CASE place' = "scan"
    BY <1>4, <1>5, <2>1 DEF FlowInv, Scanned
  <2>2. CASE place' = "walk"
    BY <1>4, <1>5, <1>7, <2>2 DEF FlowInv, Scanned
  <2>3. QED
    BY <1>1, <2>1, <2>2
<1>9. FlowTypes'
  <2> DEFINE V == -numnodes .. numnodes \cup {UNSCANNED, -UNSCANNED}
  <2>1. numnodes \in Nat
    BY DEF Ground
  <2>2. -(k + 1) \in V
    BY <1>6, <2>1
  <2>3. flayer \in [Nodes -> V]
    BY DEF FlowTypes
  <2> HIDE DEF V
  <2>4. flayer' \in [Nodes -> V]
    BY <1>1, <2>2, <2>3
  <2>5. QED
    BY <1>1, <1>2, <2>4 DEF FlowTypes, Matrices, Call, V
<1>10. QED
  BY <1>6, <1>8, <1>9

\* layer_net() ends.
LEMMA WalkBackStep ==
  ASSUME Ground, k \in Nat, FlowTypes, FlowInv, WalkBack
  PROVE  FlowTypes' /\ FlowInv'
<1>1. /\ place = "walk" /\ place' = IF flayer[dest] = UNSCANNED THEN "sum" ELSE "ref"
      /\ UNCHANGED <<inputVars, mat, todo>> /\ UNCHANGED <<flow, fminpot, frefnode, way, stack>>
      /\ flayer' = [j \in Nodes |-> IF j \in Walked THEN -flayer[j] ELSE flayer[j]]
  BY DEF WalkBack
<1>2. Nodes' = Nodes /\ src' = src /\ dest' = dest /\ fcap' = fcap /\ numnodes' = numnodes
  BY <1>1, SamePair
<1>3. /\ Fits /\ AtEnds /\ Conserved /\ k >= 1 /\ Layered(k)
      /\ flayer[dest] = UNSCANNED => Closed(k + 1)
      /\ flayer[dest] # UNSCANNED => flayer[dest] = -k
  BY <1>1 DEF FlowInv, FlowPlaces
<1>4. Fits' /\ AtEnds' /\ Conserved'
  BY <1>1, <1>2, <1>3 DEF Fits, AtEnds, Conserved, Net
<1>5. FlowInv'
  <2>1. CASE flayer[dest] = UNSCANNED
    <3>1. \E S : CutOff(S)'
      BY <1>3, <2>1, WalkBackCuts
    <3>2. QED
      BY <1>1, <1>4, <2>1, <3>1 DEF FlowInv
  <2>2. CASE flayer[dest] # UNSCANNED
    <3>1. Ready'
      BY <1>3, <2>2, WalkBackKeeps
    <3>2. QED
      BY <1>1, <1>4, <2>2, <3>1 DEF FlowInv, Ready
  <2>3. QED
    BY <2>1, <2>2
<1>6. FlowTypes'
  <2> DEFINE V == -numnodes .. numnodes \cup {UNSCANNED, -UNSCANNED}
  <2>1. numnodes \in Nat
    BY DEF Ground
  <2>2. \A x \in V : -x \in V
    BY <2>1 DEF UNSCANNED
  <2>3. flayer \in [Nodes -> V]
    BY DEF FlowTypes
  <2> HIDE DEF V
  <2>4. flayer' \in [Nodes -> V]
    BY <1>1, <2>2, <2>3
  <2>5. QED
    BY <1>1, <1>2, <2>4 DEF FlowTypes, Matrices, Call, V
<1>7. QED
  BY <1>5, <1>6

\* find_ref() returns and the push begins.
LEMMA FindRefStep ==
  ASSUME Ground, FlowTypes, FlowInv, FindRef
  PROVE  FlowTypes' /\ FlowInv'
<1>1. /\ place = "ref" /\ place' = "move"
      /\ UNCHANGED <<inputVars, mat, todo>> /\ UNCHANGED <<flow, flayer>>
  BY DEF FindRef
<1>2. Nodes' = Nodes /\ numnodes' = numnodes
  BY <1>1, SamePair
<1>3. Fits /\ AtEnds /\ Conserved /\ Levels /\ Upward /\ \E i \in Nodes : i # dest /\ flayer[i] = 1
  BY <1>1 DEF FlowInv, FlowPlaces
<1>4. /\ Fits' /\ AtEnds' /\ Levels' /\ Calls' /\ Tried' /\ Pullable'
      /\ flow' \in [Nodes -> [Nodes -> Nat]] /\ stack' \in Seq(Call)
      /\ way' = 1 /\ frefnode' \in Nodes /\ fminpot' \in Nat /\ fminpot' <= INFTY
      /\ \E new : Moving(new)'
  BY <1>3, FindRefKeeps
<1>5. FlowInv'
  BY <1>1, <1>4 DEF FlowInv
<1>6. FlowTypes'
  <2>1. INFTY \in Nat
    BY DEF Ground
  <2>2. fminpot' \in 0 .. INFTY
    BY <1>4, <2>1
  <2>3. way' \in {0, 1}
    BY <1>4
  <2>4. (stack \in Seq(Call))' /\ (flow \in Matrices)'
    BY <1>2, <1>4 DEF Call, Matrices
  <2>5. QED
    BY <1>1, <1>2, <1>4, <2>2, <2>3, <2>4 DEF FlowTypes
<1>7. QED
  BY <1>5, <1>6

\* push_pull() is at work.
LEMMA PushingIs ==
  ASSUME Ground, FlowTypes, FlowInv, place = "move"
  PROVE  Pushing /\ \E left : Moving(left)
<1>1. Fits /\ AtEnds /\ Levels /\ Calls /\ Tried /\ Pullable /\ \E left : Moving(left)
  BY DEF FlowInv, FlowPlaces
<1>2. way \in {0, 1} /\ stack \in Seq(Call) /\ fminpot \in Nat /\ frefnode \in Nodes
  <2>1. INFTY \in Nat
    BY DEF Ground
  <2>2. fminpot \in 0 .. INFTY
    BY DEF FlowTypes
  <2>3. QED
    BY <2>1, <2>2 DEF FlowTypes
<1>3. QED
  BY <1>1, <1>2 DEF Pushing

\* push_pull() uses one arc.
LEMMA MoveStep ==
  ASSUME Ground, FlowTypes, FlowInv, Move
  PROVE  FlowTypes' /\ FlowInv'
<1>1. /\ place = "move" /\ place' = "move"
      /\ UNCHANGED <<inputVars, mat, todo>> /\ UNCHANGED <<flayer, fminpot, frefnode, way>>
  BY DEF Move
<1>2. Nodes' = Nodes /\ numnodes' = numnodes
  BY <1>1, SamePair
<1>3. Pushing /\ \E left : Moving(left)
  BY <1>1, PushingIs
<1>4. /\ Fits' /\ AtEnds' /\ Levels' /\ Calls' /\ Tried' /\ Pullable'
      /\ flow' \in [Nodes -> [Nodes -> Nat]] /\ stack' \in Seq(Call)
      /\ \E new : Moving(new)'
  BY <1>1, <1>3, MoveKeeps
<1>5. FlowInv'
  BY <1>1, <1>4 DEF FlowInv
<1>6. FlowTypes'
  <2>1. (stack \in Seq(Call))' /\ (flow \in Matrices)'
    BY <1>2, <1>4 DEF Call, Matrices
  <2>2. QED
    BY <1>1, <1>2, <2>1 DEF FlowTypes
<1>7. QED
  BY <1>5, <1>6

\* A call of push_pull() returns, to its caller, to the pull or to the next network.
LEMMA ReturnedStep ==
  ASSUME Ground, FlowTypes, FlowInv, Returned
  PROVE  FlowTypes' /\ FlowInv'
<1>1. /\ place = "move" /\ place' = IF stack' = <<>> THEN "layer" ELSE "move"
      /\ UNCHANGED <<inputVars, mat, todo>> /\ UNCHANGED <<flayer, fminpot, frefnode>>
  BY DEF Returned
<1>2. Nodes' = Nodes /\ numnodes' = numnodes
  BY <1>1, SamePair
<1>3. Pushing /\ \E left : Moving(left)
  BY <1>1, PushingIs
<1>4. /\ Fits' /\ AtEnds' /\ Levels' /\ way' \in {0, 1}
      /\ flow' \in [Nodes -> [Nodes -> Nat]] /\ stack' \in Seq(Call)
      /\ stack' = <<>> => Conserved'
      /\ stack' # <<>> => Calls' /\ Tried' /\ Pullable' /\ \E new : Moving(new)'
  BY <1>1, <1>3, ReturnedKeeps
<1>5. FlowInv'
  <2>1. CASE stack' = <<>>
    BY <1>1, <1>4, <2>1 DEF FlowInv
  <2>2. CASE stack' # <<>>
    BY <1>1, <1>4, <2>2 DEF FlowInv
  <2>3. QED
    BY <2>1, <2>2
<1>6. FlowTypes'
  <2>1. (stack \in Seq(Call))' /\ (flow \in Matrices)'
    BY <1>2, <1>4 DEF Call, Matrices
  <2>2. QED
    BY <1>1, <1>2, <1>4, <2>1 DEF FlowTypes
<1>7. QED
  BY <1>5, <1>6

(***************************************************************************)
(* The theorem                                                             *)
(***************************************************************************)

\* The invariant holds at the start.
LEMMA FlowStart == CapacitiesBelow /\ GraphInit => FlowState
<1> SUFFICES ASSUME CapacitiesBelow, GraphInit PROVE FlowState
  OBVIOUS
<1>1. PathInv
  BY PathInit
<1>2. FileInv /\ CommandTypes /\ PathTypes /\ FlowTypes
  BY FileStarts
<1>3. place = "read"
  BY DEF GraphInit
<1>4. FlowInv
  BY <1>3 DEF FlowInv, FlowPlaces
<1>5. QED
  BY <1>1, <1>2, <1>4 DEF FlowState

\* Every step keeps it.
LEMMA FlowStep == FlowState /\ [GraphNext]_graphVars => FlowState'
<1> SUFFICES ASSUME FlowState, [GraphNext]_graphVars PROVE FlowState'
  OBVIOUS
<1>1. PathInv /\ FileInv /\ CommandTypes /\ PathTypes /\ FlowTypes /\ FlowInv
  BY DEF FlowState
<1>2. PathInv' /\ FileInv' /\ CommandTypes'
  BY <1>1, PathStep, FileKeeps, CommandTypesKeep
<1>3. k \in Nat
  <2>1. numnodes \in Nat /\ k \in 0 .. numnodes
    BY <1>1 DEF PathInv, PathTypes
  <2>2. QED
    BY <2>1
<1>4. ASSUME place \notin {"read", "rloop", "quit"} PROVE Ground
  <2>1. todo # <<>>
    BY <1>1, <1>4 DEF PathInv
  <2>2. QED
    BY <1>1, <2>1, GroundIs
<1>5. FlowTypes' /\ FlowInv' /\ (Scan => k' <= numnodes)
  <2>1. CASE IdleStep
    <3>1. FlowTypes' /\ FlowInv'
      BY <1>1, <2>1, IdleKeeps
    <3>2. place \in {"read", "rloop", "call", "repeat", "trace", "sum"}
      BY <2>1 DEF IdleStep, Command, AskPath, AskFlow, AskConnectivity, PathTable, FlowTable,
                  ConnectivityTable, Quit, Enter, ReadLine, ReadEnd, ShortPath, Repeat, Trace, Sum
    <3>3. ~Scan
      BY <3>2 DEF Scan
    <3>4. QED
      BY <3>1, <3>3
  <2>2. CASE MaxFlow
    <3>1. place = "call"
      BY <2>2 DEF MaxFlow
    <3>2. QED
      BY <1>1, <1>4, <2>2, <3>1, MaxFlowStep DEF Scan
  <2>3. CASE LayerNet
    <3>1. place = "layer"
      BY <2>3 DEF LayerNet
    <3>2. QED
      BY <1>1, <1>4, <2>3, <3>1, LayerNetStep DEF Scan
  <2>4. CASE Scan
    <3>1. place = "scan"
      BY <2>4 DEF Scan
    <3>2. QED
      BY <1>1, <1>3, <1>4, <2>4, <3>1, ScanStep
  <2>5. CASE WalkBack
    <3>1. place = "walk"
      BY <2>5 DEF WalkBack
    <3>2. QED
      BY <1>1, <1>3, <1>4, <2>5, <3>1, WalkBackStep DEF Scan
  <2>6. CASE FindRef
    <3>1. place = "ref"
      BY <2>6 DEF FindRef
    <3>2. QED
      BY <1>1, <1>4, <2>6, <3>1, FindRefStep DEF Scan
  <2>7. CASE Move
    <3>1. place = "move"
      BY <2>7 DEF Move
    <3>2. QED
      BY <1>1, <1>4, <2>7, <3>1, MoveStep DEF Scan
  <2>8. CASE Returned
    <3>1. place = "move"
      BY <2>8 DEF Returned
    <3>2. QED
      BY <1>1, <1>4, <2>8, <3>1, ReturnedStep DEF Scan
  <2>9. CASE UNCHANGED graphVars
    <3>1. FlowTypes' /\ FlowInv'
      BY <1>1, <2>9, FlowStays
    <3>2. k' = k
      BY <2>9 DEF graphVars, pathVars
    <3>3. k <= numnodes
      BY <1>1 DEF PathInv, PathTypes
    <3>4. QED
      BY <3>1, <3>2, <3>3
  <2>10. QED
    BY <2>1, <2>2, <2>3, <2>4, <2>5, <2>6, <2>7, <2>8, <2>9 DEF GraphNext, Work, IdleStep
<1>6. PathTypes'
  BY <1>1, <1>5, PathTypesKeep
<1>7. QED
  BY <1>2, <1>5, <1>6 DEF FlowState

\* What holds in these states is what the flow must be.
LEMMA FlowIsRight == FlowState => MaximumFlow
<1> SUFFICES ASSUME FlowState PROVE MaximumFlow
  OBVIOUS
<1>1. PathInv /\ FileInv /\ CommandTypes /\ PathTypes /\ FlowTypes /\ FlowInv
  BY DEF FlowState
<1>2. GraphTypes
  BY <1>1, TypesAre
<1>3. ASSUME place \in FlowPlaces PROVE Ground
  <2>1. todo # <<>>
    BY <1>1, <1>3 DEF PathInv, FlowPlaces
  <2>2. QED
    BY <1>1, <2>1, GroundIs
<1>4. NothingLeft
  <2> SUFFICES ASSUME place = "move", Usable = {} PROVE top.flowleft = 0
    BY DEF NothingLeft
  <2>1. Pushing /\ \E left : Moving(left)
    BY <1>1, <1>3, PushingIs DEF FlowPlaces
  <2>2. QED
    BY <2>1, NothingIsLeft
<1>5. ValidFlow
  <2> SUFFICES ASSUME place \in {"layer", "move", "sum"}
               PROVE  /\ \A i, j \in Nodes : flow[i][j] <= fcap[i][j] /\ (flow[i][j] = 0 \/ flow[j][i] = 0)
                      /\ place # "move" => \A i \in Nodes \ {src, dest} :
                           SumFunction([j \in Nodes |-> flow[j][i]]) = SumFunction([j \in Nodes |-> flow[i][j]])
    BY DEF ValidFlow
  <2>1. place \in FlowPlaces /\ (place # "move" => place \in FlowPlaces \ {"move"})
    BY DEF FlowPlaces
  <2>2. Fits
    BY <1>1, <2>1 DEF FlowInv
  <2>3. ASSUME place # "move", NEW i \in Nodes \ {src, dest}
        PROVE  SumFunction([j \in Nodes |-> flow[j][i]]) = SumFunction([j \in Nodes |-> flow[i][j]])
    <3>1. Conserved
      BY <1>1, <2>1, <2>3 DEF FlowInv
    <3>2. QED
      BY <1>3, <2>1, <3>1, InIsOut
  <2>4. QED
    BY <2>2, <2>3 DEF Fits
<1>6. FlowIsMinimumCut
  <2> SUFFICES ASSUME place = "sum"
               PROVE  Value = Min({Capacity(S \cup {src}) : S \in SUBSET (Nodes \ {src, dest})})
    BY DEF FlowIsMinimumCut, Value
  <2>1. place \in FlowPlaces \ {"move"}
    BY DEF FlowPlaces
  <2>2. Fits /\ AtEnds /\ Conserved /\ \E S : CutOff(S)
    BY <1>1, <2>1 DEF FlowInv
  <2>3. Ground
    BY <1>3, <2>1
  <2>4. QED
    BY <2>2, <2>3, ValueIsMinimum
<1>7. QED
  BY <1>2, <1>4, <1>5, <1>6 DEF MaximumFlow

\* Whatever the network and the pair, the flow found is a flow, each step on
\* the way to it moves what find_ref() found room for, and its value is the
\* capacity of the smallest cut (ngraph.c:678-871).
THEOREM MaximumAlways ==
  ASSUME CapacitiesBelow
  PROVE  GraphSpec => []MaximumFlow
<1>1. GraphInit => FlowState
  BY FlowStart
<1>2. FlowState /\ [GraphNext]_graphVars => FlowState'
  BY FlowStep
<1>3. FlowState => MaximumFlow
  BY FlowIsRight
<1>4. QED
  BY <1>1, <1>2, <1>3, PTL DEF GraphSpec
=============================================================================
