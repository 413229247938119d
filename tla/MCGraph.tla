------------------------------- MODULE MCGraph -------------------------------
(* Small networks for Graph: every network of three nodes with these arcs,  *)
(* some files that override a line, and networks whose flow must be undone. *)
EXTENDS Graph

Arc(i, j, m, c) == [from |-> i, to |-> j, metric |-> m, cap |-> c]

(* For each pair of nodes a line, or none. *)
LineOrNone(i, j) == {<<>>} \cup {<<Arc(i, j, m, c)>> : m \in {1, 3}, c \in {0, 2}}
                        \cup {<<Arc(i, j, 1, 1)>>}

Triangles == {[n |-> 3, lines |-> a \o b \o c] :
                a \in LineOrNone(0, 1), b \in LineOrNone(1, 2), c \in LineOrNone(0, 2)}

(* Four nodes: a ring with two chords, the capacities of the chords vary. *)
Squares == {[n |-> 4, lines |-> <<Arc(0, 1, 1, p), Arc(1, 2, 2, 1), Arc(2, 3, 1, q),
                                  Arc(3, 0, 2, 3), Arc(0, 2, r, 2), Arc(1, 3, 4, 1)>>] :
              p \in 1 .. 3, q \in 1 .. 2, r \in {0, 1, 4}}

Others == {
  (* the first path found uses 1-3, which the second has to undo *)
  [n |-> 6, lines |-> <<Arc(0, 1, 1, 1), Arc(1, 3, 1, 1), Arc(3, 5, 1, 1),
                        Arc(0, 2, 1, 1), Arc(2, 3, 3, 1), Arc(1, 4, 3, 1), Arc(4, 5, 1, 1)>>],
  (* a dead end, and a node that nothing reaches *)
  [n |-> 5, lines |-> <<Arc(0, 1, 1, 2), Arc(1, 2, 1, 2), Arc(1, 3, 1, 2)>>],
  (* a line that is overridden, and one back to a lower number *)
  [n |-> 3, lines |-> <<Arc(0, 1, 3, 2), Arc(1, 0, 1, 0), Arc(2, 1, 1, 1)>>],
  (* a line from a node to itself *)
  [n |-> 3, lines |-> <<Arc(0, 0, 1, 1), Arc(0, 1, 1, 1), Arc(1, 2, 7, 2)>>]}

MCFiles == Triangles \cup Squares \cup Others
=============================================================================
