-------------------------------- MODULE Graph --------------------------------
(***************************************************************************)
(* cmps3620/code/lab6/ngraph.c: an undirected network is read from a file  *)
(* and analysed: Dijkstra's shortest path, computed from the destination   *)
(* back, and the maximum flow by layered networks, each phase pushing and  *)
(* pulling what the node of smallest potential can take.                   *)
(*                                                                         *)
(* short_path() is one step per turn of its goto; max_flow() one step per  *)
(* layer_net(), per find_ref() and per arc that push_pull() uses, with the *)
(* recursion of push_pull() as an explicit stack.  walk() and find_ref()   *)
(* recurse over the layers, so they are functions on the layers.  The      *)
(* display is left out.                                                    *)
(***************************************************************************)
EXTENDS Integers, Sequences, FiniteSets, FiniteSetsExt, SequencesExt

CONSTANTS
  Files,         \* graph files: number of nodes and the lines on arcs
  INFTY,         \* "no arc" in metric[][], and the label of an unreached node
  MaxCommands    \* bound: commands entered before q

UNSCANNED == -20

Lines == [from: Nat, to: Nat, metric: Nat, cap: Nat]

ASSUME GraphAssumption ==
  /\ INFTY \in Nat \ {0, 1}
  /\ MaxCommands \in Nat
  /\ \A f \in Files : /\ f.n \in 2 .. 20
                      /\ f.lines \in Seq([from: 0 .. f.n - 1, to: 0 .. f.n - 1,
                                          metric: Nat, cap: Nat])

VARIABLES
  place,                          \* where the program is
  numnodes, lines,             \* the file: nodes, and the lines still to read
  metric, capacity, kmat,      \* the three matrices
  entered,                     \* commands entered so far
  mat, todo,                   \* the matrix of this command, its <<dest, src>> pairs
  answers,                     \* what the calls of this command have returned
  nodestate, k,                \* short_path(): labels, working node; layer_net(): layer
  flow, flayer, fminpot, frefnode,   \* max_flow() and the functions under it
  way, stack                   \* push_pull(): 1 to push, and its active calls

inputVars == <<numnodes, lines, metric, capacity, kmat>>
pathVars  == <<nodestate, k>>
flowVars  == <<flow, flayer, fminpot, frefnode, way, stack>>
graphVars == <<place, inputVars, entered, mat, todo, answers, pathVars, flowVars>>

Nodes == 0 .. numnodes - 1

(* The pair that the calls of this command are about. *)
dest == Head(todo)[1]
src  == Head(todo)[2]

(* fcap[][], a copy that nobody changes, and min(). *)
fcap == IF mat = "capacity" THEN capacity ELSE kmat
Lesser(i, j) == IF i < j THEN i ELSE j

(***************************************************************************)
(* main(): the graph file, then commands.                                  *)
(***************************************************************************)
GraphInit ==
  /\ \E f \in Files :
       /\ numnodes = f.n
       /\ lines = f.lines
       /\ metric = [i \in 0 .. f.n - 1 |-> [j \in 0 .. f.n - 1 |->
                                              IF i = j THEN 0 ELSE INFTY]]
       /\ capacity = [i \in 0 .. f.n - 1 |-> [j \in 0 .. f.n - 1 |-> 0]]
       /\ kmat = capacity
       /\ flow = capacity
       /\ flayer = [i \in 0 .. f.n - 1 |-> 0]
       /\ nodestate = [i \in 0 .. f.n - 1 |-> [perm |-> 0, predecess |-> -1, len |-> INFTY]]
  /\ place = "read"
  /\ entered = 0 /\ mat = "metric" /\ todo = <<>> /\ answers = {}
  /\ k = 0 /\ fminpot = 0 /\ frefnode = 0 /\ way = 1 /\ stack = <<>>

Both(m, l, v) == [m EXCEPT ![l.from][l.to] = v, ![l.to][l.from] = v]

(* A later line on the same pair overrides, except that kmat keeps its 1. *)
ReadLine ==
  /\ place = "read" /\ lines # <<>>
  /\ LET l == Head(lines) IN
       /\ metric' = Both(metric, l, l.metric)
       /\ kmat' = IF l.cap > 0 THEN Both(kmat, l, 1) ELSE kmat
       /\ capacity' = Both(capacity, l, l.cap)
  /\ lines' = Tail(lines)
  /\ UNCHANGED <<place, numnodes, entered, mat, todo, answers, pathVars, flowVars>>

ReadEnd ==
  /\ place = "read" /\ lines = <<>>
  /\ place' = "rloop"
  /\ UNCHANGED <<inputVars, entered, mat, todo, answers, pathVars, flowVars>>

Enter(m, pairs) ==
  /\ place = "rloop" /\ entered < MaxCommands
  /\ place' = "call"
  /\ entered' = entered + 1
  /\ mat' = m /\ todo' = pairs /\ answers' = {}
  /\ UNCHANGED <<inputVars, pathVars, flowVars>>

(* One pair: the numbers are in range and the nodes differ, or are asked for again. *)
Pairs == {p \in Nodes \X Nodes : p[1] # p[2]}

AskPath         == \E p \in Pairs : Enter("metric", <<p>>)
AskFlow         == \E p \in Pairs : Enter("capacity", <<p>>)
AskConnectivity == \E p \in Pairs : Enter("kmat", <<p>>)

(* A table: row i, columns j < i, dest i and source j. *)
TablePairs == FlattenSeq([i \in 1 .. numnodes - 1 |-> [j \in 1 .. i |-> <<i, j - 1>>]])

PathTable         == Enter("metric", TablePairs)
FlowTable         == Enter("capacity", TablePairs)
ConnectivityTable == Enter("kmat", TablePairs)

Quit ==
  /\ place = "rloop" /\ place' = "quit"
  /\ UNCHANGED <<inputVars, entered, mat, todo, answers, pathVars, flowVars>>

(* A call returns value (and path): the next pair of a table, or the prompt. *)
Return(value, path) ==
  /\ answers' = answers \cup {[dest |-> dest, src |-> src, mat |-> mat,
                               value |-> value, path |-> path]}
  /\ todo' = Tail(todo)
  /\ place' = IF Tail(todo) = <<>> THEN "rloop" ELSE "call"
  /\ UNCHANGED <<inputVars, entered, mat>>

(***************************************************************************)
(* short_path()                                                            *)
(***************************************************************************)
ShortPath ==
  /\ place = "call" /\ mat = "metric"
  /\ nodestate' = [i \in Nodes |-> [perm |-> IF i = dest THEN 1 ELSE 0,
                                    predecess |-> -1,
                                    len |-> IF i = dest THEN 0 ELSE INFTY]]
  /\ k' = dest
  /\ place' = "repeat"
  /\ UNCHANGED <<inputVars, entered, mat, todo, answers, flowVars>>

(* Mutant: a label is replaced whether or not the new one is smaller. *)
RelaxedAlways ==
  [i \in Nodes |->
     IF metric[k][i] # 0 /\ metric[k][i] # INFTY /\ nodestate[i].perm = 0
     THEN [nodestate[i] EXCEPT !.predecess = k,
                               !.len = nodestate[k].len + metric[k][i]]
     ELSE nodestate[i]]

(* The labels once the neighbours of the working node have been examined. *)
Relaxed ==
  [i \in Nodes |->
     IF /\ metric[k][i] # 0 /\ metric[k][i] # INFTY
        /\ nodestate[i].perm = 0
        /\ nodestate[k].len + metric[k][i] < nodestate[i].len
     THEN [nodestate[i] EXCEPT !.predecess = k,
                               !.len = nodestate[k].len + metric[k][i]]
     ELSE nodestate[i]]

(* Mutant: permanent nodes are chosen again. *)
NextUnmarked(ns) == Min({i \in Nodes : \A j \in Nodes : ns[i].len <= ns[j].len})

(* The first of the tentative nodes with the smallest label below INFTY; *)
(* k itself when there is none.                                          *)
NextWorking(ns) ==
  LET tentative == {i \in Nodes : ns[i].perm = 0 /\ ns[i].len < INFTY}
      smallest == {i \in tentative : \A j \in tentative : ns[i].len <= ns[j].len}
  IN IF tentative = {} THEN k ELSE Min(smallest)

Repeat ==
  /\ place = "repeat"
  /\ k' = NextWorking(Relaxed)
  /\ nodestate' = [Relaxed EXCEPT ![k'].perm = 1]
  /\ place' = IF k' # src THEN "repeat" ELSE "trace"
  /\ UNCHANGED <<inputVars, entered, mat, todo, answers, flowVars>>

(* The path from src, by its predecessors, and the sum of its metrics: the *)
(* while loop ends at a node without one.                                  *)
Followed(t) ==
  LET node == Last(t.path)
      next == nodestate[node].predecess
  IN  IF next = -1 THEN t
      ELSE [path |-> Append(t.path, next), sum |-> t.sum + metric[node][next]]

Trail ==
  LET turn[n \in 0 .. numnodes] ==
        IF n = 0 THEN [path |-> <<src>>, sum |-> 0] ELSE Followed(turn[n - 1])
  IN  turn[numnodes]

Trace ==
  /\ place = "trace"
  /\ Return(Trail.sum, Trail.path)
  /\ UNCHANGED <<pathVars, flowVars>>

(***************************************************************************)
(* max_flow() and the functions it calls                                   *)
(***************************************************************************)
MaxFlow ==
  /\ place = "call" /\ mat # "metric"
  /\ flow' = [i \in Nodes |-> [j \in Nodes |->
                IF i = src /\ j = dest THEN fcap[i][j] ELSE 0]]
  /\ place' = "layer"
  /\ UNCHANGED <<inputVars, entered, mat, todo, answers, pathVars,
                 flayer, fminpot, frefnode, way, stack>>

(* Mutant: an arc in use is taken for saturated. *)
UnusedOnly(i, j) == (flow[i][j] = 0 /\ fcap[i][j] > 0) \/ flow[j][i] > 0

Residual(i, j) == flow[i][j] < fcap[i][j] \/ flow[j][i] > 0

LayerNet ==
  /\ place = "layer"
  /\ flayer' = [j \in Nodes |-> IF j = src THEN 0 ELSE UNSCANNED]
  /\ k' = 0
  /\ place' = "scan"
  /\ UNCHANGED <<inputVars, entered, mat, todo, answers, nodestate,
                 flow, fminpot, frefnode, way, stack>>

(* The nodes of the next layer, stored negative. *)
NextLayer == {j \in Nodes : /\ flayer[j] = UNSCANNED
                            /\ \E i \in Nodes : -flayer[i] = k /\ Residual(i, j)}

Scan ==
  /\ place = "scan"
  /\ flayer' = [j \in Nodes |-> IF j \in NextLayer THEN -(k + 1) ELSE flayer[j]]
  /\ k' = k + 1
  /\ place' = IF dest \in NextLayer \/ NextLayer = {} THEN "walk" ELSE "scan"
  /\ UNCHANGED <<inputVars, entered, mat, todo, answers, nodestate,
                 flow, fminpot, frefnode, way, stack>>

(* What walk() reaches from dest, from layer to layer below, never the source. *)
Walked ==
  LET down[n \in 0 .. k - 1] ==
        IF n = 0 THEN {dest}
        ELSE LET above == down[n - 1]
             IN  above \cup
                   {j \in Nodes \ {src} :
                      /\ flayer[j] = n - k
                      /\ \E i \in above : flayer[i] = n - k - 1 /\ Residual(j, i)}
  IN  down[k - 1]

WalkBack ==
  /\ place = "walk"
  /\ flayer' = [j \in Nodes |-> IF j \in Walked THEN -flayer[j] ELSE flayer[j]]
  /\ place' = IF flayer[dest] = UNSCANNED THEN "sum" ELSE "ref"
  /\ k' = 0
  /\ UNCHANGED <<inputVars, entered, mat, todo, answers, nodestate,
                 flow, fminpot, frefnode, way, stack>>

(* The order in which find_ref() leaves the nodes. *)
Visits[i \in Nodes] ==
  FlattenSeq([n \in 1 .. numnodes |->
    LET j == n - 1 IN
      IF flayer[j] = flayer[i] - 1 /\ j # src /\ Residual(j, i)
      THEN Visits[j] ELSE <<>>])
  \o <<i>>

(* The smaller of what can come in from the layer below and leave to the *)
(* one above: the potential of a node.                                   *)
Incap(i)  == SumFunction([j \in {j \in Nodes : flayer[j] = flayer[i] - 1} |->
                            fcap[j][i] - flow[j][i] + flow[i][j]])
Outcap(i) == SumFunction([j \in {j \in Nodes : flayer[j] = flayer[i] + 1} |->
                            fcap[i][j] - flow[i][j] + flow[j][i]])
Potential(i) == Lesser(Incap(i), Outcap(i))

(* The nodes walk() reached, and of these the ones that come down to the *)
(* smallest potential below INFTY.                                       *)
Candidates == {i \in Nodes \ {dest} : flayer[i] > 0 /\ Potential(i) < INFTY}
Least == {i \in Candidates : \A j \in Candidates : Potential(i) <= Potential(j)}

FirstVisited(S) ==
  LET order == Visits[dest] IN order[Min({n \in 1 .. Len(order) : order[n] \in S})]

(* frefnode is left alone when there is no candidate. *)
FindRef ==
  /\ place = "ref"
  /\ frefnode' = IF Least = {} THEN frefnode ELSE FirstVisited(Least)
  /\ fminpot' = IF Least = {} THEN INFTY ELSE Potential(frefnode')
  /\ way' = 1
  /\ stack' = <<[node |-> frefnode', flowleft |-> fminpot', j |-> -1]>>
  /\ place' = "move"
  /\ UNCHANGED <<inputVars, entered, mat, todo, answers, pathVars, flow, flayer>>

(* push_pull(): the call on top of the stack, the arc it tries for j, and  *)
(* the next j it uses.                                                     *)
top == Head(stack)
From(j) == IF way = 1 THEN top.node ELSE j
To(j)   == IF way = 1 THEN j ELSE top.node
Sought  == IF way = 1 THEN flayer[top.node] + 1 ELSE flayer[top.node] - 1

Movable(j) == Lesser(top.flowleft,
                     fcap[From(j)][To(j)] - flow[From(j)][To(j)] + flow[To(j)][From(j)])

Usable == IF top.flowleft > 0
          THEN {j \in Nodes : j > top.j /\ Movable(j) > 0 /\ flayer[j] = Sought}
          ELSE {}

(* Mutant: nothing flows back. *)
AddedOnly(i, j, r) == [flow EXCEPT ![i][j] = @ + r]

(* r units more from i to j: what flows back is cancelled first. *)
Augmented(i, j, r) ==
  LET back == Lesser(r, flow[j][i]) IN
    [flow EXCEPT ![i][j] = @ + r - back, ![j][i] = @ - back]

Move ==
  /\ place = "move" /\ Usable # {}
  /\ LET j == Min(Usable)
         r == Movable(j)
         rest == <<[top EXCEPT !.flowleft = @ - r, !.j = j]>> \o Tail(stack)
     IN /\ flow' = Augmented(From(j), To(j), r)
        /\ stack' = IF j \in {src, dest} THEN rest
                    ELSE <<[node |-> j, flowleft |-> r, j |-> -1]>> \o rest
  /\ UNCHANGED <<place, inputVars, entered, mat, todo, answers, pathVars,
                 flayer, fminpot, frefnode, way>>

(* A call of push_pull() returns; after the push comes the pull, and after *)
(* the pull the next network.                                              *)
Returned ==
  /\ place = "move" /\ Usable = {}
  /\ IF Tail(stack) = <<>> /\ way = 1
     THEN /\ way' = 0
          /\ stack' = <<[node |-> frefnode, flowleft |-> fminpot, j |-> -1]>>
     ELSE way' = way /\ stack' = Tail(stack)
  /\ place' = IF stack' = <<>> THEN "layer" ELSE "move"
  /\ UNCHANGED <<inputVars, entered, mat, todo, answers, pathVars,
                 flow, flayer, fminpot, frefnode>>

Sum ==
  /\ place = "sum"
  /\ Return(SumFunction([i \in Nodes |-> flow[src][i]]), <<>>)
  /\ UNCHANGED <<pathVars, flowVars>>

Command == \/ AskPath \/ AskFlow \/ AskConnectivity
           \/ PathTable \/ FlowTable \/ ConnectivityTable \/ Quit
Work == \/ ReadLine \/ ReadEnd
        \/ ShortPath \/ Repeat \/ Trace
        \/ MaxFlow \/ LayerNet \/ Scan \/ WalkBack \/ FindRef \/ Move \/ Returned \/ Sum
GraphNext == Command \/ Work

GraphSpec == GraphInit /\ [][GraphNext]_graphVars

(* The program goes on by itself; commands come or do not. *)
GraphFairSpec == GraphSpec /\ WF_graphVars(Work)

(***************************************************************************)
(* What it must compute                                                    *)
(***************************************************************************)
Matrices == [Nodes -> [Nodes -> Nat]]

(* Every variable keeps its type: flows and what is left to push are never *)
(* negative.                                                               *)
GraphTypes ==
  /\ place \in {"read", "rloop", "call", "repeat", "trace", "layer", "scan", "walk", "ref",
           "move", "sum", "quit"}
  /\ numnodes \in Nat /\ lines \in Seq(Lines)
  /\ metric \in Matrices /\ capacity \in Matrices /\ kmat \in Matrices
  /\ entered \in 0 .. MaxCommands
  /\ mat \in {"metric", "capacity", "kmat"} /\ todo \in Seq(Pairs)
  /\ nodestate \in [Nodes -> [perm: {0, 1}, predecess: Nodes \cup {-1}, len: 0 .. INFTY]]
  /\ k \in 0 .. numnodes
  /\ flow \in Matrices
  /\ flayer \in [Nodes -> -numnodes .. numnodes \cup {UNSCANNED, -UNSCANNED}]
  /\ fminpot \in 0 .. INFTY /\ frefnode \in Nodes /\ way \in {0, 1}
  /\ stack \in Seq([node: Nodes, flowleft: Nat, j: Nodes \cup {-1}])

(* Metric 0 and INFTY are no arc. *)
Arcs == {a \in Nodes \X Nodes : metric[a[1]][a[2]] \notin {0, INFTY}}

(* The lengths of the shortest paths to d with at most one arc more.       *)
OneMore(lengths) ==
  [i \in Nodes |-> Min({lengths[i]} \cup {metric[i][j] + lengths[j] :
                                           j \in {j \in Nodes : <<i, j>> \in Arcs}})]

(* The length of the shortest of all paths from s to d; INFTY without one. *)
Distance(d, s) ==
  LET within[n \in 0 .. numnodes] ==
        IF n = 0 THEN [i \in Nodes |-> IF i = d THEN 0 ELSE INFTY]
        ELSE LET shorter == within[n - 1] IN OneMore(shorter)
  IN  within[numnodes][s]

(* An answer of short_path() is a path along arcs from source to            *)
(* destination, each of its arcs the first of a shortest path, and the      *)
(* value is the shortest length there is (ngraph.c:548-604: labels are made *)
(* permanent one at a time, and never looked at again).                     *)
ShortestPath ==
  \A a \in {a \in answers : a.mat = "metric"} :
    /\ a.path[1] = a.src /\ a.path[Len(a.path)] = a.dest
    /\ a.value = Distance(a.dest, a.src)
    /\ \A n \in 1 .. Len(a.path) - 1 :
         LET i == a.path[n]
             j == a.path[n + 1]
         IN  /\ <<i, j>> \in Arcs
             /\ Distance(a.dest, i) = metric[i][j] + Distance(a.dest, j)

(* What the reference node was found able to take, every call of            *)
(* push_pull() finds room for: none returns with flow left to move          *)
(* (ngraph.c:741-746, 772, 802).                                            *)
NothingLeft == place = "move" /\ Usable = {} => top.flowleft = 0

(* The flow is within the capacities and never runs both ways on an arc;    *)
(* between phases what enters a node other than source and destination      *)
(* leaves it (ngraph.c:787-799).                                            *)
ValidFlow ==
  place \in {"layer", "move", "sum"} =>
    /\ \A i, j \in Nodes : flow[i][j] <= fcap[i][j] /\ (flow[i][j] = 0 \/ flow[j][i] = 0)
    /\ place # "move" => \A i \in Nodes \ {src, dest} :
         SumFunction([j \in Nodes |-> flow[j][i]]) = SumFunction([j \in Nodes |-> flow[i][j]])

(* The capacity of the cut around S.                                        *)
Capacity(S) == SumFunction([i \in S |-> SumFunction([j \in Nodes \ S |-> fcap[i][j]])])

(* When no layered network reaches the destination the flow out of the      *)
(* source is the capacity of the smallest cut (ngraph.c:839-871: "at this   *)
(* point we have a valid flow matrix and can find the max flow").           *)
FlowIsMinimumCut ==
  place = "sum" => SumFunction([i \in Nodes |-> flow[src][i]]) =
                Min({Capacity(S \cup {src}) : S \in SUBSET (Nodes \ {src, dest})})

(* A maximum flow is found, and each step on the way to it is one.          *)
MaximumFlow == GraphTypes /\ NothingLeft /\ ValidFlow /\ FlowIsMinimumCut

(* Every pair this command still asks for has a path shorter than INFTY. *)
Answerable == \A n \in 1 .. Len(todo) :
                mat = "metric" => Distance(todo[n][1], todo[n][2]) < INFTY

(* A command comes back to the prompt: every flow is found in finitely many *)
(* phases and every path in finitely many turns of the goto, except when a  *)
(* source cannot be reached (ngraph.c:590, 839).                            *)
CommandReturns == place = "call" /\ Answerable ~> place = "rloop"
=============================================================================
