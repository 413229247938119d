------------------------------ MODULE ConnService ------------------------------
(***************************************************************************)
(* What the daemon of lab 5 promises its clients, without processes,       *)
(* signals or descriptors: connections are taken in the order of arrival,  *)
(* at most MaxServed of them are served at any time, and one is turned     *)
(* away only after MaxServed others have been given a child.  When the     *)
(* daemon stops, those it has not handed to a child are dropped and the    *)
(* others go on.                                                           *)
(***************************************************************************)
EXTENDS Naturals, Sequences, FiniteSets

CONSTANTS Conns, MaxServed

VARIABLES
  queue,     \* arrived, in order, not yet taken
  state,     \* what has become of each connection
  up         \* the daemon runs

vars == <<queue, state, up>>

In(st) == {c \in Conns : state[c] = st}

Init == /\ queue = <<>>
        /\ state = [c \in Conns |-> "new"]
        /\ up = TRUE

Arrive(c) ==
  /\ up /\ state[c] = "new"
  /\ queue' = Append(queue, c)
  /\ state' = [state EXCEPT ![c] = "queued"]
  /\ UNCHANGED up

(* One connection at a time is between the queue and a child. *)
Take ==
  /\ up /\ queue # <<>> /\ In("accepted") = {}
  /\ state' = [state EXCEPT ![Head(queue)] = "accepted"]
  /\ queue' = Tail(queue)
  /\ UNCHANGED up

Serve(c) ==
  /\ up /\ state[c] = "accepted"
  /\ Cardinality(In("served")) < MaxServed
  /\ state' = [state EXCEPT ![c] = "served"]
  /\ UNCHANGED <<queue, up>>

TurnAway(c) ==
  /\ up /\ state[c] = "accepted"
  /\ Cardinality(In("served") \cup In("over")) >= MaxServed
  /\ state' = [state EXCEPT ![c] = "refused"]
  /\ UNCHANGED <<queue, up>>

End(c) ==
  /\ state[c] = "served"
  /\ state' = [state EXCEPT ![c] = "over"]
  /\ UNCHANGED <<queue, up>>

Stop ==
  /\ up /\ up' = FALSE
  /\ queue' = <<>>
  /\ state' = [c \in Conns |-> IF state[c] \in {"queued", "accepted"}
                               THEN "dropped" ELSE state[c]]

Decide(c) == Serve(c) \/ TurnAway(c)

Next == \/ Take \/ Stop
        \/ \E c \in Conns : Arrive(c) \/ Decide(c) \/ End(c)

Spec == Init /\ [][Next]_vars

(* The daemon never lets a taken connection, or a waiting one, lie. *)
Progress == WF_vars(Take \/ \E c \in Conns : Decide(c))

================================================================================
