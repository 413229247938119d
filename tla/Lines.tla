--------------------------------- MODULE Lines ---------------------------------
(***************************************************************************)
(* What the programs of cmps3620 that carry typed lines have in common     *)
(* (vcsend and vcrec, client.c and server.c, pipesend.c): a line is sent   *)
(* with the NUL that ends it, the channel keeps no boundaries, and what is *)
(* read is printed up to its first NUL.                                    *)
(*                                                                         *)
(* A byte is <<line, position>>.  fgets() cuts a long line in two, and at  *)
(* end of file leaves the last line to be sent again; here these are lines *)
(* like any other.                                                         *)
(***************************************************************************)
EXTENDS Integers, FiniteSets, SequencesExt

CONSTANTS
  Scenarios,    \* records [program, build, lines, size]: the program, its
                \* build, how many lines each side types, and how many bytes
                \* the receiver reads at once
  MAX_LINE      \* length of a line (in the code 78)

VARIABLES
  scene,        \* the scenario
  pc,           \* where each side is
  sent,         \* history: the lengths of the lines each side has sent
  wire,         \* bytes each side has sent that have not been read
  buf,          \* each side's input buffer
  shown,        \* history: the texts each side has printed as received
  cut           \* history: something was read that did not end with a line

lineVars == <<scene, pc, sent, wire, buf, shown, cut>>

Programs == {"oneway", "twoway", "select", "pipe"}

\* pipesend.c reads 2047 bytes at once, more than a line with its NUL.
ASSUME LinesAssumption ==
  /\ MAX_LINE \in Nat \ {0}
  /\ Scenarios \subseteq [program: Programs, build: {"unix", "nt"},
                         lines: Nat, size: Nat \ {0}]
  /\ \A c \in Scenarios : c.program = "pipe" => c.size > MAX_LINE

Sides == {"S", "R"}
Other(s) == IF s = "S" THEN "R" ELSE "S"

NUL == <<0, 0>>
Text(k, len) == [j \in 1 .. len |-> <<k, j>>]
Line(k, len) == Append(Text(k, len), NUL)

LinesInit ==
  /\ scene \in Scenarios
  /\ pc = [s \in Sides |-> "start"]
  /\ sent = [s \in Sides |-> <<>>]
  /\ wire = [s \in Sides |-> <<>>]
  /\ buf = [s \in Sides |-> <<>>]
  /\ shown = [s \in Sides |-> <<>>]
  /\ cut = FALSE

\* printf("%s"): up to the first NUL.
Printed(bytes) ==
  LET nuls == {k \in DOMAIN bytes : bytes[k] = NUL}
  IN  IF nuls = {} THEN bytes
      ELSE SubSeq(bytes, 1, (CHOOSE k \in nuls : \A j \in nuls : k <= j) - 1)

\* Bytes read into a buffer cover what it held.
Over(old, bytes) == bytes \o SubSeq(old, Len(bytes) + 1, Len(old))

Goto(s, where) == pc' = [pc EXCEPT ![s] = where]
More(s) == Len(sent[s]) < scene.lines
NextLine(s, len) == Line(Len(sent[s]) + 1, len)
Put(s, len) ==
  /\ sent' = [sent EXCEPT ![s] = Append(@, len)]
  /\ wire' = [wire EXCEPT ![s] = @ \o NextLine(s, len)]
=============================================================================
