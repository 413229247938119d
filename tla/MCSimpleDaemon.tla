---------------------------- MODULE MCSimpleDaemon ----------------------------
(* Small instances of SimpleDaemon for TLC.  Nothing tells one connection  *)
(* from another but when it comes, so they come in one order: any other    *)
(* behaviour is one of these with the connections renamed.  (A symmetry    *)
(* set would not be sound here, where liveness is checked.)                *)
EXTENDS SimpleDaemon

CONSTANTS c1, c2, c3     \* the connections

ClientOrder == <<c1, c2, c3>>

InTurn ==
  \A k \in 2 .. 3 : conn'[ClientOrder[k]] # "new"
                        => conn'[ClientOrder[k - 1]] # "new"
=============================================================================
