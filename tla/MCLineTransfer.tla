----------------------------- MODULE MCLineTransfer -----------------------------
(* A small instance of LineTransfer for TLC. *)
EXTENDS LineTransfer

Scene(program, build, lines, size) ==
  [program |-> program, build |-> build, lines |-> lines, size |-> size]

MCScenarios ==
  { Scene("oneway", "unix", 3, 2),
    Scene("oneway", "unix", 2, 9),
    Scene("twoway", "unix", 2, 9),
    Scene("select", "unix", 2, 2),
    Scene("pipe", "unix", 3, 9),
    Scene("pipe", "nt", 3, 9) }
=============================================================================
