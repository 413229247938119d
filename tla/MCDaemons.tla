------------------------------- MODULE MCDaemons -------------------------------
(* A small instance of Daemons for TLC. *)
EXTENDS Daemons

Scene(program, build, callers, bytes, out, stop) ==
  [program |-> program, build |-> build, callers |-> callers, bytes |-> bytes,
   out |-> out, stop |-> stop]

MCScenarios ==
  { Scene("daemon", "unix", 3, 0, 0, TRUE),
    Scene("daemon", "nt", 3, 0, 0, TRUE),
    Scene("daemon", "unix", 1, 1, 0, FALSE),
    Scene("s_daemon", "unix", 1, 1, 2, FALSE),
    Scene("s_daemon", "unix", 1, 2, 0, FALSE),
    Scene("s_daemon", "unix", 1, 1, 1, TRUE),
    Scene("s_daemon", "unix", 2, 0, 0, FALSE),
    Scene("s_daemon", "nt", 1, 3, 0, FALSE),
    Scene("s_daemon", "nt", 1, 2, 1, FALSE),
    Scene("s_daemon", "nt", 2, 0, 0, FALSE) }
=============================================================================
