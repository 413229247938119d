---------------------------- MODULE MCNetSession ----------------------------
(* A small instance of NetSession for TLC. *)
EXTENDS NetSession
=============================================================================
