------------------------------- MODULE MCDialog -------------------------------
(* Small instances of Dialog for TLC. *)
EXTENDS Dialog
=============================================================================
