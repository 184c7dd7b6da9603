---------------------------- MODULE MCKeepAlive ----------------------------
(* Model values for KeepAlive. *)
EXTENDS KeepAlive

CONSTANT p1

OneProc == {p1}
=============================================================================
