------------------------------- MODULE MCLog -------------------------------
(* Model values for Log. *)
EXTENDS Log, TLC

CONSTANTS w1, w2

MCWriters == {w1, w2}
BothModes == {TRUE, FALSE}
=============================================================================
