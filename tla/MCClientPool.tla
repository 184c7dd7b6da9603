---------------------------- MODULE MCClientPool ----------------------------
(* Model values for ClientPool. *)
EXTENDS ClientPool

CONSTANTS w1, w2, w3, c1, t1, t2, t3

ThreeWorkers == {w1, w2, w3}
OneCaller    == {c1}
ThreeTasks   == {t1, t2, t3}
=============================================================================
