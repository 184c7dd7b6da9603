---------------------------- MODULE MCThreadPool ----------------------------
(* Model values for ThreadPool. *)
EXTENDS ThreadPool, TLC

CONSTANTS w1, w2, a1, a2, r1, r2

MCWorkers  == {w1, w2}
MCCallers  == {a1, a2}
MCRequests == {r1, r2}
=============================================================================
