------------------------------ MODULE MCServer ------------------------------
(* Model values for Server.  Names: transf_file_name() maps fa to its      *)
(* stored name sa and recover_file_name() maps it back, as for every path  *)
(* without a '@'; Junk has no '/' to convert.                              *)
EXTENDS Server, TLC

CONSTANTS w1, w2, b1, b2, p1, fa, sa, v1

OneWorker  == {w1}
TwoWorkers == {w1, w2}
OneBlock   == {b1}
TwoBlocks  == {b1, b2}
OneAsk     == {p1}
NoConns    == {}
MCFiles    == {fa}
MCVals     == {v1}
TwoFds     == 5 .. 6
ThreeFds   == 5 .. 7

MCTransf(f) == IF f = fa THEN sa ELSE f
MCBack(s)   == IF s = sa THEN fa ELSE s

Symmetry == Permutations(TwoWorkers) \union Permutations(TwoBlocks)
=============================================================================
