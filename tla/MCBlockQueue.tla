---------------------------- MODULE MCBlockQueue ----------------------------
(* Model values for BlockQueue: threads and items are interchangeable.     *)
EXTENDS BlockQueue, TLC

CONSTANTS t1, t2, t3, x1, x2

MCThreads == {t1, t2, t3}
MCItems   == {x1, x2}

Symmetry == Permutations(MCThreads) \union Permutations(MCItems)
=============================================================================
