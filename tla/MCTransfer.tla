----------------------------- MODULE MCTransfer -----------------------------
(* Model values for Transfer. *)
EXTENDS Transfer, TLC

CONSTANTS f1, f2

TwoFiles == {f1, f2}

\* Two texts shorter than a piece, and one that its two blocks do not reach
\* the end of.
MCLengths == {1, 2, 13}

Symmetry == Permutations(TwoFiles)
=============================================================================
