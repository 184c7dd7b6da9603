----------------------------- MODULE MCHandoff -----------------------------
(* Model values for Handoff.  The base name of fa is longer than that of   *)
(* fb and leaves a piece of itself behind in SHM_NAME.                     *)
EXTENDS Handoff, TLC

CONSTANTS p1, p2, fa, fb, oa, ob, n1

OneProc  == {p1}
TwoProcs == {p1, p2}
OneFile  == {fa}
TwoFiles == {fa, fb}
OneNew   == {n1}
NoNews   == {}

MCBase(f)     == IF f = fa THEN <<"/", "a", "b">> ELSE <<"/", "c">>
MCShmNames    == {<<>>, <<"/", "a", "b">>, <<"/", "c">>, <<"/", "c", "b">>}
MCOriginal(f) == IF f = fa THEN oa ELSE ob

AnyFile(p) == Files
OneEach(p) == IF p = p1 THEN {fa} ELSE {fb}

Symmetry == Permutations(TwoProcs)
=============================================================================
