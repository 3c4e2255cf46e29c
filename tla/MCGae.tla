------------------------------- MODULE MCGae -------------------------------
(* Model values for TLC.                                                   *)
EXTENDS GaeProps, TLC
CONSTANTS p1, p2, s1, s2, i1, i2
MCCallers == {p1, p2}
MCSweepers == {s1, s2}
MCOneId == {i1}
MCIds == {i1, i2}
MCSymmetry == Permutations(Callers) \cup Permutations(Sweepers) \cup Permutations(Ids)
=============================================================================
