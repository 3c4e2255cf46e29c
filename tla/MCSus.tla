------------------------------- MODULE MCSus -------------------------------
(* Model values for TLC and the symmetry of the callers and of the ids.    *)
EXTENDS SusProps, TLC
CONSTANTS p1, p2, i1, i2
MCCallers == {p1, p2}
MCIds == {i1, i2}
MCOneId == {i1}
MCSymmetry == Permutations(MCCallers) \cup Permutations(MCIds)
=============================================================================
