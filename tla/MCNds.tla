------------------------------- MODULE MCNds -------------------------------
(* Model values for TLC.                                                   *)
EXTENDS NdsProps, TLC
CONSTANTS o1, o2, o3, o4
MCThree == {o1, o2, o3}
MCFour == {o1, o2, o3, o4}
\* Random bytes: every call draws its own.
MCOwnLocks == [o \in Ops |-> o]
\* Instances seed the generator alike: every call draws the same bytes.
MCSameLocks == [o \in Ops |-> 0]
MCSymmetry == Permutations(Ops)
=============================================================================
