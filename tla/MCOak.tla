------------------------------- MODULE MCOak -------------------------------
(* Model values for TLC.                                                   *)
EXTENDS OakProps, TLC
CONSTANTS c1, c2, w1, w2, i1, i2, u1, u2, a1
MCClients == {c1, c2}
MCWorkers == {w1, w2}
MCOneId == {i1}
MCIds == {i1, i2}
MCUsers == {u1, u2}
MCActs == {a1}
MCSymmetry ==
  Permutations(Clients) \cup Permutations(Workers) \cup Permutations(Ids)
    \cup Permutations(Users) \cup Permutations(Acts)
=============================================================================
