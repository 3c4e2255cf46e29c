------------------------------- MODULE MCApi -------------------------------
(* Model values for TLC.                                                   *)
EXTENDS ApiProps, TLC
CONSTANTS r1, r2, k1, k2
MCRequests == {r1, r2}
MCConns == {k1, k2}
=============================================================================
