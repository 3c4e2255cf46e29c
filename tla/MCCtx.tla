------------------------------- MODULE MCCtx -------------------------------
(* Model values for TLC.                                                   *)
EXTENDS CtxProps, TLC
CONSTANTS p1, p2
MCCallers == {p1, p2}
MCMakers == {p1}
=============================================================================
