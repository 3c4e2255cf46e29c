------------------------------- MODULE CtxTree -------------------------------
(***************************************************************************)
(* What package golang.org/x/net/context promises to those who ask a       *)
(* context for its Err: a context is finished once, with a reason that     *)
(* does not change, and not before every context derived from it is; one   *)
(* derived from a finished context is finished from the start.             *)
(***************************************************************************)
CONSTANTS Ctx,         \* the contexts that can be canceled
          Background,  \* the parent of a context that has no other
          Errs,        \* the reasons: Canceled, DeadlineExceeded
          NoErr        \* not finished

VARIABLES above,  \* above[c]: the context that c was derived from, itself when unknown
          seen    \* seen[c]: what c.Err() returns

vars == <<above, seen>>

Init ==
  /\ above = [c \in Ctx |-> c]
  /\ seen = [c \in Ctx |-> NoErr]

Known(c) == above[c] # c

\* A context is derived from p, and shares the fate that p has already met.
Derive(c, p) ==
  /\ ~Known(c) /\ (p = Background \/ Known(p))
  /\ above' = [above EXCEPT ![c] = p]
  /\ seen' = [seen EXCEPT ![c] = IF p = Background THEN NoErr ELSE seen[p]]

\* c is finished, and all that was derived from it is already.
Finish(c, e) ==
  /\ Known(c) /\ seen[c] = NoErr
  /\ \A k \in Ctx : above[k] = c => seen[k] # NoErr
  /\ seen' = [seen EXCEPT ![c] = e]
  /\ UNCHANGED above

Next ==
  \/ \E c \in Ctx, p \in Ctx \cup {Background} : Derive(c, p)
  \/ \E c \in Ctx, e \in Errs : Finish(c, e)

Spec == Init /\ [][Next]_vars
=============================================================================
