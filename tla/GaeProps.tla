------------------------------ MODULE GaeProps ------------------------------
(***************************************************************************)
(* What the App Engine store keeps true, and when.                         *)
(***************************************************************************)
EXTENDS GaeStore

\* An update never loses an earlier one: the new state of an entity contains the
\* changes of the state it replaces (sus.go:2, gus.go:11).
NoLostUpdate ==
  [][\A i \in Ids : db[i] # Absent /\ db'[i] # Absent =>
       db[i].marks \subseteq db'[i].marks]_vars

\* The store as a SequentialStore, which knows nothing of time.  An entity counts as
\* deleted from the moment that a put replaces another state of it than the one that was
\* compared: the put of another update, or nothing because of a clear-out.
Plain(e) == IF e = Absent THEN Absent ELSE [v |-> e.v, marks |-> e.marks]

Sequential ==
  [i \in Ids |-> IF i \in overlapped THEN Absent ELSE Plain(db[i])]

Abstract == INSTANCE SequentialStore WITH db <- Sequential

\* Until a put overlaps another write of the same entity, the entity is kept as package sus
\* promises, whatever happens to other entities, however old the copies are that are
\* brought to Update and however often commits are tried: each update moves it to its
\* next version and keeps what was in it, and it does not come back from a clear-out
\* (gus.go:12-59).  NoLostUpdate is what becomes of the others.
ImplementsSequentialStore == Abstract!Spec

\* An entity is cleared out when DeleteAfter has passed since its stored state was
\* asked for, and before that only if the clear-out found it due and its update was put
\* between the query and the delete (joak.go:48-60, 66-69, 107-110).
EntityLivesItsTime ==
  [][\A i \in Ids : db[i] # Absent /\ db'[i] = Absent =>
       \/ clock >= touched[i] + DeleteAfter
       \/ \E s \in Sweepers : at[s] = "delete" /\ at'[s] = "idle" /\ i \in renewed[s]]_vars

\* Of the clear-outs of an instance that are under way no two began less than
\* ClearOutAfter apart, however many requests start one (joak.go:44-47).
Sweeping(s) == at[s] \in {"query", "delete"}
ClearOutsAreApart ==
  \A s, t \in Sweepers : s # t /\ Sweeping(s) /\ Sweeping(t) =>
    \/ began[s] - began[t] >= ClearOutAfter
    \/ began[t] - began[s] >= ClearOutAfter

-----------------------------------------------------------------------------
(* The inductive invariants behind these properties (GaeProofs).           *)

\* Copies are of entities that were created; so are those that a query has found.
Known ==
  /\ \A p \in Callers :
       /\ pc[p] \in {"holding", "get", "put"} => id[p] \in Ids
       /\ held[p] # Absent => id[p] \in issued
       /\ pc[p] \in {"idle", "create"} => held[p] = Absent
  /\ \A i \in Ids : db[i] # Absent => i \in issued
  /\ overlapped \subseteq issued
  /\ \A s \in Sweepers :
       /\ renewed[s] \subseteq keys[s] /\ keys[s] \subseteq issued
       /\ at[s] # "delete" => keys[s] = {}

\* The clear-outs under way began when their instance says the last one did, or before;
\* who has mtx and is about to begin one is the only one, and that time is long ago.
SweepsAreRemembered ==
  /\ last <= clock
  /\ \A s \in Sweepers : Sweeping(s) => began[s] \in 1..last
  /\ \A s \in Sweepers : at[s] = "set" =>
       /\ \A t \in Sweepers : at[t] = "set" => t = s
       /\ last = 0 \/ clock - last >= ClearOutAfter

InUpdate(p) == pc[p] \in {"get", "put", "commit"} /\ held[p] # Absent

\* Of the entities that no put has overlapped no copy is newer than the entity, except one
\* that is about to be put, and one as new as its entity has all of its changes.
CopiesAreOld ==
  \A p \in Callers :
    held[p] # Absent /\ id[p] \notin overlapped =>
      /\ pc[p] # "put" /\ db[id[p]] # Absent =>
           /\ held[p].v <= db[id[p]].v
           /\ held[p].v = db[id[p]].v => db[id[p]].marks \subseteq held[p].marks
      /\ pc[p] = "put" =>
           /\ found[p] # Absent
           /\ held[p].v = found[p].v + 1
           /\ found[p].marks \subseteq held[p].marks

\* An entity is due DeleteAfter after its state was asked for, and those that a
\* clear-out is about to delete are due or were put since it found them.
DueInTime ==
  /\ \A i \in Ids : db[i] # Absent => db[i].due = touched[i] + DeleteAfter
  /\ \A p \in Callers : InUpdate(p) => held[p].due = called[p] + DeleteAfter
  /\ \A s \in Sweepers : \A i \in keys[s] \ renewed[s] :
       db[i] # Absent => db[i].due <= clock
=============================================================================
