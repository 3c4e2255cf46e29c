------------------------------ MODULE SusProps ------------------------------
(***************************************************************************)
(* What the store of SusStore must guarantee, and its refinement of        *)
(* SequentialStore.                                                        *)
(***************************************************************************)
EXTENDS SusStore

\* A version number identifies a state of an entity: a caller that holds an
\* entity at the version the store has it at holds every change the store has.
\* This is what makes comparing versions (sus.go:136) enough to accept an
\* update; it must hold of entities read long ago, of entities whose update
\* was refused, and while other callers are inside the transaction function.
VersionIdentifiesState ==
  \A p \in Callers, id \in Ids :
    (/\ held[p][id] # Absent
     /\ data[id] # Absent
     /\ held[p][id].v = data[id].v) => data[id].marks \subseteq held[p][id].marks

\* No update is lost: whatever step any goroutine takes, an entity that stays
\* in the store keeps every change stored in it, and its version moves up by
\* at most one (sus.go:118, UpdateMulti).
NoLostUpdate ==
  [][\A id \in Ids :
       data[id] # Absent /\ data'[id] # Absent =>
         /\ data[id].marks \subseteq data'[id].marks
         /\ data'[id].v \in {data[id].v, data[id].v + 1}]_vars

\* An entity enters the store at version 0 only: no update, however it
\* interleaves with a delete and whatever fails, brings a deleted entity back
\* (the read of sus.go:128 is under the same lock as the write of sus.go:148).
NoResurrection ==
  [][\A id \in Ids :
       data[id] = Absent /\ data'[id] # Absent => data'[id].v = 0]_vars

\* An update refused because of what the store holds leaves the caller's own
\* entities at the versions they had when UpdateMulti was called, the entities
\* of the batch checked before the offending one too, so that the caller may
\* read again and retry (the DecrementVersion loop of sus.go:143-146).
RefusedUpdateKeepsVersions ==
  \A p \in Callers :
    (/\ op[p] = "update"
     /\ pc[p] = "unlock"
     /\ err[p] \in {"get", "nonExtant", "nonsequential"}) =>
      \A id \in batch[p] : held[p][id].v = was[p][id].v

\* A create or an update that returns no error is stored: when the caller is
\* about to leave the lock, the store has exactly the entities it passed.
AcceptedUpdateIsStored ==
  \A p \in Callers :
    op[p] \in {"create", "update"} /\ pc[p] = "unlock" /\ err[p] = "none" =>
      \A id \in batch[p] : data[id] = held[p][id]

-----------------------------------------------------------------------------
(* The inductive invariants behind these properties (SusProofs).           *)

Critical == {"gen", "get", "check", "put", "del", "unlock"}

\* The mutex: only its holder is inside the transaction function.
MutualExclusion == \A p \in Callers : pc[p] \in Critical => mtx = p

\* The loops stay inside the batch, and each belongs to its operation.
LoopsMatch ==
  \A p \in Callers :
    /\ todo[p] \subseteq batch[p]
    /\ pc[p] = "lock" => op[p] # "none" /\ todo[p] = batch[p]
    /\ pc[p] = "gen" => op[p] = "create"
    /\ pc[p] = "get" => op[p] \in {"read", "update"}
    /\ pc[p] = "check" => op[p] = "update"
    /\ pc[p] = "put" => op[p] \in {"create", "update"}
    /\ pc[p] = "del" => op[p] = "delete"

\* The caller holds every entity that it updates or creates.
BatchHeld ==
  \A p \in Callers :
    \/ op[p] = "update" /\ pc[p] \in {"lock", "get", "check"}
    \/ pc[p] = "put"
    => \A id \in batch[p] : held[p][id] # Absent

\* What getMulti has read is still what the store has.
ReadIsCurrent ==
  \A p \in Callers, id \in Ids :
    (/\ id \in batch[p]
     /\ \/ pc[p] = "get" /\ id \notin todo[p]
        \/ pc[p] = "check"
        \/ pc[p] = "put" /\ op[p] = "update" /\ id \in todo[p]
        \/ pc[p] = "unlock" /\ op[p] = "read" /\ err[p] = "none")
    => old[p][id] = data[id] /\ data[id] # Absent

\* What the check loop has visited is one version on, and only that.
CheckedIsBumped ==
  \A p \in Callers, id \in Ids :
    /\ pc[p] = "check" /\ id \in batch[p] \ todo[p]
         => held[p][id].v = old[p][id].v + 1
    /\ pc[p] = "put" /\ op[p] = "update" /\ id \in todo[p]
         => held[p][id].v = old[p][id].v + 1
    /\ pc[p] = "put" /\ op[p] = "create" /\ id \in todo[p]
         => held[p][id] = [v |-> 0, marks |-> {}]

SusInv == MutualExclusion /\ LoopsMatch /\ BatchHeld /\ ReadIsCurrent /\ CheckedIsBumped

\* The versions of a refused update, step by step.
VersionsAtCall ==
  \A p \in Callers, id \in Ids :
    op[p] = "update" /\ id \in batch[p] =>
      /\ was[p][id] # Absent
      /\ pc[p] \in {"lock", "get"} => held[p][id].v = was[p][id].v
      /\ pc[p] = "check" =>
           held[p][id].v = IF id \in todo[p] THEN was[p][id].v ELSE was[p][id].v + 1
      /\ pc[p] = "unlock" /\ err[p] \in {"get", "nonExtant", "nonsequential"} =>
           held[p][id].v = was[p][id].v

\* The entities p holds for id that a put of p is going to make the stored ones.
Ahead(p, id) ==
  \/ pc[p] = "check" /\ id \in batch[p] \ todo[p]
  \/ pc[p] = "put" /\ id \in todo[p]

\* The store is never behind a caller, save for what that caller is about to
\* put; and what it puts has every change the store has.
NeverBehind ==
  \A p \in Callers, id \in Ids :
    held[p][id] # Absent /\ data[id] # Absent =>
      IF Ahead(p, id)
        THEN held[p][id].v > data[id].v /\ data[id].marks \subseteq held[p][id].marks
        ELSE /\ held[p][id].v <= data[id].v
             /\ held[p][id].v = data[id].v => data[id].marks \subseteq held[p][id].marks

\* Nobody knows an id before the create that makes it has put its entity.
FreshIsUnknown ==
  /\ \A id \in Ids \ issued : data[id] = Absent /\ \A p \in Callers : held[p][id] = Absent
  /\ \A p \in Callers, id \in Ids :
       pc[p] = "put" /\ op[p] = "create" /\ id \in todo[p] =>
         data[id] = Absent /\ \A q \in Callers \ {p} : held[q][id] = Absent

\* What the put loop has visited is stored.
PutIsStored ==
  \A p \in Callers, id \in Ids :
    (/\ id \in batch[p]
     /\ \/ pc[p] = "put" /\ id \notin todo[p]
        \/ pc[p] = "unlock" /\ op[p] \in {"create", "update"} /\ err[p] = "none")
    => data[id] = held[p][id]

SequentialInv == NeverBehind /\ FreshIsUnknown /\ PutIsStored

-----------------------------------------------------------------------------
\* The store as its callers can see it: what the holder of the mutex has still
\* to put or delete counts as done.
Visible ==
  [id \in Ids |->
     IF mtx # Free /\ pc[mtx] \in {"put", "del"} /\ id \in todo[mtx]
       THEN IF pc[mtx] = "put" THEN held[mtx][id] ELSE Absent
       ELSE data[id]]

Abstract == INSTANCE SequentialStore WITH db <- Visible

\* Multi-entity operations are atomic and updates are sequential: the locked
\* loops of mutex_byte.go implement the store that package sus documents
\* (sus.go:2).
ImplementsSequentialStore == Abstract!Spec

\* Goroutines run, and sync.Mutex does not starve a waiter.
Fairness == \A p \in Callers : WF_vars(Step(p)) /\ SF_vars(Lock(p))

FairSpec == Spec /\ Fairness

\* Every call that waits for the mutex gets it and returns, whatever fails inside
\* the transaction function: no way out of it leaves the mutex locked
\* (mutex_byte.go:64-68).
EveryCallReturns == \A p \in Callers : pc[p] = "lock" ~> pc[p] = "idle"

\* The half of EveryCallReturns that is about single steps.  Who has the mutex is inside a
\* transaction function, whose loop has an id to visit; who waits has something to do.
HolderHasWork ==
  /\ mtx # Free => pc[mtx] \in Critical
  /\ \A p \in Callers :
       pc[p] \in {"get", "check", "put", "del"} \/ (pc[p] = "lock" /\ op[p] # "create")
         => todo[p] # {}

\* How many loops a transaction function has still to go through, with its unlocking.
LoopsLeft(p) ==
  CASE pc[p] = "get" -> 4
    [] pc[p] \in {"gen", "check"} -> 3
    [] pc[p] \in {"put", "del"} -> 2
    [] pc[p] = "unlock" -> 1
    [] OTHER -> 0

\* A step of a transaction function ends a loop or the visit of an id, and neither comes
\* back: it makes no more steps than it has loops and ids, whatever fails and whatever the
\* others do (mutex_byte.go:25-62, sus.go:135-149).
EveryRoundCounts ==
  [][\A p \in Callers :
       pc[p] \in Critical =>
         \/ LoopsLeft(p)' < LoopsLeft(p)
         \/ pc'[p] = pc[p] /\ todo'[p] \subseteq todo[p] /\ todo'[p] # todo[p]
         \/ ~Step(p) /\ pc'[p] = pc[p] /\ todo'[p] = todo[p]]_vars
=============================================================================
