------------------------------ MODULE SusStore ------------------------------
(***************************************************************************)
(* Package sus: the versioned store (sus.go) over the mutex byte store     *)
(* (mutex_byte.go), with the memory and file back ends (memory.go,         *)
(* file.go) as its get, put and delete primitives.  Goroutines call        *)
(* CreateMulti, ReadMulti, UpdateMulti and DeleteMulti; Create, Read,      *)
(* Update and Delete are those with one id.                                *)
(*                                                                         *)
(* A batch is a set of ids, not a slice: the caller's order is arbitrary,  *)
(* and each loop below may take the ids in any order.  A batch that names  *)
(* one id twice is not modelled.                                           *)
(***************************************************************************)
EXTENDS Integers, FiniteSets

CONSTANTS Ids,         \* the ids sid.Uuid can return
          Callers,     \* the goroutines
          Absent,      \* no entity
          Free,        \* the mutex is not held
          Faults,      \* the primitives that may fail: "get", "marshal", "put", "del"
          MaxVersion   \* bound: no caller updates an entity of this version

Entity == [v : Nat, marks : SUBSET Callers]

ASSUME SusAssumption ==
  /\ Absent \notin Entity
  /\ Free \notin Callers
  /\ MaxVersion \in Nat
  /\ Faults \subseteq {"get", "marshal", "put", "del"}

VARIABLES
  data,    \* data[id]: the entity the back end holds (its bytes, decoded)
  issued,  \* the ids sid.Uuid has returned: a random UUID never repeats
  mtx,     \* the holder of the store's sync.Mutex, or Free
  pc,      \* pc[p]: where caller p is
  op,      \* op[p]: the operation p is in
  batch,   \* batch[p]: the ids it was called with
  todo,    \* todo[p]: the ids the current loop has still to visit
  old,     \* old[p][id]: what getMulti has read in this operation
  held,    \* held[p][id]: the entity p has a pointer to, or Absent
  was,     \* was[p]: held[p] when the operation was called (history)
  err      \* err[p]: the error the operation is going to return

vars == <<data, issued, mtx, pc, op, batch, todo, old, held, was, err>>

Ops == {"none", "create", "read", "update", "delete"}
Errs == {"none", "nonExtant", "nonsequential", "get", "marshal", "put", "del"}
PCs == {"idle", "lock", "gen", "get", "check", "put", "del", "unlock"}

EntityMap == [Ids -> Entity \cup {Absent}]

TypeOK ==
  /\ data \in EntityMap
  /\ issued \subseteq Ids
  /\ mtx \in Callers \cup {Free}
  /\ pc \in [Callers -> PCs]
  /\ op \in [Callers -> Ops]
  /\ batch \in [Callers -> SUBSET Ids]
  /\ todo \in [Callers -> SUBSET Ids]
  /\ old \in [Callers -> EntityMap]
  /\ held \in [Callers -> EntityMap]
  /\ was \in [Callers -> EntityMap]
  /\ err \in [Callers -> Errs]

Nothing == [id \in Ids |-> Absent]

Init ==
  /\ data = Nothing
  /\ issued = {}
  /\ mtx = Free
  /\ pc = [p \in Callers |-> "idle"]
  /\ op = [p \in Callers |-> "none"]
  /\ batch = [p \in Callers |-> {}]
  /\ todo = [p \in Callers |-> {}]
  /\ old = [p \in Callers |-> Nothing]
  /\ held = [p \in Callers |-> Nothing]
  /\ was = [p \in Callers |-> Nothing]
  /\ err = [p \in Callers |-> "none"]

-----------------------------------------------------------------------------
(* The calls.  Each ends waiting for the mutex: runInTransaction locks it  *)
(* before it runs the transaction function.  An empty batch returns at     *)
(* once without touching anything and is not an action.                    *)

Call(p, o, B, h) ==
  /\ pc[p] = "idle"
  /\ pc' = [pc EXCEPT ![p] = "lock"]
  /\ op' = [op EXCEPT ![p] = o]
  /\ batch' = [batch EXCEPT ![p] = B]
  /\ todo' = [todo EXCEPT ![p] = B]
  /\ held' = [held EXCEPT ![p] = h]
  /\ was' = [was EXCEPT ![p] = h]
  /\ UNCHANGED <<data, issued, mtx, old, err>>

\* Bound: there is an unused id for every create under way.
Creating == {p \in Callers : pc[p] \in {"lock", "gen"} /\ op[p] = "create"}

CallCreate(p) ==
  /\ Cardinality(Creating) < Cardinality(Ids \ issued)
  /\ Call(p, "create", {}, held[p])

CallRead(p, B) == B # {} /\ Call(p, "read", B, held[p])

\* The caller changes the entities it holds and asks for them to be stored.
Marked(p, B) ==
  [id \in Ids |-> IF id \in B THEN [held[p][id] EXCEPT !.marks = @ \cup {p}]
                              ELSE held[p][id]]

CallUpdate(p, B) ==
  /\ B # {}
  /\ \A id \in B : held[p][id] # Absent /\ held[p][id].v < MaxVersion
  /\ Call(p, "update", B, Marked(p, B))

CallDelete(p, B) == B # {} /\ Call(p, "delete", B, held[p])

-----------------------------------------------------------------------------
(* The transaction function, under the mutex.                              *)

FirstStep(o) == CASE o = "create" -> "gen"
                  [] o = "delete" -> "del"
                  [] OTHER -> "get"

\* Mutant: the transaction function runs without the mutex.
LockShared(p) ==
  /\ pc[p] = "lock"
  /\ mtx' = p
  /\ pc' = [pc EXCEPT ![p] = FirstStep(op[p])]
  /\ UNCHANGED <<data, issued, op, batch, todo, old, held, was, err>>

Lock(p) ==
  /\ pc[p] = "lock"
  /\ mtx = Free
  /\ mtx' = p
  /\ pc' = [pc EXCEPT ![p] = FirstStep(op[p])]
  /\ UNCHANGED <<data, issued, op, batch, todo, old, held, was, err>>

\* CreateMulti makes its ids and its entities, at version 0.
Generate(p) ==
  /\ pc[p] = "gen"
  /\ \E B \in SUBSET (Ids \ issued) :
       /\ B # {}
       /\ Cardinality(Creating \ {p}) <= Cardinality((Ids \ issued) \ B)
       /\ issued' = issued \cup B
       /\ batch' = [batch EXCEPT ![p] = B]
       /\ todo' = [todo EXCEPT ![p] = B]
       /\ held' = [held EXCEPT ![p] =
                     [id \in Ids |-> IF id \in B THEN [v |-> 0, marks |-> {}]
                                                 ELSE held[p][id]]]
  /\ pc' = [pc EXCEPT ![p] = "put"]
  /\ UNCHANGED <<data, mtx, op, old, was, err>>

\* The loop p is in has done its round for id.  When that was the last one, the
\* loop at "next" begins, over the whole batch.
Round(p, id, next) ==
  IF todo[p] = {id}
    THEN /\ todo' = [todo EXCEPT ![p] = batch[p]]
         /\ pc' = [pc EXCEPT ![p] = next]
    ELSE /\ todo' = [todo EXCEPT ![p] = @ \ {id}]
         /\ UNCHANGED pc

\* Leave the transaction function with an error.
Fail(p, e) ==
  /\ pc' = [pc EXCEPT ![p] = "unlock"]
  /\ err' = [err EXCEPT ![p] = e]
  /\ UNCHANGED todo

\* One round of getMulti's loop.
Get(p, id) ==
  /\ pc[p] = "get"
  /\ id \in todo[p]
  /\ data[id] # Absent
  /\ old' = [old EXCEPT ![p][id] = data[id]]
  /\ Round(p, id, IF op[p] = "read" THEN "unlock" ELSE "check")
  /\ UNCHANGED <<data, issued, mtx, op, batch, held, was, err>>

\* The byte getter finds nothing: the error is wrapped in a nonExtantError.
GetMissing(p, id) ==
  /\ pc[p] = "get"
  /\ id \in todo[p]
  /\ data[id] = Absent
  /\ Fail(p, "nonExtant")
  /\ UNCHANGED <<data, issued, mtx, op, batch, old, held, was>>

\* The byte getter or the unmarshaler fails.
GetFault(p) ==
  /\ "get" \in Faults
  /\ pc[p] = "get"
  /\ Fail(p, "get")
  /\ UNCHANGED <<data, issued, mtx, op, batch, old, held, was>>

Bump(h, B, d) ==
  [id \in Ids |-> IF id \in B THEN [h[id] EXCEPT !.v = @ + d] ELSE h[id]]

\* Mutant: a version that is behind the stored one is let through too.
CheckMatchAny(p, id) ==
  /\ pc[p] = "check"
  /\ id \in todo[p]
  /\ old[p][id].v >= held[p][id].v
  /\ held' = [held EXCEPT ![p] = Bump(@, {id}, 1)]
  /\ Round(p, id, "put")
  /\ UNCHANGED <<data, issued, mtx, op, batch, old, was, err>>

\* One round of UpdateMulti's loop: the version is the stored one, and the
\* caller's entity gets the next.
CheckMatch(p, id) ==
  /\ pc[p] = "check"
  /\ id \in todo[p]
  /\ old[p][id].v = held[p][id].v
  /\ held' = [held EXCEPT ![p] = Bump(@, {id}, 1)]
  /\ Round(p, id, "put")
  /\ UNCHANGED <<data, issued, mtx, op, batch, old, was, err>>

\* Mutant: the versions incremented before the mismatch stay incremented.
CheckMismatchKeep(p, id) ==
  /\ pc[p] = "check"
  /\ id \in todo[p]
  /\ old[p][id].v # held[p][id].v
  /\ Fail(p, "nonsequential")
  /\ UNCHANGED <<data, issued, mtx, op, batch, old, held, was>>

\* Mutant: every version of the batch is decremented.
CheckMismatchAll(p, id) ==
  /\ pc[p] = "check"
  /\ id \in todo[p]
  /\ old[p][id].v # held[p][id].v
  /\ held' = [held EXCEPT ![p] = Bump(@, batch[p], -1)]
  /\ Fail(p, "nonsequential")
  /\ UNCHANGED <<data, issued, mtx, op, batch, old, was>>

\* The version is not the stored one: the loop stops, and the versions it has
\* incremented are decremented again.
CheckMismatch(p, id) ==
  /\ pc[p] = "check"
  /\ id \in todo[p]
  /\ old[p][id].v # held[p][id].v
  /\ held' = [held EXCEPT ![p] = Bump(@, batch[p] \ todo[p], -1)]
  /\ Fail(p, "nonsequential")
  /\ UNCHANGED <<data, issued, mtx, op, batch, old, was>>

\* One round of putMulti's loop.  It overwrites the error of an earlier round.
Put(p, id) ==
  /\ pc[p] = "put"
  /\ id \in todo[p]
  /\ data' = [data EXCEPT ![id] = held[p][id]]
  /\ err' = [err EXCEPT ![p] = "none"]
  /\ Round(p, id, "unlock")
  /\ UNCHANGED <<issued, mtx, op, batch, old, held, was>>

\* The byte putter fails (the disk is full): the loop goes on.
PutFault(p, id) ==
  /\ "put" \in Faults
  /\ pc[p] = "put"
  /\ id \in todo[p]
  /\ err' = [err EXCEPT ![p] = "put"]
  /\ Round(p, id, "unlock")
  /\ UNCHANGED <<data, issued, mtx, op, batch, old, held, was>>

\* The marshaler fails: the loop stops, what it has put stays put, and the
\* versions stay incremented.
MarshalFault(p) ==
  /\ "marshal" \in Faults
  /\ pc[p] = "put"
  /\ Fail(p, "marshal")
  /\ UNCHANGED <<data, issued, mtx, op, batch, old, held, was>>

\* One round of delMulti's loop; the memory store deletes what is not there.
Del(p, id) ==
  /\ pc[p] = "del"
  /\ id \in todo[p]
  /\ data' = [data EXCEPT ![id] = Absent]
  /\ Round(p, id, "unlock")
  /\ UNCHANGED <<issued, mtx, op, batch, old, held, was, err>>

\* The file store's os.Remove fails: the loop stops.
DelFault(p) ==
  /\ "del" \in Faults
  /\ pc[p] = "del"
  /\ Fail(p, "del")
  /\ UNCHANGED <<data, issued, mtx, op, batch, old, held, was>>

\* Mutant: the mutex is unlocked on the way out of a success only.
ReturnLocked(p) ==
  /\ pc[p] = "unlock"
  /\ mtx' = IF err[p] = "none" THEN Free ELSE mtx
  /\ pc' = [pc EXCEPT ![p] = "idle"]
  /\ UNCHANGED <<data, issued, op, batch, todo, old, held, was, err>>

\* The deferred Unlock.  ReadMulti hands fresh copies of what it read to the
\* caller when it has no error; the locals of the operation are gone.
Return(p) ==
  /\ pc[p] = "unlock"
  /\ mtx' = Free
  /\ held' = [held EXCEPT ![p] =
                IF op[p] = "read" /\ err[p] = "none"
                  THEN [id \in Ids |-> IF id \in batch[p] THEN old[p][id] ELSE held[p][id]]
                  ELSE held[p]]
  /\ pc' = [pc EXCEPT ![p] = "idle"]
  /\ op' = [op EXCEPT ![p] = "none"]
  /\ batch' = [batch EXCEPT ![p] = {}]
  /\ todo' = [todo EXCEPT ![p] = {}]
  /\ old' = [old EXCEPT ![p] = Nothing]
  /\ was' = [was EXCEPT ![p] = Nothing]
  /\ err' = [err EXCEPT ![p] = "none"]
  /\ UNCHANGED <<data, issued>>

-----------------------------------------------------------------------------
Start(p) ==
  \/ CallCreate(p)
  \/ \E B \in SUBSET Ids : CallRead(p, B) \/ CallUpdate(p, B) \/ CallDelete(p, B)

Step(p) ==
  \/ Generate(p) \/ GetFault(p) \/ MarshalFault(p) \/ DelFault(p) \/ Return(p)
  \/ \E id \in Ids : \/ Get(p, id) \/ GetMissing(p, id)
                     \/ CheckMatch(p, id) \/ CheckMismatch(p, id)
                     \/ Put(p, id) \/ PutFault(p, id) \/ Del(p, id)

Next == \E p \in Callers : Start(p) \/ Lock(p) \/ Step(p)

Spec == Init /\ [][Next]_vars
=============================================================================
