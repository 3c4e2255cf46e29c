------------------------------ MODULE GaeStore ------------------------------
(***************************************************************************)
(* The store of an App Engine deployment: joak's entityStore and its       *)
(* clearOut, over a gus store, over the datastore.  Requests of package oak*)
(* read an entity and then update their copy of it; in the background the  *)
(* store clears out the entities that nobody has updated for deleteAfter.  *)
(*                                                                         *)
(* gus runs sus's functions inside nds.RunInTransaction, but they use the  *)
(* context from outside (gus.go:25, 35 and 52-56): their reads and writes  *)
(* are not part of the transaction, and what is committed is empty.  So    *)
(* each read and each write is a step of its own.  It is a single step     *)
(* here: Nds says when the calls to package nds behave like that.  The     *)
(* commit comes when everything has been written; when it meets a conflict *)
(* datastore.RunInTransaction runs sus's function again.                   *)
(***************************************************************************)
EXTENDS Integers

CONSTANTS Ids,            \* the ids sid.Uuid can return
          Callers,        \* the requests' goroutines
          Sweepers,       \* the goroutines that run clearOut
          Absent,         \* no entity, no id
          DeleteAfter,    \* how long an entity lives after its last update
          ClearOutAfter,  \* how far apart clear-outs are
          Faults,         \* the RPCs that may fail: "get", "put", "query", "del", and
                          \* "conflict": a commit reports a concurrent transaction
          MaxVersion,     \* bound: no caller updates an entity of this version
          MaxTime         \* bound: where the clock stops

Entity == [v : Nat, marks : SUBSET Callers, due : Nat]

ASSUME GaeAssumption ==
  /\ Absent \notin Entity \cup Ids \cup [v : Nat, marks : SUBSET Callers]
  /\ DeleteAfter \in Nat \ {0} /\ ClearOutAfter \in Nat \ {0}
  /\ Faults \subseteq {"get", "put", "query", "del", "conflict"}
  /\ MaxVersion \in Nat /\ MaxTime \in Nat \ {0}

VARIABLES
  clock,    \* the time
  db,       \* db[id]: the entity in the datastore
  issued,   \* the ids sid.Uuid has returned
  pc,       \* pc[p]: where caller p is
  id,       \* id[p]: the entity of its request
  held,     \* held[p]: its copy of the entity
  called,   \* called[p]: when it called Update (history)
  tries,    \* tries[p]: the commits of its transaction that have met a conflict
  found,    \* found[p]: the entity that its copy was compared with (history)
  touched,  \* touched[i]: when the stored state of i was asked for, or 0 (history)
  overlapped, \* the ids of which a put has replaced another state than the one that
              \* its copy was compared with (history)
  last,     \* kindToLastClearOutMap's time, 0 when there is none
  at,       \* at[s]: where sweeper s is; the one at "set" has mtx
  began,    \* began[s]: when it set the time (history)
  keys,     \* keys[s]: the ids its query has found
  renewed   \* renewed[s]: those of them that were put since (history)

callerVars == <<pc, id, held, called, tries, found>>
stored == <<db, issued, touched, overlapped>>
sweeperVars == <<last, at, began, keys, renewed>>
vars == <<clock, stored, callerVars, sweeperVars>>

Attempts == 3  \* how often a transaction is tried

TypeOK ==
  /\ clock \in 1..MaxTime
  /\ db \in [Ids -> Entity \cup {Absent}]
  /\ issued \subseteq Ids
  /\ pc \in [Callers -> {"idle", "create", "holding", "get", "put", "commit"}]
  /\ id \in [Callers -> Ids \cup {Absent}]
  /\ held \in [Callers -> Entity \cup {Absent}]
  /\ called \in [Callers -> 0..MaxTime]
  /\ tries \in [Callers -> 0..Attempts - 1]
  /\ found \in [Callers -> Entity \cup {Absent}]
  /\ touched \in [Ids -> 0..MaxTime]
  /\ overlapped \subseteq Ids
  /\ last \in 0..MaxTime
  /\ at \in [Sweepers -> {"idle", "set", "query", "delete"}]
  /\ began \in [Sweepers -> 0..MaxTime]
  /\ keys \in [Sweepers -> SUBSET Ids]
  /\ renewed \in [Sweepers -> SUBSET Ids]
  /\ \A p \in Callers : pc[p] \in {"holding", "get", "put"} => held[p] # Absent

Init ==
  /\ clock = 1
  /\ db = [i \in Ids |-> Absent]
  /\ issued = {}
  /\ pc = [p \in Callers |-> "idle"]
  /\ id = [p \in Callers |-> Absent]
  /\ held = [p \in Callers |-> Absent]
  /\ called = [p \in Callers |-> 0]
  /\ tries = [p \in Callers |-> 0]
  /\ found = [p \in Callers |-> Absent]
  /\ touched = [i \in Ids |-> 0]
  /\ overlapped = {}
  /\ last = 0
  /\ at = [s \in Sweepers |-> "idle"]
  /\ began = [s \in Sweepers |-> 0]
  /\ keys = [s \in Sweepers |-> {}]
  /\ renewed = [s \in Sweepers |-> {}]

-----------------------------------------------------------------------------
(* Requests.                                                               *)

Goto(p, l) == pc' = [pc EXCEPT ![p] = l]

\* The request is over, with an error or without; its copy is forgotten.
End(p) ==
  /\ Goto(p, "idle")
  /\ id' = [id EXCEPT ![p] = Absent]
  /\ held' = [held EXCEPT ![p] = Absent]
  /\ called' = [called EXCEPT ![p] = 0]
  /\ tries' = [tries EXCEPT ![p] = 0]
  /\ found' = [found EXCEPT ![p] = Absent]

\* entityStore.Create, or its transaction again.  The version factory sets the time to
\* delete the entity after.
Create(p) ==
  /\ pc[p] \in {"idle", "create"}
  /\ \E i \in Ids \ issued :
       /\ issued' = issued \cup {i}
       /\ db' = [db EXCEPT ![i] = [v |-> 0, marks |-> {}, due |-> clock + DeleteAfter]]
       /\ touched' = [touched EXCEPT ![i] = clock]
  /\ Goto(p, "commit")
  /\ UNCHANGED <<clock, id, held, called, tries, found, overlapped, sweeperVars>>

\* The second time the write fails.  (Bound: or there are no more ids.)  When the first
\* one fails nothing has changed.
CreateFails(p) ==
  /\ pc[p] = "create"
  /\ "put" \in Faults \/ issued = Ids
  /\ End(p)
  /\ UNCHANGED <<clock, stored, sweeperVars>>

\* Mutant: there is no entity, and no error either.
ReadNothing(p, i) ==
  /\ pc[p] = "idle"
  /\ id' = [id EXCEPT ![p] = i]
  /\ held' = [held EXCEPT ![p] = db[i]]
  /\ Goto(p, "holding")
  /\ UNCHANGED <<clock, stored, called, tries, found, sweeperVars>>

\* entityStore.Read.
Read(p, i) ==
  /\ pc[p] = "idle"
  /\ db[i] # Absent
  /\ id' = [id EXCEPT ![p] = i]
  /\ held' = [held EXCEPT ![p] = db[i]]
  /\ Goto(p, "holding")
  /\ UNCHANGED <<clock, stored, called, tries, found, sweeperVars>>

\* The read fails, or there is no entity.  Nothing has changed.
ReadFails(p) ==
  /\ pc[p] = "idle"
  /\ UNCHANGED vars

\* A request that only looks.
Look(p) ==
  /\ pc[p] = "holding"
  /\ End(p)
  /\ UNCHANGED <<clock, stored, sweeperVars>>

\* Mutant: the time to delete the entity after stays as it is.
CallUpdateNotExtended(p) ==
  /\ pc[p] = "holding"
  /\ held[p].v < MaxVersion
  /\ held' = [held EXCEPT ![p].marks = @ \cup {p}]
  /\ called' = [called EXCEPT ![p] = clock]
  /\ Goto(p, "get")
  /\ UNCHANGED <<clock, stored, id, tries, found, sweeperVars>>

\* The request changes its copy and calls entityStore.Update, which sets the time
\* to delete it after.
CallUpdate(p) ==
  /\ pc[p] = "holding"
  /\ held[p].v < MaxVersion
  /\ held' = [held EXCEPT ![p].marks = @ \cup {p}, ![p].due = clock + DeleteAfter]
  /\ called' = [called EXCEPT ![p] = clock]
  /\ Goto(p, "get")
  /\ UNCHANGED <<clock, stored, id, tries, found, sweeperVars>>

\* Mutant: the version is not compared.
CheckAny(p) ==
  /\ pc[p] = "get"
  /\ db[id[p]] # Absent
  /\ held' = [held EXCEPT ![p].v = @ + 1]
  /\ found' = [found EXCEPT ![p] = db[id[p]]]
  /\ Goto(p, "put")
  /\ UNCHANGED <<clock, stored, id, called, tries, sweeperVars>>

Matches(p) == db[id[p]] # Absent /\ db[id[p]].v = held[p].v

\* UpdateMulti reads the entity, and finds the version that the copy has.
Check(p) ==
  /\ pc[p] = "get"
  /\ Matches(p)
  /\ held' = [held EXCEPT ![p].v = @ + 1]
  /\ found' = [found EXCEPT ![p] = db[id[p]]]
  /\ Goto(p, "put")
  /\ UNCHANGED <<clock, stored, id, called, tries, sweeperVars>>

\* It finds no entity or another version, or the read fails.
CheckFails(p) ==
  /\ pc[p] = "get"
  /\ "get" \in Faults \/ ~Matches(p)
  /\ End(p)
  /\ UNCHANGED <<clock, stored, sweeperVars>>

\* UpdateMulti writes the copy: whatever is there now is replaced.
Put(p) ==
  /\ pc[p] = "put"
  /\ db' = [db EXCEPT ![id[p]] = held[p]]
  /\ touched' = [touched EXCEPT ![id[p]] = called[p]]
  /\ overlapped' = overlapped \cup IF db[id[p]] = found[p] THEN {} ELSE {id[p]}
  /\ renewed' = [s \in Sweepers |-> renewed[s] \cup (keys[s] \cap {id[p]})]
  /\ found' = [found EXCEPT ![p] = Absent]
  /\ Goto(p, "commit")
  /\ UNCHANGED <<clock, issued, id, held, called, tries, last, at, began, keys>>

PutFails(p) ==
  /\ "put" \in Faults
  /\ pc[p] = "put"
  /\ End(p)
  /\ UNCHANGED <<clock, stored, sweeperVars>>

\* The commit succeeds, fails, or has met its last conflict.  What was written stays
\* in each case, whatever the caller is told.
Commit(p) ==
  /\ pc[p] = "commit"
  /\ End(p)
  /\ UNCHANGED <<clock, stored, sweeperVars>>

\* There is another try: a create makes another entity, and leaves the first one to
\* nobody; an update finds the version that it has stored itself.
Conflict(p) ==
  /\ "conflict" \in Faults
  /\ pc[p] = "commit"
  /\ tries[p] < Attempts - 1
  /\ tries' = [tries EXCEPT ![p] = @ + 1]
  /\ Goto(p, IF held[p] = Absent THEN "create" ELSE "get")
  /\ UNCHANGED <<clock, stored, id, held, called, found, sweeperVars>>

-----------------------------------------------------------------------------
(* clearOut, which every call starts in a goroutine.                       *)

GotoSweep(s, l) == at' = [at EXCEPT ![s] = l]

\* Mutant: mtx is not locked.
EnterUnlocked(s) ==
  /\ at[s] = "idle"
  /\ last = 0 \/ clock - last >= ClearOutAfter
  /\ GotoSweep(s, "set")
  /\ UNCHANGED <<clock, stored, callerVars, last, began, keys, renewed>>

\* mtx is locked, and the last clear-out was long enough ago.  (When it was not, mtx
\* is unlocked again and nothing has changed.)
Enter(s) ==
  /\ at[s] = "idle"
  /\ \A t \in Sweepers : at[t] # "set"
  /\ last = 0 \/ clock - last >= ClearOutAfter
  /\ GotoSweep(s, "set")
  /\ UNCHANGED <<clock, stored, callerVars, last, began, keys, renewed>>

\* This is the last clear-out now, and mtx is unlocked.
Sweep(s) ==
  /\ at[s] = "set"
  /\ last' = clock
  /\ began' = [began EXCEPT ![s] = clock]
  /\ GotoSweep(s, "query")
  /\ UNCHANGED <<clock, stored, callerVars, keys, renewed>>

\* The query finds the entities whose time has come.
Query(s) ==
  /\ at[s] = "query"
  /\ keys' = [keys EXCEPT ![s] = {i \in Ids : db[i] # Absent /\ db[i].due <= clock}]
  /\ GotoSweep(s, "delete")
  /\ UNCHANGED <<clock, stored, callerVars, last, began, renewed>>

EndSweep(s) ==
  /\ GotoSweep(s, "idle")
  /\ keys' = [keys EXCEPT ![s] = {}]
  /\ renewed' = [renewed EXCEPT ![s] = {}]
  /\ began' = [began EXCEPT ![s] = 0]

QueryFails(s) ==
  /\ "query" \in Faults
  /\ at[s] = "query"
  /\ EndSweep(s)
  /\ UNCHANGED <<clock, stored, callerVars, last>>

\* nds.DeleteMulti deletes entities, whatever they are by now.
DeleteThese(B) ==
  /\ db' = [i \in Ids |-> IF i \in B THEN Absent ELSE db[i]]
  /\ touched' = [i \in Ids |-> IF i \in B THEN 0 ELSE touched[i]]

Delete(s) ==
  /\ at[s] = "delete"
  /\ DeleteThese(keys[s])
  /\ EndSweep(s)
  /\ UNCHANGED <<clock, issued, overlapped, callerVars, last>>

\* It fails for some of them or for all.  Its error is not looked at.
DeleteFails(s) ==
  /\ "del" \in Faults
  /\ at[s] = "delete"
  /\ \E B \in SUBSET keys[s] : DeleteThese(B)
  /\ EndSweep(s)
  /\ UNCHANGED <<clock, issued, overlapped, callerVars, last>>

-----------------------------------------------------------------------------
Tick ==
  /\ clock < MaxTime
  /\ clock' = clock + 1
  /\ UNCHANGED <<stored, callerVars, sweeperVars>>

Request(p) ==
  \/ Create(p) \/ CreateFails(p)
  \/ \E i \in Ids : Read(p, i)
  \/ ReadFails(p) \/ Look(p)
  \/ CallUpdate(p) \/ Check(p) \/ CheckFails(p) \/ Put(p) \/ PutFails(p)
  \/ Commit(p) \/ Conflict(p)

ClearOut(s) ==
  Enter(s) \/ Sweep(s) \/ Query(s) \/ QueryFails(s) \/ Delete(s) \/ DeleteFails(s)

Next ==
  \/ \E p \in Callers : Request(p)
  \/ \E s \in Sweepers : ClearOut(s)
  \/ Tick

Spec == Init /\ [][Next]_vars
=============================================================================
