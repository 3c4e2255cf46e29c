-------------------------------- MODULE Nds --------------------------------
(***************************************************************************)
(* Package nds: the datastore with memcache in front of it, as the         *)
(* goroutines and the instances of an App Engine application share it.     *)
(* Each call is a sequence of RPCs, and every RPC is one step, which other *)
(* calls' RPCs interleave with.                                            *)
(*                                                                         *)
(* One key is modelled: a call with many keys takes these steps for each   *)
(* of them, with shared RPCs, and no step for one key looks at another.    *)
(* A call makes at most one lock item and one datastore write for the key, *)
(* so the call itself identifies them: a value is the call that wrote it,  *)
(* and an item's CAS id is the call that stored it.                        *)
(***************************************************************************)
EXTENDS Naturals

CONSTANTS Ops,        \* the calls to nds; each is made at most once
          Gone,       \* what the datastore has under the key: no entity ...
          Original,   \* ... or the entity that was there at first
          Nil,        \* no result, no call
          Kinds,      \* the writing calls made: "put", "txput", "delete"
          Serial,     \* TRUE: the application never has two writes in flight
          Faults,     \* what may go wrong, of FaultKinds
          LockValue   \* LockValue[o]: the four random bytes of o's lock item

FaultKinds == {"evict",    \* memcache drops the item
               "mcread",   \* GetMulti, AddMulti or CompareAndSwapMulti fails
               "mcset",    \* SetMulti fails
               "mcdelete", \* DeleteMulti fails
               "dsread",   \* a datastore read fails
               "dswrite",  \* a datastore write fails, or seems to
               "crash"}    \* the instance that makes the call is shut down

WriteKinds == {"put", "txput", "delete"}

ASSUME NdsAssumption ==
  /\ Gone \notin Ops /\ Original \notin Ops /\ Gone # Original
  /\ Nil \notin Ops \cup {Gone, Original}
  /\ Kinds \subseteq WriteKinds
  /\ Serial \in BOOLEAN
  /\ Faults \subseteq FaultKinds

VARIABLES
  ds,      \* the datastore: the call that wrote the entity, Original or Gone
  mc,      \* memcache: the item under the key
  pc,      \* pc[o]: the RPC that o makes next
  kind,    \* kind[o]: "get", or the kind of the write
  cas,     \* cas[o]: the call whose lock item o took for its own, or Nil
  got,     \* got[o]: the entity o returns, Gone for ErrNoSuchEntity, or Nil
  seen     \* seen[o]: what the datastore held since the get was called (history)

vars == <<ds, mc, pc, kind, cas, got, seen>>

Values == Ops \cup {Original, Gone}

\* A memcache item: a lock and who made it, or a cached read and its value (the
\* code's noneItem is the cached read of Gone).
Miss == [flag |-> "miss", of |-> Nil]
LockBy(o) == [flag |-> "lock", of |-> o]
Cached(v) == [flag |-> "cached", of |-> v]

Item == {Miss} \cup {LockBy(o) : o \in Ops} \cup {Cached(v) : v \in Values}

GetPCs == {"load", "add", "check", "dsget", "save"}
WritePCs == {"setlock", "dswrite", "unlock", "limbo"}

TypeOK ==
  /\ ds \in Values
  /\ mc \in Item
  /\ pc \in [Ops -> {"new", "ended"} \cup GetPCs \cup WritePCs]
  /\ kind \in [Ops -> {"get"} \cup WriteKinds]
  /\ cas \in [Ops -> Ops \cup {Nil}]
  /\ got \in [Ops -> Values \cup {Nil}]
  /\ seen \in [Ops -> SUBSET Values]

Init ==
  /\ ds \in {Original, Gone}
  /\ mc = Miss
  /\ pc = [o \in Ops |-> "new"]
  /\ kind = [o \in Ops |-> "get"]
  /\ cas = [o \in Ops |-> Nil]
  /\ got = [o \in Ops |-> Nil]
  /\ seen = [o \in Ops |-> {}]

Goto(o, l) == pc' = [pc EXCEPT ![o] = l]

-----------------------------------------------------------------------------
(* getMulti                                                                *)

CallGet(o) ==
  /\ pc[o] = "new"
  /\ Goto(o, "load")
  /\ seen' = [seen EXCEPT ![o] = {ds}]
  /\ UNCHANGED <<ds, mc, kind, cas, got>>

\* A cached read answers the call.
Answer(o) ==
  /\ mc.flag = "cached"
  /\ got' = [got EXCEPT ![o] = mc.of]
  /\ Goto(o, "ended")
  /\ UNCHANGED <<ds, mc, kind, cas, seen>>

\* loadMemcache: the item that is there, if there is one.
LoadHit(o) == pc[o] = "load" /\ Answer(o)

LoadOther(o) ==
  /\ pc[o] = "load"
  /\ mc.flag # "cached"
  /\ Goto(o, IF mc = Miss THEN "add" ELSE "dsget")
  /\ UNCHANGED <<ds, mc, kind, cas, got, seen>>

\* An RPC of the cache fails: the read goes on as if somebody else held the lock.
CacheFault(o) ==
  /\ "mcread" \in Faults
  /\ pc[o] \in {"load", "check"}
  /\ Goto(o, "dsget")
  /\ UNCHANGED <<ds, mc, kind, cas, got, seen>>

\* lockMemcache, AddMulti: takes effect only when there is no item.
AddLock(o) ==
  /\ pc[o] = "add"
  /\ mc' = IF mc = Miss THEN LockBy(o) ELSE mc
  /\ Goto(o, "check")
  /\ UNCHANGED <<ds, kind, cas, got, seen>>

\* Its errors are ignored.
AddFault(o) ==
  /\ "mcread" \in Faults
  /\ pc[o] = "add"
  /\ Goto(o, "check")
  /\ UNCHANGED <<ds, mc, kind, cas, got, seen>>

\* lockMemcache, GetMulti: the item now there.
CheckHit(o) == pc[o] = "check" /\ Answer(o)

\* The lock is o's own when it has the bytes that o put in its own item.
Mine(o) == mc.flag = "lock" /\ LockValue[mc.of] = LockValue[o]

\* Mutant: whoever made the lock, it is taken for o's own.
CheckOtherAny(o) ==
  /\ pc[o] = "check"
  /\ mc.flag # "cached"
  /\ cas' = [cas EXCEPT ![o] = IF mc.flag = "lock" THEN mc.of ELSE Nil]
  /\ Goto(o, "dsget")
  /\ UNCHANGED <<ds, mc, kind, got, seen>>

CheckOther(o) ==
  /\ pc[o] = "check"
  /\ mc.flag # "cached"
  /\ cas' = [cas EXCEPT ![o] = IF Mine(o) THEN mc.of ELSE Nil]
  /\ Goto(o, "dsget")
  /\ UNCHANGED <<ds, mc, kind, got, seen>>

\* loadDatastore; a call that has the lock goes on to save what it read.
DsGet(o) ==
  /\ pc[o] = "dsget"
  /\ got' = [got EXCEPT ![o] = ds]
  /\ Goto(o, IF cas[o] = Nil THEN "ended" ELSE "save")
  /\ UNCHANGED <<ds, mc, kind, cas, seen>>

\* Mutant: the error of the datastore does not keep the item from being saved.
DsGetFaultSaved(o) ==
  /\ "dsread" \in Faults
  /\ pc[o] = "dsget"
  /\ Goto(o, IF cas[o] = Nil THEN "ended" ELSE "save")
  /\ UNCHANGED <<ds, mc, kind, cas, got, seen>>

DsGetFault(o) ==
  /\ "dsread" \in Faults
  /\ pc[o] = "dsget"
  /\ Goto(o, "ended")
  /\ UNCHANGED <<ds, mc, kind, cas, got, seen>>

\* Mutant: the item is set, not compared and swapped.
SaveBySet(o) ==
  /\ pc[o] = "save"
  /\ mc' = Cached(got[o])
  /\ Goto(o, "ended")
  /\ UNCHANGED <<ds, kind, cas, got, seen>>

\* saveMemcache: CompareAndSwapMulti takes effect when the lock item is still
\* the one that was read.
Save(o) ==
  /\ pc[o] = "save"
  /\ mc' = IF mc = LockBy(cas[o]) THEN Cached(got[o]) ELSE mc
  /\ Goto(o, "ended")
  /\ UNCHANGED <<ds, kind, cas, got, seen>>

SaveFault(o) ==
  /\ "mcread" \in Faults
  /\ pc[o] = "save"
  /\ Goto(o, "ended")
  /\ UNCHANGED <<ds, mc, kind, cas, got, seen>>

-----------------------------------------------------------------------------
(* putMulti, deleteMulti, and RunInTransaction with one put or delete.     *)

Writing(o) == pc[o] \in WritePCs
WriteInFlight == \E o \in Ops : Writing(o)

CallWrite(o, k) ==
  /\ k \in Kinds
  /\ Serial => ~WriteInFlight
  /\ pc[o] = "new"
  /\ kind' = [kind EXCEPT ![o] = k]
  /\ Goto(o, "setlock")
  /\ UNCHANGED <<ds, mc, cas, got, seen>>

\* Mutant: the lock is added, and a cached item stays.
SetLockByAdd(o) ==
  /\ pc[o] = "setlock"
  /\ mc' = IF mc = Miss THEN LockBy(o) ELSE mc
  /\ Goto(o, "dswrite")
  /\ UNCHANGED <<ds, kind, cas, got, seen>>

\* memcacheSetMulti: the lock replaces any item.
SetLock(o) ==
  /\ pc[o] = "setlock"
  /\ mc' = LockBy(o)
  /\ Goto(o, "dswrite")
  /\ UNCHANGED <<ds, kind, cas, got, seen>>

\* It fails, after the lock was set or before: the write is given up.
SetLockFault(o) ==
  /\ "mcset" \in Faults
  /\ pc[o] = "setlock"
  /\ mc' \in {mc, LockBy(o)}
  /\ Goto(o, "ended")
  /\ UNCHANGED <<ds, kind, cas, got, seen>>

\* What o writes into the datastore.
Written(o) == IF kind[o] = "delete" THEN Gone ELSE o

Store(v) ==
  /\ ds' = v
  /\ seen' = [r \in Ops |-> IF pc[r] \in GetPCs THEN seen[r] \cup {v} ELSE seen[r]]

\* Mutant: a put leaves its lock to expire.
DsWriteNoUnlock(o) ==
  /\ pc[o] = "dswrite"
  /\ Store(Written(o))
  /\ Goto(o, "ended")
  /\ UNCHANGED <<mc, kind, cas, got>>

\* datastorePutMulti, datastoreDeleteMulti or the commit.  Only a put outside a
\* transaction removes its lock.
DsWrite(o) ==
  /\ pc[o] = "dswrite"
  /\ Store(Written(o))
  /\ Goto(o, IF kind[o] = "put" THEN "unlock" ELSE "ended")
  /\ UNCHANGED <<mc, kind, cas, got>>

\* The datastore reports an error, but may retry the write for a while.
DsWriteFault(o) ==
  /\ "dswrite" \in Faults
  /\ pc[o] = "dswrite"
  /\ Goto(o, "limbo")
  /\ UNCHANGED <<ds, mc, kind, cas, got, seen>>

LateWrite(o) ==
  /\ pc[o] = "limbo"
  /\ Store(Written(o))
  /\ Goto(o, "ended")
  /\ UNCHANGED <<mc, kind, cas, got>>

GiveUp(o) ==
  /\ pc[o] = "limbo"
  /\ Goto(o, "ended")
  /\ UNCHANGED <<ds, mc, kind, cas, got, seen>>

\* memcacheDeleteMulti: removes the item, whatever it is.
Unlock(o) ==
  /\ pc[o] = "unlock"
  /\ mc' = Miss
  /\ Goto(o, "ended")
  /\ UNCHANGED <<ds, kind, cas, got, seen>>

\* It fails: the error is logged, and the lock stays until it expires.
UnlockFault(o) ==
  /\ "mcdelete" \in Faults
  /\ pc[o] = "unlock"
  /\ Goto(o, "ended")
  /\ UNCHANGED <<ds, mc, kind, cas, got, seen>>

-----------------------------------------------------------------------------
(* The environment.                                                        *)

\* The instance stops; a datastore write it has asked for may still happen.
Crash(o) ==
  /\ "crash" \in Faults
  /\ pc[o] \notin {"new", "ended", "limbo"}
  /\ Goto(o, IF pc[o] = "dswrite" THEN "limbo" ELSE "ended")
  /\ UNCHANGED <<ds, mc, kind, cas, got, seen>>

\* Locks expire.  memcacheLockTime is longer than a datastore write can take,
\* so a writer's lock does not expire before its write is over.
Expire ==
  /\ mc.flag = "lock"
  /\ pc[mc.of] \notin {"setlock", "dswrite", "limbo"}
  /\ mc' = Miss
  /\ UNCHANGED <<ds, pc, kind, cas, got, seen>>

Evict ==
  /\ "evict" \in Faults
  /\ mc # Miss
  /\ mc' = Miss
  /\ UNCHANGED <<ds, pc, kind, cas, got, seen>>

GetStep(o) ==
  \/ LoadHit(o) \/ LoadOther(o) \/ CacheFault(o)
  \/ AddLock(o) \/ AddFault(o) \/ CheckHit(o) \/ CheckOther(o)
  \/ DsGet(o) \/ DsGetFault(o) \/ Save(o) \/ SaveFault(o)

WriteStep(o) ==
  \/ SetLock(o) \/ SetLockFault(o)
  \/ DsWrite(o) \/ DsWriteFault(o) \/ LateWrite(o) \/ GiveUp(o)
  \/ Unlock(o) \/ UnlockFault(o)

Next ==
  \/ \E o \in Ops : \/ CallGet(o) \/ GetStep(o) \/ WriteStep(o) \/ Crash(o)
                    \/ \E k \in Kinds : CallWrite(o, k)
  \/ Expire
  \/ Evict

Spec == Init /\ [][Next]_vars
=============================================================================
