------------------------------ MODULE NdsProps ------------------------------
(***************************************************************************)
(* What nds promises of its cache, and the two ways of using it in which   *)
(* the promise is kept.                                                    *)
(***************************************************************************)
EXTENDS Nds

\* When no write is in flight the cache is not stale: what it has for the key
\* is what the datastore has, whatever was evicted, locked, raced or lost
\* before (put.go:47-88, get.go:172-205).
CacheCoherent == ~WriteInFlight /\ mc.flag = "cached" => mc.of = ds

\* A get that answers while no write is in flight answers with something the
\* datastore held after the get was called: it never returns stale results
\* (get.go:166-169).
NoStaleRead ==
  [][\A o \in Ops : got'[o] # got[o] /\ ~WriteInFlight => got'[o] \in seen[o]]_vars

\* When writes do not overlap and the cache evicts nothing, no get at all is
\* stale, the gets in the middle of a write included: each returns what the
\* datastore held at some moment of the call.
FreshRead == \A o \in Ops : got[o] # Nil => got[o] \in seen[o]

\* A read never replaces the lock of a writer with what it read: the bytes of
\* the lock and the CAS id keep each read to its own lock (get.go:296).
NoStolenLock ==
  [][mc.flag = "lock" /\ mc'.flag = "cached" => kind[mc.of] = "get"]_vars

\* The two uses of nds that keep its promise.  The first: nothing but puts,
\* which may overlap, and which never stop after their datastore write.
PutsOnly == Kinds \subseteq {"put"} /\ Faults \cap {"mcdelete", "dswrite", "crash"} = {}

\* The second: writes of any kind, and any failure, but one write at a time and
\* no eviction.
SerialWrites == Serial /\ "evict" \notin Faults

\* No two calls draw the same bytes for their lock items.
DistinctLocks == \A o, q \in Ops : LockValue[o] = LockValue[q] => o = q

-----------------------------------------------------------------------------
(* The inductive invariants behind these properties (NdsProofs).           *)

\* A call is where its kind can be, has no lock and no result before it
\* begins, and has both when it saves.
Shape ==
  \A o \in Ops :
    /\ pc[o] \in GetPCs \cup {"new"} => kind[o] = "get"
    /\ pc[o] = "new" => got[o] = Nil /\ cas[o] = Nil
    /\ Writing(o) => kind[o] \in Kinds
    /\ pc[o] = "save" => cas[o] # Nil /\ got[o] # Nil
    /\ cas[o] # Nil => kind[o] = "get" /\ LockValue[cas[o]] = LockValue[o]

\* No call has a lock item before it makes one.
LockMadeOnce ==
  \A o \in Ops : pc[o] \in {"new", "load", "add", "setlock"} =>
    mc # LockBy(o) /\ \A q \in Ops : cas[q] # o

Current(o) == pc[o] = "save" /\ mc = LockBy(cas[o])

\* Both a cached read, and a read that is about to be saved over a lock that is
\* still there, have the datastore's entity.
CacheIsCurrent ==
  /\ mc.flag = "cached" => mc.of = ds
  /\ \A o \in Ops : Current(o) => got[o] = ds

Unlocking == \E o \in Ops : pc[o] = "unlock"

\* Puts only: the cache may be stale while a put is yet to remove its lock.
PutsInv == /\ \A o \in Ops : pc[o] # "limbo"
           /\ Unlocking \/ CacheIsCurrent

\* One write at a time: the lock of the write stays there until it is done.
SerialInv == /\ \A o, q \in Ops : Writing(o) /\ Writing(q) => o = q
             /\ \A o \in Ops : pc[o] \in {"dswrite", "limbo"} => mc = LockBy(o)
             /\ CacheIsCurrent

\* What a get may answer with is in its history.
HistoryInv == \A o \in Ops : pc[o] \in GetPCs => ds \in seen[o]
=============================================================================
