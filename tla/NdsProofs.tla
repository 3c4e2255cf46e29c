------------------------------ MODULE NdsProofs ------------------------------
(***************************************************************************)
(* For any number of calls and any faults: what package nds promises, in   *)
(* the two ways of using it that NdsProps names.                           *)
(***************************************************************************)
EXTENDS NdsProps, TLAPS

-----------------------------------------------------------------------------
(* The shape of a state, whatever the calls.                               *)

\* What the other invariants rest on: types, where a call of each kind can be,
\* and that no lock item exists before its maker makes it.
Base == TypeOK /\ Shape /\ LockMadeOnce

\* What an item's flag says of it.
LEMMA ItemIsKnown ==
  ASSUME mc \in Item
  PROVE  /\ mc.flag \in {"miss", "lock", "cached"}
         /\ mc.flag = "lock" => mc.of \in Ops /\ mc = LockBy(mc.of)
         /\ mc.flag = "cached" => mc.of \in Values /\ mc = Cached(mc.of)
         /\ mc.flag = "miss" => mc = Miss
  BY DEF Item, Miss, LockBy, Cached

\* The three kinds of item are told apart by their flags.
LEMMA ItemsDiffer ==
  /\ \A o \in Ops : Miss # LockBy(o) /\ LockBy(o).flag = "lock" /\ LockBy(o).of = o
  /\ \A v \in Values : Cached(v).flag = "cached" /\ Cached(v).of = v
  /\ Miss.flag = "miss"
  BY DEF Miss, LockBy, Cached

\* The initial states have the shape.
LEMMA BaseInit == Init => Base
  BY NdsAssumption
  DEF Init, Base, TypeOK, Shape, LockMadeOnce, Values, Item, Miss, LockBy, Writing,
      WritePCs, GetPCs

\* Every step keeps the types.
LEMMA TypeStep == TypeOK /\ Shape /\ [Next]_vars => TypeOK'
<1> SUFFICES ASSUME TypeOK, Shape, [Next]_vars PROVE TypeOK'
  OBVIOUS
<1> USE NdsAssumption
    DEF TypeOK, Values, Item, Miss, LockBy, Cached, GetPCs, WritePCs, WriteKinds
<1>1. ASSUME NEW o \in Ops, CallGet(o) PROVE TypeOK'
  BY <1>1 DEF CallGet, Goto
<1>2. ASSUME NEW o \in Ops, LoadHit(o) PROVE TypeOK'
  BY <1>2 DEF LoadHit, Answer, Goto
<1>3. ASSUME NEW o \in Ops, LoadOther(o) PROVE TypeOK'
  BY <1>3 DEF LoadOther, Goto
<1>4. ASSUME NEW o \in Ops, CacheFault(o) PROVE TypeOK'
  BY <1>4 DEF CacheFault, Goto
<1>5. ASSUME NEW o \in Ops, AddLock(o) PROVE TypeOK'
  BY <1>5 DEF AddLock, Goto
<1>6. ASSUME NEW o \in Ops, AddFault(o) PROVE TypeOK'
  BY <1>6 DEF AddFault, Goto
<1>7. ASSUME NEW o \in Ops, CheckHit(o) PROVE TypeOK'
  BY <1>7 DEF CheckHit, Answer, Goto
<1>8. ASSUME NEW o \in Ops, CheckOther(o) PROVE TypeOK'
  BY <1>8 DEF CheckOther, Mine, Goto
<1>9. ASSUME NEW o \in Ops, DsGet(o) PROVE TypeOK'
  BY <1>9 DEF DsGet, Goto
<1>10. ASSUME NEW o \in Ops, DsGetFault(o) PROVE TypeOK'
  BY <1>10 DEF DsGetFault, Goto
<1>11. ASSUME NEW o \in Ops, Save(o) PROVE TypeOK'
  <2>1. mc' = mc \/ mc' = Cached(got[o])
    BY <1>11 DEF Save
  <2>2. got[o] \in Values
    BY <1>11 DEF Save, TypeOK, Shape
  <2> QED
    BY <1>11, <2>1, <2>2 DEF Save, Goto, TypeOK, Item
<1>12. ASSUME NEW o \in Ops, SaveFault(o) PROVE TypeOK'
  BY <1>12 DEF SaveFault, Goto
<1>13. ASSUME NEW o \in Ops, NEW k \in Kinds, CallWrite(o, k) PROVE TypeOK'
  BY <1>13 DEF CallWrite, Goto
<1>14. ASSUME NEW o \in Ops, SetLock(o) PROVE TypeOK'
  BY <1>14 DEF SetLock, Goto
<1>15. ASSUME NEW o \in Ops, SetLockFault(o) PROVE TypeOK'
  BY <1>15 DEF SetLockFault, Goto
<1>16. ASSUME NEW o \in Ops, DsWrite(o) PROVE TypeOK'
  BY <1>16 DEF DsWrite, Store, Written, Goto
<1>17. ASSUME NEW o \in Ops, DsWriteFault(o) PROVE TypeOK'
  BY <1>17 DEF DsWriteFault, Goto
<1>18. ASSUME NEW o \in Ops, LateWrite(o) PROVE TypeOK'
  BY <1>18 DEF LateWrite, Store, Written, Goto
<1>19. ASSUME NEW o \in Ops, GiveUp(o) PROVE TypeOK'
  BY <1>19 DEF GiveUp, Goto
<1>20. ASSUME NEW o \in Ops, Unlock(o) PROVE TypeOK'
  BY <1>20 DEF Unlock, Goto
<1>21. ASSUME NEW o \in Ops, UnlockFault(o) PROVE TypeOK'
  BY <1>21 DEF UnlockFault, Goto
<1>22. ASSUME NEW o \in Ops, Crash(o) PROVE TypeOK'
  BY <1>22 DEF Crash, Goto
<1>23. ASSUME Expire PROVE TypeOK'
  BY <1>23 DEF Expire
<1>24. ASSUME Evict PROVE TypeOK'
  BY <1>24 DEF Evict
<1>25. ASSUME UNCHANGED vars PROVE TypeOK'
  BY <1>25 DEF vars
<1> QED
  BY <1>1, <1>2, <1>3, <1>4, <1>5, <1>6, <1>7, <1>8, <1>9, <1>10, <1>11, <1>12, <1>13,
      <1>14, <1>15, <1>16, <1>17, <1>18, <1>19, <1>20, <1>21, <1>22, <1>23, <1>24, <1>25
  DEF Next, GetStep, WriteStep

\* Every step leaves each call where its kind can be.
LEMMA ShapeStep == TypeOK /\ Shape /\ [Next]_vars => Shape'
<1> SUFFICES ASSUME TypeOK, Shape, [Next]_vars PROVE Shape'
  OBVIOUS
<1> USE NdsAssumption
    DEF TypeOK, Shape, Values, Writing, GetPCs, WritePCs
<1>1. ASSUME NEW o \in Ops, CallGet(o) PROVE Shape'
  BY <1>1 DEF CallGet, Goto
<1>2. ASSUME NEW o \in Ops, LoadHit(o) PROVE Shape'
  BY <1>2 DEF LoadHit, Answer, Goto
<1>3. ASSUME NEW o \in Ops, LoadOther(o) PROVE Shape'
  BY <1>3 DEF LoadOther, Goto
<1>4. ASSUME NEW o \in Ops, CacheFault(o) PROVE Shape'
  BY <1>4 DEF CacheFault, Goto
<1>5. ASSUME NEW o \in Ops, AddLock(o) PROVE Shape'
  BY <1>5 DEF AddLock, Goto
<1>6. ASSUME NEW o \in Ops, AddFault(o) PROVE Shape'
  BY <1>6 DEF AddFault, Goto
<1>7. ASSUME NEW o \in Ops, CheckHit(o) PROVE Shape'
  BY <1>7 DEF CheckHit, Answer, Goto
<1>8. ASSUME NEW o \in Ops, CheckOther(o) PROVE Shape'
  <2>1. mc.flag = "lock" => mc.of \in Ops
    BY ItemIsKnown DEF TypeOK
  <2> QED
    BY <1>8, <2>1
    DEF CheckOther, Mine, Goto
<1>9. ASSUME NEW o \in Ops, DsGet(o) PROVE Shape'
  BY <1>9 DEF DsGet, Goto
<1>10. ASSUME NEW o \in Ops, DsGetFault(o) PROVE Shape'
  BY <1>10 DEF DsGetFault, Goto
<1>11. ASSUME NEW o \in Ops, Save(o) PROVE Shape'
  BY <1>11 DEF Save, Goto
<1>12. ASSUME NEW o \in Ops, SaveFault(o) PROVE Shape'
  BY <1>12 DEF SaveFault, Goto
<1>13. ASSUME NEW o \in Ops, NEW k \in Kinds, CallWrite(o, k) PROVE Shape'
  BY <1>13 DEF CallWrite, Goto
<1>14. ASSUME NEW o \in Ops, SetLock(o) PROVE Shape'
  BY <1>14 DEF SetLock, Goto
<1>15. ASSUME NEW o \in Ops, SetLockFault(o) PROVE Shape'
  BY <1>15 DEF SetLockFault, Goto
<1>16. ASSUME NEW o \in Ops, DsWrite(o) PROVE Shape'
  BY <1>16 DEF DsWrite, Store, Written, Goto
<1>17. ASSUME NEW o \in Ops, DsWriteFault(o) PROVE Shape'
  BY <1>17 DEF DsWriteFault, Goto
<1>18. ASSUME NEW o \in Ops, LateWrite(o) PROVE Shape'
  BY <1>18 DEF LateWrite, Store, Written, Goto
<1>19. ASSUME NEW o \in Ops, GiveUp(o) PROVE Shape'
  BY <1>19 DEF GiveUp, Goto
<1>20. ASSUME NEW o \in Ops, Unlock(o) PROVE Shape'
  BY <1>20 DEF Unlock, Goto
<1>21. ASSUME NEW o \in Ops, UnlockFault(o) PROVE Shape'
  BY <1>21 DEF UnlockFault, Goto
<1>22. ASSUME NEW o \in Ops, Crash(o) PROVE Shape'
  BY <1>22 DEF Crash, Goto
<1>23. ASSUME Expire PROVE Shape'
  BY <1>23 DEF Expire
<1>24. ASSUME Evict PROVE Shape'
  BY <1>24 DEF Evict
<1>25. ASSUME UNCHANGED vars PROVE Shape'
  BY <1>25 DEF vars
<1> QED
  BY <1>1, <1>2, <1>3, <1>4, <1>5, <1>6, <1>7, <1>8, <1>9, <1>10, <1>11, <1>12, <1>13,
      <1>14, <1>15, <1>16, <1>17, <1>18, <1>19, <1>20, <1>21, <1>22, <1>23, <1>24, <1>25
  DEF Next, GetStep, WriteStep

\* No step takes the lock of a call that has none yet.
LEMMA LockMadeOnceStep == TypeOK /\ Shape /\ LockMadeOnce /\ [Next]_vars => LockMadeOnce'
<1> SUFFICES ASSUME TypeOK, Shape, LockMadeOnce, [Next]_vars PROVE LockMadeOnce'
  OBVIOUS
<1> USE NdsAssumption
    DEF TypeOK, LockMadeOnce, Miss, LockBy, Cached
<1>1. ASSUME NEW o \in Ops, CallGet(o) PROVE LockMadeOnce'
  BY <1>1 DEF CallGet, Goto
<1>2. ASSUME NEW o \in Ops, LoadHit(o) PROVE LockMadeOnce'
  BY <1>2 DEF LoadHit, Answer, Goto
<1>3. ASSUME NEW o \in Ops, LoadOther(o) PROVE LockMadeOnce'
  BY <1>3 DEF LoadOther, Goto
<1>4. ASSUME NEW o \in Ops, CacheFault(o) PROVE LockMadeOnce'
  BY <1>4 DEF CacheFault, Goto
<1>5. ASSUME NEW o \in Ops, AddLock(o) PROVE LockMadeOnce'
  BY <1>5 DEF AddLock, Goto
<1>6. ASSUME NEW o \in Ops, AddFault(o) PROVE LockMadeOnce'
  BY <1>6 DEF AddFault, Goto
<1>7. ASSUME NEW o \in Ops, CheckHit(o) PROVE LockMadeOnce'
  BY <1>7 DEF CheckHit, Answer, Goto
<1>8. ASSUME NEW o \in Ops, CheckOther(o) PROVE LockMadeOnce'
  <2>1. mc.flag = "lock" => mc.of \in Ops /\ mc = LockBy(mc.of)
    BY ItemIsKnown DEF TypeOK
  <2> QED
    BY <1>8, <2>1
    DEF CheckOther, Mine, Goto
<1>9. ASSUME NEW o \in Ops, DsGet(o) PROVE LockMadeOnce'
  BY <1>9 DEF DsGet, Goto
<1>10. ASSUME NEW o \in Ops, DsGetFault(o) PROVE LockMadeOnce'
  BY <1>10 DEF DsGetFault, Goto
<1>11. ASSUME NEW o \in Ops, Save(o) PROVE LockMadeOnce'
  BY <1>11 DEF Save, Goto
<1>12. ASSUME NEW o \in Ops, SaveFault(o) PROVE LockMadeOnce'
  BY <1>12 DEF SaveFault, Goto
<1>13. ASSUME NEW o \in Ops, NEW k \in Kinds, CallWrite(o, k) PROVE LockMadeOnce'
  BY <1>13 DEF CallWrite, Goto
<1>14. ASSUME NEW o \in Ops, SetLock(o) PROVE LockMadeOnce'
  BY <1>14 DEF SetLock, Goto
<1>15. ASSUME NEW o \in Ops, SetLockFault(o) PROVE LockMadeOnce'
  BY <1>15 DEF SetLockFault, Goto
<1>16. ASSUME NEW o \in Ops, DsWrite(o) PROVE LockMadeOnce'
  BY <1>16 DEF DsWrite, Store, Written, Goto
<1>17. ASSUME NEW o \in Ops, DsWriteFault(o) PROVE LockMadeOnce'
  BY <1>17 DEF DsWriteFault, Goto
<1>18. ASSUME NEW o \in Ops, LateWrite(o) PROVE LockMadeOnce'
  BY <1>18 DEF LateWrite, Store, Written, Goto
<1>19. ASSUME NEW o \in Ops, GiveUp(o) PROVE LockMadeOnce'
  BY <1>19 DEF GiveUp, Goto
<1>20. ASSUME NEW o \in Ops, Unlock(o) PROVE LockMadeOnce'
  BY <1>20 DEF Unlock, Goto
<1>21. ASSUME NEW o \in Ops, UnlockFault(o) PROVE LockMadeOnce'
  BY <1>21 DEF UnlockFault, Goto
<1>22. ASSUME NEW o \in Ops, Crash(o) PROVE LockMadeOnce'
  BY <1>22 DEF Crash, Goto
<1>23. ASSUME Expire PROVE LockMadeOnce'
  BY <1>23 DEF Expire
<1>24. ASSUME Evict PROVE LockMadeOnce'
  BY <1>24 DEF Evict
<1>25. ASSUME UNCHANGED vars PROVE LockMadeOnce'
  BY <1>25 DEF vars
<1> QED
  BY <1>1, <1>2, <1>3, <1>4, <1>5, <1>6, <1>7, <1>8, <1>9, <1>10, <1>11, <1>12, <1>13,
      <1>14, <1>15, <1>16, <1>17, <1>18, <1>19, <1>20, <1>21, <1>22, <1>23, <1>24, <1>25
  DEF Next, GetStep, WriteStep

\* The inductive invariant of every use of the package.
THEOREM Shapes == Spec => []Base
<1>1. Base /\ [Next]_vars => Base'
  BY TypeStep, ShapeStep, LockMadeOnceStep DEF Base
<1> QED
  BY BaseInit, <1>1, PTL DEF Spec

\* Type correctness.
THEOREM NdsTypeCorrect == Spec => []TypeOK
<1>1. Base => TypeOK
  BY DEF Base
<1> QED
  BY Shapes, <1>1, PTL

-----------------------------------------------------------------------------
(* The history.                                                            *)

\* A running get has the datastore's entity in its history.
LEMMA HistoryStep == TypeOK /\ HistoryInv /\ [Next]_vars => HistoryInv'
<1> SUFFICES ASSUME TypeOK, HistoryInv, [Next]_vars PROVE HistoryInv'
  OBVIOUS
<1> USE NdsAssumption
    DEF TypeOK, HistoryInv, GetPCs
<1>1. ASSUME NEW o \in Ops, CallGet(o) PROVE HistoryInv'
  BY <1>1 DEF CallGet, Goto
<1>2. ASSUME NEW o \in Ops, LoadHit(o) PROVE HistoryInv'
  BY <1>2 DEF LoadHit, Answer, Goto
<1>3. ASSUME NEW o \in Ops, LoadOther(o) PROVE HistoryInv'
  BY <1>3 DEF LoadOther, Goto
<1>4. ASSUME NEW o \in Ops, CacheFault(o) PROVE HistoryInv'
  BY <1>4 DEF CacheFault, Goto
<1>5. ASSUME NEW o \in Ops, AddLock(o) PROVE HistoryInv'
  BY <1>5 DEF AddLock, Goto
<1>6. ASSUME NEW o \in Ops, AddFault(o) PROVE HistoryInv'
  BY <1>6 DEF AddFault, Goto
<1>7. ASSUME NEW o \in Ops, CheckHit(o) PROVE HistoryInv'
  BY <1>7 DEF CheckHit, Answer, Goto
<1>8. ASSUME NEW o \in Ops, CheckOther(o) PROVE HistoryInv'
  BY <1>8 DEF CheckOther, Mine, Goto
<1>9. ASSUME NEW o \in Ops, DsGet(o) PROVE HistoryInv'
  BY <1>9 DEF DsGet, Goto
<1>10. ASSUME NEW o \in Ops, DsGetFault(o) PROVE HistoryInv'
  BY <1>10 DEF DsGetFault, Goto
<1>11. ASSUME NEW o \in Ops, Save(o) PROVE HistoryInv'
  BY <1>11 DEF Save, Goto
<1>12. ASSUME NEW o \in Ops, SaveFault(o) PROVE HistoryInv'
  BY <1>12 DEF SaveFault, Goto
<1>13. ASSUME NEW o \in Ops, NEW k \in Kinds, CallWrite(o, k) PROVE HistoryInv'
  BY <1>13 DEF CallWrite, Goto
<1>14. ASSUME NEW o \in Ops, SetLock(o) PROVE HistoryInv'
  BY <1>14 DEF SetLock, Goto
<1>15. ASSUME NEW o \in Ops, SetLockFault(o) PROVE HistoryInv'
  BY <1>15 DEF SetLockFault, Goto
<1>16. ASSUME NEW o \in Ops, DsWrite(o) PROVE HistoryInv'
  BY <1>16 DEF DsWrite, Store, Written, Goto
<1>17. ASSUME NEW o \in Ops, DsWriteFault(o) PROVE HistoryInv'
  BY <1>17 DEF DsWriteFault, Goto
<1>18. ASSUME NEW o \in Ops, LateWrite(o) PROVE HistoryInv'
  BY <1>18 DEF LateWrite, Store, Written, Goto
<1>19. ASSUME NEW o \in Ops, GiveUp(o) PROVE HistoryInv'
  BY <1>19 DEF GiveUp, Goto
<1>20. ASSUME NEW o \in Ops, Unlock(o) PROVE HistoryInv'
  BY <1>20 DEF Unlock, Goto
<1>21. ASSUME NEW o \in Ops, UnlockFault(o) PROVE HistoryInv'
  BY <1>21 DEF UnlockFault, Goto
<1>22. ASSUME NEW o \in Ops, Crash(o) PROVE HistoryInv'
  BY <1>22 DEF Crash, Goto
<1>23. ASSUME Expire PROVE HistoryInv'
  BY <1>23 DEF Expire
<1>24. ASSUME Evict PROVE HistoryInv'
  BY <1>24 DEF Evict
<1>25. ASSUME UNCHANGED vars PROVE HistoryInv'
  BY <1>25 DEF vars
<1> QED
  BY <1>1, <1>2, <1>3, <1>4, <1>5, <1>6, <1>7, <1>8, <1>9, <1>10, <1>11, <1>12, <1>13,
      <1>14, <1>15, <1>16, <1>17, <1>18, <1>19, <1>20, <1>21, <1>22, <1>23, <1>24, <1>25
  DEF Next, GetStep, WriteStep

\* The history with what it rests on.
THEOREM History == Spec => [](Base /\ HistoryInv)
<1>1. Init => HistoryInv
  BY DEF Init, HistoryInv, GetPCs
<1>2. TypeOK /\ HistoryInv /\ [Next]_vars => HistoryInv'
  BY HistoryStep
<1>3. Base => TypeOK
  BY DEF Base
<1> QED
  BY <1>1, <1>2, <1>3, Shapes, PTL DEF Spec

-----------------------------------------------------------------------------
(* Puts only.                                                              *)

\* Every step keeps the cache current, or leaves a put that will remove its lock.
LEMMA PutsStep ==
  ASSUME PutsOnly, Base, PutsInv, [Next]_vars
  PROVE  PutsInv'
<1> USE DEF Base
<1> USE NdsAssumption, PutsOnly
    DEF PutsOnly, TypeOK, Shape, LockMadeOnce, PutsInv, Unlocking, CacheIsCurrent,
        Current, Miss, LockBy, Cached, Writing, WritePCs, GetPCs
<1>1. ASSUME NEW o \in Ops, CallGet(o) PROVE PutsInv'
  BY <1>1 DEF CallGet, Goto
<1>2. ASSUME NEW o \in Ops, LoadHit(o) PROVE PutsInv'
  BY <1>2 DEF LoadHit, Answer, Goto
<1>3. ASSUME NEW o \in Ops, LoadOther(o) PROVE PutsInv'
  BY <1>3 DEF LoadOther, Goto
<1>4. ASSUME NEW o \in Ops, CacheFault(o) PROVE PutsInv'
  BY <1>4 DEF CacheFault, Goto
<1>5. ASSUME NEW o \in Ops, AddLock(o) PROVE PutsInv'
  BY <1>5 DEF AddLock, Goto
<1>6. ASSUME NEW o \in Ops, AddFault(o) PROVE PutsInv'
  BY <1>6 DEF AddFault, Goto
<1>7. ASSUME NEW o \in Ops, CheckHit(o) PROVE PutsInv'
  BY <1>7 DEF CheckHit, Answer, Goto
<1>8. ASSUME NEW o \in Ops, CheckOther(o) PROVE PutsInv'
  <2>1. mc.flag = "lock" => mc.of \in Ops /\ mc = LockBy(mc.of)
    BY ItemIsKnown DEF TypeOK
  <2> QED
    BY <1>8, <2>1
    DEF CheckOther, Mine, Goto
<1>9. ASSUME NEW o \in Ops, DsGet(o) PROVE PutsInv'
  BY <1>9 DEF DsGet, Goto
<1>10. ASSUME NEW o \in Ops, DsGetFault(o) PROVE PutsInv'
  BY <1>10 DEF DsGetFault, Goto
<1>11. ASSUME NEW o \in Ops, Save(o) PROVE PutsInv'
  BY <1>11 DEF Save, Goto
<1>12. ASSUME NEW o \in Ops, SaveFault(o) PROVE PutsInv'
  BY <1>12 DEF SaveFault, Goto
<1>13. ASSUME NEW o \in Ops, NEW k \in Kinds, CallWrite(o, k) PROVE PutsInv'
  BY <1>13 DEF CallWrite, Goto
<1>14. ASSUME NEW o \in Ops, SetLock(o) PROVE PutsInv'
  BY <1>14 DEF SetLock, Goto
<1>15. ASSUME NEW o \in Ops, SetLockFault(o) PROVE PutsInv'
  BY <1>15 DEF SetLockFault, Goto
<1>16. ASSUME NEW o \in Ops, DsWrite(o) PROVE PutsInv'
  BY <1>16 DEF DsWrite, Store, Written, Goto
<1>17. ASSUME NEW o \in Ops, DsWriteFault(o) PROVE PutsInv'
  BY <1>17 DEF DsWriteFault, Goto
<1>18. ASSUME NEW o \in Ops, LateWrite(o) PROVE PutsInv'
  BY <1>18 DEF LateWrite, Store, Written, Goto
<1>19. ASSUME NEW o \in Ops, GiveUp(o) PROVE PutsInv'
  BY <1>19 DEF GiveUp, Goto
<1>20. ASSUME NEW o \in Ops, Unlock(o) PROVE PutsInv'
  BY <1>20 DEF Unlock, Goto
<1>21. ASSUME NEW o \in Ops, UnlockFault(o) PROVE PutsInv'
  BY <1>21 DEF UnlockFault, Goto
<1>22. ASSUME NEW o \in Ops, Crash(o) PROVE PutsInv'
  BY <1>22 DEF Crash, Goto
<1>23. ASSUME Expire PROVE PutsInv'
  BY <1>23 DEF Expire
<1>24. ASSUME Evict PROVE PutsInv'
  BY <1>24 DEF Evict
<1>25. ASSUME UNCHANGED vars PROVE PutsInv'
  BY <1>25 DEF vars
<1> QED
  BY <1>1, <1>2, <1>3, <1>4, <1>5, <1>6, <1>7, <1>8, <1>9, <1>10, <1>11, <1>12, <1>13,
      <1>14, <1>15, <1>16, <1>17, <1>18, <1>19, <1>20, <1>21, <1>22, <1>23, <1>24, <1>25
  DEF Next, GetStep, WriteStep

\* With nothing but puts, which stop at no moment after their datastore write,
\* the cache is never stale outside a write (put.go:47-88, get.go:172-205).
THEOREM PutsKeepCacheCoherent == PutsOnly => (Spec => []CacheCoherent)
<1> SUFFICES ASSUME PutsOnly PROVE Spec => []CacheCoherent
  OBVIOUS
<1>1. Init => PutsInv
  BY DEF Init, PutsInv, Unlocking, CacheIsCurrent, Current, Miss
<1>2. Base /\ PutsInv /\ [Next]_vars => PutsInv'
  BY PutsStep
<1>3. PutsInv => CacheCoherent
  BY DEF PutsInv, CacheCoherent, CacheIsCurrent, Unlocking, WriteInFlight, Writing, WritePCs
<1> QED
  BY <1>1, <1>2, <1>3, Shapes, PTL DEF Spec

\* The steps that give a get its result: an item of the cache, or the datastore.
LEMMA ResultComesFrom ==
  ASSUME [Next]_vars, NEW o \in Ops, got'[o] # got[o], TypeOK
  PROVE  /\ pc[o] \in GetPCs
         /\ \/ mc.flag = "cached" /\ got'[o] = mc.of
            \/ got'[o] = ds
<1>1. ASSUME NEW q \in Ops, CallGet(q) \/ GetStep(q) \/ WriteStep(q) \/ Crash(q)
             \/ \E k \in Kinds : CallWrite(q, k)
      PROVE  LoadHit(q) \/ CheckHit(q) \/ DsGet(q)
  BY <1>1
  DEF CallGet, GetStep, LoadOther, CacheFault, AddLock, AddFault, CheckOther, DsGetFault,
      Save, SaveFault, WriteStep, SetLock, SetLockFault, DsWrite, DsWriteFault, LateWrite,
      GiveUp, Unlock, UnlockFault, Crash, CallWrite
<1>2. PICK q \in Ops : LoadHit(q) \/ CheckHit(q) \/ DsGet(q)
  BY <1>1 DEF Next, Expire, Evict, vars
<1> QED
  BY <1>2 DEF LoadHit, CheckHit, Answer, DsGet, TypeOK, GetPCs

\* A step from a state whose cache is coherent gives no stale result.
LEMMA CoherentReadIsFresh ==
  TypeOK /\ HistoryInv /\ CacheCoherent /\ [Next]_vars
    => (\A o \in Ops : got'[o] # got[o] /\ ~WriteInFlight => got'[o] \in seen[o])
  BY ResultComesFrom DEF HistoryInv, CacheCoherent

\* With nothing but puts no get is stale that answers outside a write
\* (get.go:166-169).
THEOREM PutsKeepReadsFresh == PutsOnly => (Spec => NoStaleRead)
<1> SUFFICES ASSUME PutsOnly PROVE Spec => NoStaleRead
  OBVIOUS
<1>1. Base => TypeOK
  BY DEF Base
<1>2. Spec => []CacheCoherent
  BY PutsKeepCacheCoherent
<1>3. TypeOK /\ HistoryInv /\ CacheCoherent /\ [Next]_vars
        => [\A o \in Ops : got'[o] # got[o] /\ ~WriteInFlight => got'[o] \in seen[o]]_vars
  BY CoherentReadIsFresh
<1> QED
  BY <1>1, <1>2, <1>3, History, PTL DEF Spec, NoStaleRead

-----------------------------------------------------------------------------
(* One write at a time.                                                    *)

\* Every step keeps the lock of the one write there is, and the cache current.
LEMMA SerialStep ==
  ASSUME SerialWrites, DistinctLocks, Base, SerialInv, [Next]_vars
  PROVE  SerialInv'
<1> USE DEF Base
<1> USE NdsAssumption, SerialWrites, DistinctLocks
    DEF SerialWrites, DistinctLocks, TypeOK, Shape, LockMadeOnce, SerialInv,
        CacheIsCurrent, Current, Miss, LockBy, Cached, Writing, WriteInFlight, WritePCs,
        GetPCs
<1>1. ASSUME NEW o \in Ops, CallGet(o) PROVE SerialInv'
  BY <1>1 DEF CallGet, Goto
<1>2. ASSUME NEW o \in Ops, LoadHit(o) PROVE SerialInv'
  BY <1>2 DEF LoadHit, Answer, Goto
<1>3. ASSUME NEW o \in Ops, LoadOther(o) PROVE SerialInv'
  BY <1>3 DEF LoadOther, Goto
<1>4. ASSUME NEW o \in Ops, CacheFault(o) PROVE SerialInv'
  BY <1>4 DEF CacheFault, Goto
<1>5. ASSUME NEW o \in Ops, AddLock(o) PROVE SerialInv'
  BY <1>5 DEF AddLock, Goto
<1>6. ASSUME NEW o \in Ops, AddFault(o) PROVE SerialInv'
  BY <1>6 DEF AddFault, Goto
<1>7. ASSUME NEW o \in Ops, CheckHit(o) PROVE SerialInv'
  BY <1>7 DEF CheckHit, Answer, Goto
<1>8. ASSUME NEW o \in Ops, CheckOther(o) PROVE SerialInv'
  <2>1. mc.flag = "lock" => mc.of \in Ops /\ mc = LockBy(mc.of)
    BY ItemIsKnown DEF TypeOK
  <2> QED
    BY <1>8, <2>1
    DEF CheckOther, Mine, Goto
<1>9. ASSUME NEW o \in Ops, DsGet(o) PROVE SerialInv'
  BY <1>9 DEF DsGet, Goto
<1>10. ASSUME NEW o \in Ops, DsGetFault(o) PROVE SerialInv'
  BY <1>10 DEF DsGetFault, Goto
<1>11. ASSUME NEW o \in Ops, Save(o) PROVE SerialInv'
  BY <1>11 DEF Save, Goto
<1>12. ASSUME NEW o \in Ops, SaveFault(o) PROVE SerialInv'
  BY <1>12 DEF SaveFault, Goto
<1>13. ASSUME NEW o \in Ops, NEW k \in Kinds, CallWrite(o, k) PROVE SerialInv'
  BY <1>13 DEF CallWrite, Goto
<1>14. ASSUME NEW o \in Ops, SetLock(o) PROVE SerialInv'
  BY <1>14 DEF SetLock, Goto
<1>15. ASSUME NEW o \in Ops, SetLockFault(o) PROVE SerialInv'
  BY <1>15 DEF SetLockFault, Goto
<1>16. ASSUME NEW o \in Ops, DsWrite(o) PROVE SerialInv'
  BY <1>16 DEF DsWrite, Store, Written, Goto
<1>17. ASSUME NEW o \in Ops, DsWriteFault(o) PROVE SerialInv'
  BY <1>17 DEF DsWriteFault, Goto
<1>18. ASSUME NEW o \in Ops, LateWrite(o) PROVE SerialInv'
  BY <1>18 DEF LateWrite, Store, Written, Goto
<1>19. ASSUME NEW o \in Ops, GiveUp(o) PROVE SerialInv'
  BY <1>19 DEF GiveUp, Goto
<1>20. ASSUME NEW o \in Ops, Unlock(o) PROVE SerialInv'
  BY <1>20 DEF Unlock, Goto
<1>21. ASSUME NEW o \in Ops, UnlockFault(o) PROVE SerialInv'
  BY <1>21 DEF UnlockFault, Goto
<1>22. ASSUME NEW o \in Ops, Crash(o) PROVE SerialInv'
  BY <1>22 DEF Crash, Goto
<1>23. ASSUME Expire PROVE SerialInv'
  BY <1>23 DEF Expire
<1>24. ASSUME Evict PROVE SerialInv'
  BY <1>24 DEF Evict
<1>25. ASSUME UNCHANGED vars PROVE SerialInv'
  BY <1>25 DEF vars
<1> QED
  BY <1>1, <1>2, <1>3, <1>4, <1>5, <1>6, <1>7, <1>8, <1>9, <1>10, <1>11, <1>12, <1>13,
      <1>14, <1>15, <1>16, <1>17, <1>18, <1>19, <1>20, <1>21, <1>22, <1>23, <1>24, <1>25
  DEF Next, GetStep, WriteStep

\* What a call has seen is never taken back once it has begun.
LEMMA HistoryGrows ==
  ASSUME TypeOK, [Next]_vars, NEW o \in Ops, pc[o] # "new"
  PROVE  seen[o] \subseteq seen'[o]
<1>1. ASSUME NEW q \in Ops, CallGet(q)
      PROVE  seen[o] \subseteq seen'[o]
  BY <1>1 DEF CallGet, TypeOK
<1>2. ASSUME NEW q \in Ops, DsWrite(q) \/ LateWrite(q)
      PROVE  seen[o] \subseteq seen'[o]
  BY <1>2 DEF DsWrite, LateWrite, Store, TypeOK
<1>3. ASSUME NEW q \in Ops,
             \/ GetStep(q) \/ SetLock(q) \/ SetLockFault(q) \/ DsWriteFault(q) \/ GiveUp(q)
             \/ Unlock(q) \/ UnlockFault(q) \/ Crash(q) \/ \E k \in Kinds : CallWrite(q, k)
      PROVE  seen[o] \subseteq seen'[o]
  BY <1>3
  DEF GetStep, LoadHit, LoadOther, CacheFault, AddLock, AddFault, CheckHit, Answer,
      CheckOther, DsGet, DsGetFault, Save, SaveFault, SetLock, SetLockFault, DsWriteFault,
      GiveUp, Unlock, UnlockFault, Crash, CallWrite
<1>4. Expire \/ Evict \/ UNCHANGED vars => seen[o] \subseteq seen'[o]
  BY DEF Expire, Evict, vars
<1> QED
  BY <1>1, <1>2, <1>3, <1>4 DEF Next, WriteStep

\* The inductive invariant of one write at a time.
THEOREM Serially ==
  SerialWrites /\ DistinctLocks => (Spec => [](Base /\ HistoryInv /\ SerialInv))
<1> SUFFICES ASSUME SerialWrites, DistinctLocks
             PROVE  Spec => [](Base /\ HistoryInv /\ SerialInv)
  OBVIOUS
<1>1. Init => SerialInv
  BY DEF Init, SerialInv, CacheIsCurrent, Current, Miss, Writing, WritePCs
<1>2. Base /\ SerialInv /\ [Next]_vars => SerialInv'
  BY SerialStep
<1> QED
  BY <1>1, <1>2, History, PTL DEF Spec

\* With writes one at a time and no eviction the cache is never stale outside a
\* write, whatever fails and wherever an instance stops.
THEOREM SerialWritesKeepCacheCoherent ==
  SerialWrites /\ DistinctLocks => (Spec => []CacheCoherent)
<1>1. SerialInv => CacheCoherent
  BY DEF SerialInv, CacheCoherent, CacheIsCurrent
<1> QED
  BY <1>1, Serially, PTL

\* ... and no get is stale at all.
THEOREM SerialWritesKeepReadsFresh ==
  SerialWrites /\ DistinctLocks => (Spec => []FreshRead)
<1> SUFFICES ASSUME SerialWrites, DistinctLocks PROVE Spec => []FreshRead
  OBVIOUS
<1>1. Init => FreshRead
  BY DEF Init, FreshRead
<1>2. Base /\ HistoryInv /\ SerialInv /\ FreshRead /\ [Next]_vars => FreshRead'
  <2> SUFFICES ASSUME Base, HistoryInv, SerialInv, FreshRead, [Next]_vars,
                      NEW o \in Ops, got'[o] # Nil
               PROVE  got'[o] \in seen'[o]
    BY DEF FreshRead
  <2> USE DEF Base
  <2>1. pc[o] \in GetPCs => seen[o] \subseteq seen'[o]
    BY HistoryGrows DEF GetPCs
  <2>2. CASE got'[o] # got[o]
    <3>1. got'[o] \in seen[o]
      BY <2>2, ResultComesFrom DEF HistoryInv, SerialInv, CacheIsCurrent
    <3> QED
      BY <2>1, <2>2, <3>1, ResultComesFrom
  <2>3. CASE got'[o] = got[o]
    <3>1. pc[o] # "new"
      BY <2>3 DEF Shape
    <3> QED
      BY <2>3, <3>1, HistoryGrows DEF FreshRead
  <2> QED
    BY <2>2, <2>3
<1> QED
  BY <1>1, <1>2, Serially, PTL DEF Spec

-----------------------------------------------------------------------------
(* Locks.                                                                  *)

\* Nothing but a save puts a cached read in the place of a lock.
LEMMA OnlySaveCaches ==
  ASSUME [Next]_vars, mc.flag = "lock", mc'.flag = "cached"
  PROVE  \E o \in Ops : Save(o)
<1>1. ASSUME NEW o \in Ops, AddLock(o) \/ SetLock(o) \/ SetLockFault(o) \/ Unlock(o)
      PROVE  FALSE
  BY <1>1 DEF AddLock, SetLock, SetLockFault, Unlock, Miss, LockBy
<1>2. ASSUME NEW o \in Ops,
             \/ CallGet(o) \/ LoadHit(o) \/ LoadOther(o) \/ CacheFault(o) \/ AddFault(o)
             \/ CheckHit(o) \/ CheckOther(o) \/ DsGet(o) \/ DsGetFault(o) \/ SaveFault(o)
             \/ DsWrite(o) \/ DsWriteFault(o) \/ LateWrite(o) \/ GiveUp(o)
             \/ UnlockFault(o) \/ Crash(o) \/ \E k \in Kinds : CallWrite(o, k)
      PROVE  FALSE
  BY <1>2
  DEF CallGet, LoadHit, LoadOther, CacheFault, AddFault, CheckHit, Answer, CheckOther,
      DsGet, DsGetFault, SaveFault, DsWrite, DsWriteFault, LateWrite, GiveUp, UnlockFault,
      Crash, CallWrite
<1>3. ~Expire /\ ~Evict /\ ~UNCHANGED vars
  BY DEF Expire, Evict, Miss, vars
<1> QED
  BY <1>1, <1>2, <1>3 DEF Next, GetStep, WriteStep

\* When no two calls draw the same lock bytes, no read replaces a writer's lock
\* by what it read, whichever way the calls and the faults interleave
\* (get.go:296).
THEOREM LocksAreNotStolen == DistinctLocks => (Spec => NoStolenLock)
<1> SUFFICES ASSUME DistinctLocks PROVE Spec => NoStolenLock
  OBVIOUS
<1>1. ASSUME Base, [Next]_vars
      PROVE  [mc.flag = "lock" /\ mc'.flag = "cached" => kind[mc.of] = "get"]_vars
  <2> SUFFICES ASSUME mc.flag = "lock", mc'.flag = "cached"
               PROVE  kind[mc.of] = "get"
    OBVIOUS
  <2> USE DEF Base
  <2>1. mc.of \in Ops /\ mc = LockBy(mc.of)
    BY <1>1, ItemIsKnown DEF TypeOK
  <2>2. PICK o \in Ops : Save(o)
    BY <1>1, OnlySaveCaches
  <2>3. mc = LockBy(cas[o])
    BY <2>2 DEF Save
  <2>4. cas[o] \in Ops /\ mc.of = cas[o]
    BY <1>1, <2>2, <2>3, ItemsDiffer DEF Save, Shape, TypeOK, LockBy
  <2>5. cas[o] = o
    BY <1>1, <2>4, NdsAssumption DEF Shape, DistinctLocks
  <2> QED
    BY <1>1, <2>2, <2>4, <2>5 DEF Shape, Save, GetPCs
<1> QED
  BY <1>1, Shapes, PTL DEF Spec, NoStolenLock
=============================================================================
