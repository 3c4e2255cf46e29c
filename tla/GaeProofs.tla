------------------------------ MODULE GaeProofs ------------------------------
(***************************************************************************)
(* For any requests, clear-outs, ids and times: what the App Engine store  *)
(* keeps true, however they overlap, and that it implements                *)
(* SequentialStore until a put overlaps another write of its entity.       *)
(***************************************************************************)
EXTENDS GaeProps, TLAPS

-----------------------------------------------------------------------------
(* Types.                                                                  *)

LEMMA TypeInit == Init => TypeOK
  BY GaeAssumption DEF Init, TypeOK, Attempts

\* What a request does keeps the types.
LEMMA TypeRequest ==
  ASSUME TypeOK, Known, NEW p \in Callers, Request(p)
  PROVE  TypeOK'
<1> USE GaeAssumption DEF TypeOK, Entity, Attempts, Goto, End, stored, sweeperVars
<1>1. CASE Create(p)
  BY <1>1 DEF Create
<1>2. CASE CreateFails(p)
  BY <1>2 DEF CreateFails
<1>3. ASSUME NEW i \in Ids, Read(p, i) PROVE TypeOK'
  BY <1>3 DEF Read
<1>4. CASE ReadFails(p)
  BY <1>4 DEF ReadFails, vars, callerVars
<1>5. CASE Look(p)
  BY <1>5 DEF Look
<1>6. CASE CallUpdate(p)
  <2>1. held[p] \in Entity /\ clock + DeleteAfter \in Nat
    BY <1>6 DEF CallUpdate
  <2>2. held'[p] = [v |-> held[p].v, marks |-> held[p].marks \cup {p}, due |-> clock + DeleteAfter]
    BY <1>6, <2>1 DEF CallUpdate
  <2>3. held' = [held EXCEPT ![p] = held'[p]]
    BY <1>6 DEF CallUpdate
  <2>4. held'[p] \in Entity
    BY <2>1, <2>2
  <2> QED
    BY <1>6, <2>3, <2>4 DEF CallUpdate
<1>7. CASE Check(p)
  BY <1>7 DEF Check, Known
<1>8. CASE CheckFails(p)
  BY <1>8 DEF CheckFails
<1>9. CASE Put(p)
  <2>1. id[p] \in Ids /\ held[p] \in Entity
    BY <1>9 DEF Put, Known
  <2> QED
    BY <1>9, <2>1 DEF Put
<1>10. CASE PutFails(p)
  BY <1>10 DEF PutFails
<1>11. CASE Commit(p)
  BY <1>11 DEF Commit
<1>12. CASE Conflict(p)
  BY <1>12 DEF Conflict
<1> QED
  BY <1>1, <1>2, <1>3, <1>4, <1>5, <1>6, <1>7, <1>8, <1>9, <1>10, <1>11, <1>12
  DEF Request

\* So does what a clear-out does.
LEMMA TypeClearOut ==
  ASSUME TypeOK, NEW s \in Sweepers, ClearOut(s)
  PROVE  TypeOK'
<1> USE GaeAssumption DEF TypeOK, GotoSweep, EndSweep, callerVars, stored
<1>1. CASE Enter(s)
  BY <1>1 DEF Enter
<1>2. CASE Sweep(s)
  BY <1>2 DEF Sweep
<1>3. CASE Query(s)
  BY <1>3 DEF Query
<1>4. CASE QueryFails(s)
  BY <1>4 DEF QueryFails
<1>5. CASE Delete(s)
  BY <1>5 DEF Delete, DeleteThese
<1>6. CASE DeleteFails(s)
  BY <1>6 DEF DeleteFails, DeleteThese
<1> QED
  BY <1>1, <1>2, <1>3, <1>4, <1>5, <1>6 DEF ClearOut

LEMMA TypeStep == TypeOK /\ Known /\ [Next]_vars => TypeOK'
<1> SUFFICES ASSUME TypeOK, Known, [Next]_vars PROVE TypeOK'
  OBVIOUS
<1>1. CASE Tick
  BY <1>1, GaeAssumption DEF Tick, TypeOK, callerVars, sweeperVars, stored
<1>2. CASE UNCHANGED vars
  BY <1>2 DEF vars, TypeOK, callerVars, sweeperVars, stored
<1> QED
  BY <1>1, <1>2, TypeRequest, TypeClearOut DEF Next

-----------------------------------------------------------------------------
(* Copies, keys and clear-outs.                                            *)

LEMMA KnownInit == Init => Known /\ SweepsAreRemembered
  BY GaeAssumption DEF Init, Known, SweepsAreRemembered, Sweeping

LEMMA KnownRequest ==
  ASSUME TypeOK, Known, NEW p \in Callers, Request(p)
  PROVE  Known'
<1> USE GaeAssumption DEF TypeOK, Known, Goto, End, stored, sweeperVars
<1>1. CASE Create(p)
  BY <1>1 DEF Create
<1>2. CASE CreateFails(p)
  BY <1>2 DEF CreateFails
<1>3. ASSUME NEW i \in Ids, Read(p, i) PROVE Known'
  BY <1>3 DEF Read
<1>4. CASE ReadFails(p)
  BY <1>4 DEF ReadFails, vars, callerVars
<1>5. CASE Look(p)
  BY <1>5 DEF Look
<1>6. CASE CallUpdate(p)
  BY <1>6 DEF CallUpdate
<1>7. CASE Check(p)
  BY <1>7 DEF Check
<1>8. CASE CheckFails(p)
  BY <1>8 DEF CheckFails
<1>9. CASE Put(p)
  BY <1>9 DEF Put
<1>10. CASE PutFails(p)
  BY <1>10 DEF PutFails
<1>11. CASE Commit(p)
  BY <1>11 DEF Commit
<1>12. CASE Conflict(p)
  BY <1>12 DEF Conflict
<1> QED
  BY <1>1, <1>2, <1>3, <1>4, <1>5, <1>6, <1>7, <1>8, <1>9, <1>10, <1>11, <1>12
  DEF Request

LEMMA KnownClearOut ==
  ASSUME TypeOK, Known, NEW s \in Sweepers, ClearOut(s)
  PROVE  Known'
<1> USE DEF TypeOK, Known, GotoSweep, EndSweep, callerVars, stored
<1>1. CASE Enter(s)
  BY <1>1 DEF Enter
<1>2. CASE Sweep(s)
  BY <1>2 DEF Sweep
<1>3. CASE Query(s)
  BY <1>3 DEF Query
<1>4. CASE QueryFails(s)
  BY <1>4 DEF QueryFails
<1>5. CASE Delete(s)
  BY <1>5 DEF Delete, DeleteThese
<1>6. CASE DeleteFails(s)
  BY <1>6 DEF DeleteFails, DeleteThese
<1> QED
  BY <1>1, <1>2, <1>3, <1>4, <1>5, <1>6 DEF ClearOut

LEMMA KnownStep == TypeOK /\ Known /\ [Next]_vars => Known'
<1> SUFFICES ASSUME TypeOK, Known, [Next]_vars PROVE Known'
  OBVIOUS
<1>1. CASE Tick
  BY <1>1 DEF Tick, Known, callerVars, sweeperVars, stored
<1>2. CASE UNCHANGED vars
  BY <1>2 DEF vars, Known, callerVars, sweeperVars, stored
<1> QED
  BY <1>1, <1>2, KnownRequest, KnownClearOut DEF Next

\* Requests have no part in when clear-outs begin.
LEMMA RequestsDoNotSweep ==
  ASSUME NEW p \in Callers, Request(p)
  PROVE  UNCHANGED <<clock, last, at, began, keys>>
  BY DEF Request, Create, CreateFails, Read, ReadFails, Look, CallUpdate, Check, CheckFails, Put,
         PutFails, Commit, Conflict, vars, sweeperVars

\* Who has mtx is alone there, and no time is set in between.
LEMMA RememberedStep ==
  TypeOK /\ SweepsAreRemembered /\ [Next]_vars => SweepsAreRemembered'
<1> SUFFICES ASSUME TypeOK, SweepsAreRemembered, [Next]_vars PROVE SweepsAreRemembered'
  OBVIOUS
<1> USE GaeAssumption DEF TypeOK, SweepsAreRemembered, Sweeping
<1>1. ASSUME NEW p \in Callers, Request(p) PROVE SweepsAreRemembered'
  BY <1>1, RequestsDoNotSweep
<1>2. ASSUME NEW s \in Sweepers, Enter(s) PROVE SweepsAreRemembered'
  BY <1>2 DEF Enter, GotoSweep
<1>3. ASSUME NEW s \in Sweepers, Sweep(s) PROVE SweepsAreRemembered'
  BY <1>3 DEF Sweep, GotoSweep
<1>4. ASSUME NEW s \in Sweepers, Query(s) \/ QueryFails(s) \/ Delete(s) \/ DeleteFails(s)
      PROVE  SweepsAreRemembered'
  BY <1>4 DEF Query, QueryFails, Delete, DeleteFails, GotoSweep, EndSweep
<1>5. CASE Tick
  BY <1>5 DEF Tick, sweeperVars
<1>6. CASE UNCHANGED vars
  BY <1>6 DEF vars, sweeperVars
<1> QED
  BY <1>1, <1>2, <1>3, <1>4, <1>5, <1>6 DEF Next, ClearOut

\* A clear-out begins long enough after each that is under way.
LEMMA ApartStep ==
  TypeOK /\ SweepsAreRemembered /\ ClearOutsAreApart /\ [Next]_vars => ClearOutsAreApart'
<1> SUFFICES ASSUME TypeOK, SweepsAreRemembered, ClearOutsAreApart, [Next]_vars
             PROVE  ClearOutsAreApart'
  OBVIOUS
<1> USE GaeAssumption DEF TypeOK, ClearOutsAreApart, Sweeping
<1>1. ASSUME NEW p \in Callers, Request(p) PROVE ClearOutsAreApart'
  BY <1>1, RequestsDoNotSweep
<1>2. ASSUME NEW s \in Sweepers, Sweep(s) PROVE ClearOutsAreApart'
  <2>1. \A t \in Sweepers : Sweeping(t) => clock - began[t] >= ClearOutAfter
    BY <1>2 DEF Sweep, SweepsAreRemembered
  <2> QED
    BY <1>2, <2>1 DEF Sweep, GotoSweep
<1>3. ASSUME NEW s \in Sweepers,
             Enter(s) \/ Query(s) \/ QueryFails(s) \/ Delete(s) \/ DeleteFails(s)
      PROVE  ClearOutsAreApart'
  BY <1>3 DEF Enter, Query, QueryFails, Delete, DeleteFails, GotoSweep, EndSweep
<1>4. CASE Tick
  BY <1>4 DEF Tick, sweeperVars
<1>5. CASE UNCHANGED vars
  BY <1>5 DEF vars, sweeperVars
<1> QED
  BY <1>1, <1>2, <1>3, <1>4, <1>5 DEF Next, ClearOut

\* Every variable of the App Engine store keeps its type, whatever fails and overlaps
\* (joak.go:41-112, gus.go:12-59).
THEOREM GaeTypeCorrect == Spec => []TypeOK
<1>1. Init => TypeOK /\ Known
  BY TypeInit, KnownInit
<1>2. TypeOK /\ Known /\ [Next]_vars => (TypeOK /\ Known)'
  BY TypeStep, KnownStep
<1> QED
  BY <1>1, <1>2, PTL DEF Spec

\* However many requests start clear-outs, those of an instance begin ClearOutAfter
\* apart (joak.go:44-47).
THEOREM ClearOutsKeepApart == Spec => []ClearOutsAreApart
<1>1. Init => TypeOK /\ Known /\ SweepsAreRemembered /\ ClearOutsAreApart
  BY TypeInit, KnownInit DEF Init, ClearOutsAreApart, Sweeping
<1>2. TypeOK /\ Known /\ SweepsAreRemembered /\ ClearOutsAreApart /\ [Next]_vars
        => (TypeOK /\ Known /\ SweepsAreRemembered /\ ClearOutsAreApart)'
  BY TypeStep, KnownStep, RememberedStep, ApartStep
<1> QED
  BY <1>1, <1>2, PTL DEF Spec

-----------------------------------------------------------------------------
(* Versions and times.                                                     *)

\* The rest of the inductive invariant.
StoreInv == TypeOK /\ Known /\ CopiesAreOld /\ DueInTime

LEMMA StoreInit == Init => StoreInv
  BY TypeInit, KnownInit, GaeAssumption DEF Init, StoreInv, CopiesAreOld, DueInTime, InUpdate

\* A put brings in the next version of what its copy was compared with, and what that had;
\* if something else was there, the entity counts no longer.
LEMMA CopiesRequest ==
  ASSUME TypeOK, Known, CopiesAreOld, NEW p \in Callers, Request(p)
  PROVE  CopiesAreOld'
<1> USE GaeAssumption DEF TypeOK, Known, CopiesAreOld, Goto, End, stored, sweeperVars, Entity
<1>1. CASE Create(p)
  BY <1>1 DEF Create
<1>2. CASE CreateFails(p)
  BY <1>2 DEF CreateFails
<1>3. ASSUME NEW i \in Ids, Read(p, i) PROVE CopiesAreOld'
  BY <1>3 DEF Read
<1>4. CASE ReadFails(p)
  BY <1>4 DEF ReadFails, vars, callerVars
<1>5. CASE Look(p)
  BY <1>5 DEF Look
<1>6. CASE CallUpdate(p)
  BY <1>6 DEF CallUpdate
<1>7. CASE Check(p)
  BY <1>7 DEF Check, Matches
<1>8. CASE CheckFails(p)
  BY <1>8 DEF CheckFails
<1>9. CASE Put(p)
  <2>1. /\ overlapped \subseteq overlapped'
        /\ id[p] \notin overlapped' => db[id[p]] = found[p]
        /\ UNCHANGED <<id, held>>
    BY <1>9 DEF Put
  <2>2. /\ id[p] \in Ids /\ held[p] # Absent
        /\ db' = [db EXCEPT ![id[p]] = held[p]]
        /\ pc' = [pc EXCEPT ![p] = "commit"]
        /\ found' = [found EXCEPT ![p] = Absent]
    BY <1>9 DEF Put
  <2>3. SUFFICES ASSUME NEW q \in Callers, held[q] # Absent, id[q] \notin overlapped'
                 PROVE  /\ pc'[q] # "put" /\ db'[id[q]] # Absent =>
                             /\ held[q].v <= db'[id[q]].v
                             /\ held[q].v = db'[id[q]].v => db'[id[q]].marks \subseteq held[q].marks
                        /\ pc'[q] = "put" =>
                             /\ found'[q] # Absent
                             /\ held[q].v = found'[q].v + 1
                             /\ found'[q].marks \subseteq held[q].marks
    BY <2>1
  <2>4. CASE q = p
    BY <2>2, <2>4
  <2>5. CASE q # p /\ id[q] # id[p]
    BY <2>1, <2>2, <2>3, <2>5
  <2>6. CASE q # p /\ id[q] = id[p] /\ pc[q] = "put"
    BY <2>1, <2>2, <2>3, <2>6
  <2>7. CASE q # p /\ id[q] = id[p] /\ pc[q] # "put"
    <3>1. /\ found[p] # Absent /\ held[p].v = found[p].v + 1 /\ db[id[p]] = found[p]
          /\ pc[p] = "put"
      BY <1>9, <2>1, <2>2, <2>3, <2>7 DEF Put
    <3>2. held[q].v <= db[id[p]].v
      BY <2>1, <2>3, <2>7, <3>1
    <3>3. held[q].v \in Nat /\ held[p].v \in Nat /\ db[id[p]].v \in Nat
      BY <2>2, <2>3, <3>1
    <3>4. held[q].v < held[p].v
      BY <3>1, <3>2, <3>3
    <3> QED
      BY <2>2, <2>7, <3>3, <3>4
  <2> QED
    BY <2>4, <2>5, <2>6, <2>7
<1>10. CASE PutFails(p)
  BY <1>10 DEF PutFails
<1>11. CASE Commit(p)
  BY <1>11 DEF Commit
<1>12. CASE Conflict(p)
  BY <1>12 DEF Conflict
<1> QED
  BY <1>1, <1>2, <1>3, <1>4, <1>5, <1>6, <1>7, <1>8, <1>9, <1>10, <1>11, <1>12
  DEF Request

LEMMA CopiesStep == TypeOK /\ Known /\ CopiesAreOld /\ [Next]_vars => CopiesAreOld'
<1> SUFFICES ASSUME TypeOK, Known, CopiesAreOld, [Next]_vars PROVE CopiesAreOld'
  OBVIOUS
<1> USE DEF CopiesAreOld
<1>1. ASSUME NEW s \in Sweepers, Delete(s) \/ DeleteFails(s) PROVE CopiesAreOld'
  <2>1. PICK B \in SUBSET Ids : DeleteThese(B)
    BY <1>1 DEF Delete, DeleteFails, TypeOK
  <2> QED
    BY <1>1, <2>1 DEF Delete, DeleteFails, DeleteThese, callerVars, TypeOK, Known
<1>2. ASSUME NEW s \in Sweepers, Enter(s) \/ Sweep(s) \/ Query(s) \/ QueryFails(s)
      PROVE  CopiesAreOld'
  BY <1>2 DEF Enter, Sweep, Query, QueryFails, callerVars, stored
<1>3. CASE Tick
  BY <1>3 DEF Tick, callerVars, stored
<1>4. CASE UNCHANGED vars
  BY <1>4 DEF vars, callerVars, stored
<1> QED
  BY <1>1, <1>2, <1>3, <1>4, CopiesRequest DEF Next, ClearOut

\* What is put while a clear-out has it on its list is renewed.
LEMMA DueRequest ==
  ASSUME TypeOK, Known, DueInTime, NEW p \in Callers, Request(p)
  PROVE  DueInTime'
<1> USE GaeAssumption DEF TypeOK, Known, DueInTime, InUpdate, Goto, End, stored, sweeperVars, Entity
<1>1. CASE Create(p)
  BY <1>1 DEF Create
<1>2. CASE CreateFails(p)
  BY <1>2 DEF CreateFails
<1>3. ASSUME NEW i \in Ids, Read(p, i) PROVE DueInTime'
  BY <1>3 DEF Read
<1>4. CASE ReadFails(p)
  BY <1>4 DEF ReadFails, vars, callerVars
<1>5. CASE Look(p)
  BY <1>5 DEF Look
<1>6. CASE CallUpdate(p)
  BY <1>6 DEF CallUpdate
<1>7. CASE Check(p)
  BY <1>7 DEF Check
<1>8. CASE CheckFails(p)
  BY <1>8 DEF CheckFails
<1>9. CASE Put(p)
  <2>1. id[p] \in Ids /\ held[p] # Absent /\ held[p].due = called[p] + DeleteAfter
    BY <1>9 DEF Put
  <2>2. \A s \in Sweepers : \A i \in keys'[s] \ renewed'[s] :
          i \in keys[s] \ renewed[s] /\ i # id[p]
    BY <1>9 DEF Put
  <2> QED
    BY <1>9, <2>1, <2>2 DEF Put
<1>10. CASE PutFails(p)
  BY <1>10 DEF PutFails
<1>11. CASE Commit(p)
  BY <1>11 DEF Commit
<1>12. CASE Conflict(p)
  BY <1>12 DEF Conflict
<1> QED
  BY <1>1, <1>2, <1>3, <1>4, <1>5, <1>6, <1>7, <1>8, <1>9, <1>10, <1>11, <1>12
  DEF Request

LEMMA DueStep == TypeOK /\ Known /\ DueInTime /\ [Next]_vars => DueInTime'
<1> SUFFICES ASSUME TypeOK, Known, DueInTime, [Next]_vars PROVE DueInTime'
  OBVIOUS
<1> USE GaeAssumption DEF DueInTime, TypeOK, Entity
<1>1. ASSUME NEW s \in Sweepers, ClearOut(s) PROVE DueInTime'
  <2> USE DEF GotoSweep, EndSweep, callerVars, stored, InUpdate
  <2>1. CASE Enter(s)
    BY <2>1 DEF Enter
  <2>2. CASE Sweep(s)
    BY <2>2 DEF Sweep
  <2>3. CASE Query(s)
    BY <2>3 DEF Query
  <2>4. CASE QueryFails(s)
    BY <2>4 DEF QueryFails
  <2>5. CASE Delete(s)
    BY <2>5 DEF Delete, DeleteThese
  <2>6. CASE DeleteFails(s)
    BY <2>6 DEF DeleteFails, DeleteThese
  <2> QED
    BY <1>1, <2>1, <2>2, <2>3, <2>4, <2>5, <2>6 DEF ClearOut
<1>2. CASE Tick
  BY <1>2 DEF Tick, callerVars, sweeperVars, stored, InUpdate
<1>3. CASE UNCHANGED vars
  BY <1>3 DEF vars, callerVars, sweeperVars, stored, InUpdate
<1> QED
  BY <1>1, <1>2, <1>3, DueRequest DEF Next

LEMMA StoreAlways == Spec => []StoreInv
<1>1. StoreInv /\ [Next]_vars => StoreInv'
  BY TypeStep, KnownStep, CopiesStep, DueStep DEF StoreInv
<1> QED
  BY <1>1, StoreInit, PTL DEF Spec

\* Of a request's steps only these two change what is stored.
LEMMA StoreRequest ==
  ASSUME NEW p \in Callers, Request(p)
  PROVE  Create(p) \/ Put(p) \/ UNCHANGED stored
  BY DEF Request, CreateFails, Read, ReadFails, Look, CallUpdate, Check, CheckFails, PutFails,
         Commit, Conflict, vars

\* Of a clear-out's steps these two.
LEMMA StoreClearOut ==
  ASSUME NEW s \in Sweepers, ClearOut(s)
  PROVE  Delete(s) \/ DeleteFails(s) \/ UNCHANGED stored
  BY DEF ClearOut, Enter, Sweep, Query, QueryFails

LEMMA StoreOther == Tick \/ UNCHANGED vars => UNCHANGED stored
  BY DEF Tick, vars

\* Only deletes make an entity go, and those on the list were due or are renewed.
LEMMA LivesStep ==
  ASSUME StoreInv, [Next]_vars, NEW i \in Ids, db[i] # Absent, db'[i] = Absent
  PROVE  \/ clock >= touched[i] + DeleteAfter
         \/ \E s \in Sweepers : at[s] = "delete" /\ at'[s] = "idle" /\ i \in renewed[s]
<1> USE GaeAssumption DEF StoreInv, TypeOK
<1>1. ASSUME NEW p \in Callers, Create(p) PROVE FALSE
  BY <1>1 DEF Create, Entity
<1>2. ASSUME NEW p \in Callers, Put(p) PROVE FALSE
  BY <1>2 DEF Put, Known
<1>3. ~ UNCHANGED stored
  BY DEF stored
<1>4. PICK s \in Sweepers : Delete(s) \/ DeleteFails(s)
  BY <1>1, <1>2, <1>3, StoreRequest, StoreClearOut, StoreOther DEF Next
<1>5. i \in keys[s] /\ at[s] = "delete" /\ at'[s] = "idle"
  BY <1>4 DEF Delete, DeleteFails, DeleteThese, EndSweep, GotoSweep
<1>6. CASE i \in renewed[s]
  BY <1>5, <1>6
<1>7. CASE i \notin renewed[s]
  <2>1. db[i].due <= clock /\ db[i].due = touched[i] + DeleteAfter
    BY <1>5, <1>7 DEF DueInTime
  <2>2. touched[i] \in Nat /\ clock \in Nat
    OBVIOUS
  <2> QED
    BY <2>1, <2>2
<1> QED
  BY <1>6, <1>7

\* No entity is cleared out before DeleteAfter has passed since its stored state was asked
\* for, whatever RPCs fail, however requests and clear-outs overlap and however often a
\* commit is tried, unless its update was put between the query that found it due and the
\* delete (joak.go:48-60, 107-110).
THEOREM EntitiesLiveTheirTime == Spec => EntityLivesItsTime
<1>1. StoreInv /\ [Next]_vars =>
        [\A i \in Ids : db[i] # Absent /\ db'[i] = Absent =>
           \/ clock >= touched[i] + DeleteAfter
           \/ \E s \in Sweepers : at[s] = "delete" /\ at'[s] = "idle" /\ i \in renewed[s]]_vars
  BY LivesStep
<1> QED
  BY <1>1, StoreAlways, PTL DEF Spec, EntityLivesItsTime

-----------------------------------------------------------------------------
(* The refinement.                                                         *)

\* A put of a copy that was compared with what is there moves that to its next version.
LEMMA AbstractPut ==
  ASSUME StoreInv, TypeOK', NEW p \in Callers, Put(p), id[p] \notin overlapped'
  PROVE  Abstract!Update({id[p]})
<1> USE DEF StoreInv
<1>1. /\ id[p] \in Ids /\ id[p] \notin overlapped /\ overlapped' = overlapped
      /\ db[id[p]] = found[p] /\ held[p] # Absent
  BY DEF Put, Known, TypeOK
<1>2. /\ db[id[p]] # Absent
      /\ held[p].v = db[id[p]].v + 1 /\ db[id[p]].marks \subseteq held[p].marks
  BY <1>1 DEF Put, CopiesAreOld
<1>3. Sequential' \in [Ids -> Abstract!Entity \cup {Absent}]
  BY DEF TypeOK, Plain, Sequential, Abstract!Entity, Entity
<1>4. \A j \in Ids \ {id[p]} : Sequential'[j] = Sequential[j]
  BY <1>1 DEF Put, TypeOK, Plain, Sequential
<1>5. Sequential[id[p]] = [v |-> db[id[p]].v, marks |-> db[id[p]].marks]
  BY <1>1, <1>2 DEF Plain, Sequential
<1>6. Sequential'[id[p]] = [v |-> held[p].v, marks |-> held[p].marks]
  BY <1>1 DEF Put, TypeOK, Plain, Sequential
<1>7. Sequential[id[p]] # Absent /\ Sequential'[id[p]] # Absent
  BY <1>1, <1>2, <1>5, <1>6, GaeAssumption DEF TypeOK, Entity
<1> QED
  BY <1>1, <1>2, <1>3, <1>4, <1>5, <1>6, <1>7 DEF Put, Abstract!Update

\* A put that overlaps another write looks like a delete.
LEMMA AbstractOverlap ==
  ASSUME StoreInv, NEW p \in Callers, Put(p), id[p] \in overlapped'
  PROVE  Abstract!Delete({id[p]})
<1>1. overlapped' = overlapped \cup {id[p]}
  BY DEF Put
<1>2. \A j \in Ids \ {id[p]} : db'[j] = db[j]
  BY DEF Put, StoreInv, TypeOK
<1>3. Sequential' = [j \in Ids |-> IF j \in {id[p]} THEN Absent ELSE Sequential[j]]
  BY <1>1, <1>2 DEF Sequential, Plain
<1> QED
  BY <1>3 DEF Put, Abstract!Delete

\* A step of the datastore is one of SequentialStore, for a set of one entity, or for
\* those that a clear-out deletes.
LEMMA AbstractStep ==
  StoreInv /\ TypeOK' /\ [Next]_vars => [Abstract!Next]_<<Sequential, issued>>
<1> SUFFICES ASSUME StoreInv, TypeOK', [Next]_vars
             PROVE  Abstract!Next \/ UNCHANGED <<Sequential, issued>>
  OBVIOUS
<1> USE DEF StoreInv
<1>1. ASSUME NEW p \in Callers, Create(p) PROVE Abstract!Next
  <2>1. PICK i \in Ids \ issued :
          /\ issued' = issued \cup {i}
          /\ db' = [db EXCEPT ![i] = [v |-> 0, marks |-> {}, due |-> clock + DeleteAfter]]
    BY <1>1 DEF Create
  <2>2. db'[i] # Absent
    BY <2>1, GaeAssumption DEF TypeOK, Entity
  <2>3. i \notin overlapped /\ overlapped' = overlapped
    BY <1>1, <2>1 DEF Create, Known
  <2>4. Sequential' = [j \in Ids |-> IF j \in {i} THEN [v |-> 0, marks |-> {}] ELSE Sequential[j]]
    BY <2>1, <2>2, <2>3 DEF TypeOK, Plain, Sequential
  <2>5. Abstract!Create({i})
    BY <2>1, <2>4 DEF Abstract!Create
  <2> QED
    BY <2>1, <2>5 DEF Abstract!Next
<1>2. ASSUME NEW p \in Callers, Put(p) PROVE Abstract!Next
  BY <1>2, AbstractPut, AbstractOverlap DEF Put, Known, Abstract!Next
<1>3. ASSUME NEW s \in Sweepers, Delete(s) \/ DeleteFails(s) PROVE Abstract!Next
  <2>1. PICK B \in SUBSET Ids : DeleteThese(B)
    BY <1>3 DEF Delete, DeleteFails, TypeOK
  <2>2. UNCHANGED <<issued, overlapped>>
    BY <1>3 DEF Delete, DeleteFails
  <2>3. Abstract!Delete(B)
    BY <2>1, <2>2 DEF DeleteThese, Plain, Sequential, Abstract!Delete
  <2> QED
    BY <2>3 DEF Abstract!Next
<1>4. CASE UNCHANGED stored
  BY <1>4 DEF stored, Plain, Sequential
<1> QED
  BY <1>1, <1>2, <1>3, <1>4, StoreRequest, StoreClearOut, StoreOther DEF Next

\* gus over the datastore keeps every entity as package sus promises until a put of the
\* entity overlaps another write of it, for any number of entities and requests, whatever
\* RPCs fail, however they overlap and however often a commit is tried
\* (gus.go:12-59, datastore/transaction.go:55-66).
THEOREM GaeImplementsSequentialStore == Spec => ImplementsSequentialStore
<1>1. Init => Abstract!Init
  BY DEF Init, Abstract!Init, Plain, Sequential
<1>2. Spec => [](StoreInv /\ TypeOK)
  BY StoreAlways, PTL DEF StoreInv
<1> QED
  BY <1>1, <1>2, AbstractStep, PTL DEF Spec, ImplementsSequentialStore, Abstract!Spec
=============================================================================
