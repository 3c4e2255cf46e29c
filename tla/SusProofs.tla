------------------------------ MODULE SusProofs ------------------------------
(***************************************************************************)
(* What SusStore does for every set of ids, of callers and of faults.      *)
(***************************************************************************)
EXTENDS SusProps, TLAPS

USE DEF PCs, Ops, Errs

-----------------------------------------------------------------------------
(* Type correctness.                                                       *)

\* What CreateMulti makes is an entity.
LEMMA FreshType == [v |-> 0, marks |-> {}] \in Entity /\ [v |-> 0, marks |-> {}] # Absent
BY SusAssumption DEF Entity

\* CallUpdate: changing the held entities keeps them entities.
LEMMA MarkedType ==
  ASSUME TypeOK, NEW p \in Callers, NEW B \in SUBSET Ids,
         \A id \in B : held[p][id] # Absent
  PROVE  /\ Marked(p, B) \in EntityMap
         /\ \A id \in B : Marked(p, B)[id] # Absent
<1>1. ASSUME NEW id \in B PROVE Marked(p, B)[id] \in Entity
  <2>1. held[p][id] \in Entity
    BY DEF EntityMap, TypeOK
  <2>2. [held[p][id] EXCEPT !.marks = @ \cup {p}] \in Entity
    BY <2>1 DEF Entity
  <2>3. Marked(p, B)[id] = [held[p][id] EXCEPT !.marks = @ \cup {p}]
    BY DEF Marked
  <2> QED BY <2>2, <2>3
<1>2. Marked(p, B) \in EntityMap
  BY <1>1 DEF Marked, EntityMap, TypeOK
<1> QED BY <1>1, <1>2, SusAssumption

\* Bump keeps a map of entities one as long as no version goes below 0.
LEMMA BumpType ==
  ASSUME NEW h \in EntityMap, NEW B \in SUBSET Ids, NEW d \in Int,
         \A id \in B : h[id] # Absent /\ h[id].v + d \in Nat
  PROVE  /\ Bump(h, B, d) \in EntityMap
         /\ \A id \in B : /\ Bump(h, B, d)[id] # Absent
                          /\ Bump(h, B, d)[id].v = h[id].v + d
                          /\ Bump(h, B, d)[id].marks = h[id].marks
         /\ \A id \in Ids \ B : Bump(h, B, d)[id] = h[id]
<1>1. ASSUME NEW id \in B
      PROVE  /\ Bump(h, B, d)[id] \in Entity
             /\ Bump(h, B, d)[id].v = h[id].v + d
             /\ Bump(h, B, d)[id].marks = h[id].marks
  BY DEF Bump, EntityMap, Entity
<1>2. Bump(h, B, d) \in EntityMap /\ \A id \in Ids \ B : Bump(h, B, d)[id] = h[id]
  BY <1>1 DEF Bump, EntityMap
<1> QED BY <1>1, <1>2, SusAssumption

\* A round of a loop moves only the cursor of its caller.
LEMMA RoundType ==
  ASSUME TypeOK, NEW p \in Callers, NEW id \in Ids, NEW next \in PCs, Round(p, id, next)
  PROVE  pc' \in [Callers -> PCs] /\ todo' \in [Callers -> SUBSET Ids]
BY DEF Round, TypeOK

\* CheckMatch: one held entity gets its next version.
LEMMA MatchBumps ==
  ASSUME TypeOK, BatchHeld, LoopsMatch,
         NEW p \in Callers, NEW i \in Ids, CheckMatch(p, i)
  PROVE  /\ held' \in [Callers -> EntityMap]
         /\ \A q \in Callers \ {p} : held'[q] = held[q]
         /\ held'[p][i] # Absent
         /\ held'[p][i].v = held[p][i].v + 1
         /\ held'[p][i].marks = held[p][i].marks
         /\ \A id \in Ids \ {i} : held'[p][id] = held[p][id]
<1>1. held[p] \in EntityMap /\ held[p][i] # Absent /\ held[p][i].v + 1 \in Nat
  BY DEF TypeOK, CheckMatch, BatchHeld, LoopsMatch, EntityMap, Entity
<1>2. held' = [held EXCEPT ![p] = Bump(held[p], {i}, 1)]
  BY DEF CheckMatch
<1>3. /\ Bump(held[p], {i}, 1) \in EntityMap
      /\ Bump(held[p], {i}, 1)[i] # Absent
      /\ Bump(held[p], {i}, 1)[i].v = held[p][i].v + 1
      /\ Bump(held[p], {i}, 1)[i].marks = held[p][i].marks
      /\ \A id \in Ids \ {i} : Bump(held[p], {i}, 1)[id] = held[p][id]
  <2>1. {i} \in SUBSET Ids /\ 1 \in Int /\ \A id \in {i} : held[p][id] # Absent /\ held[p][id].v + 1 \in Nat
    BY <1>1
  <2> QED BY <1>1, <2>1, BumpType
<1> QED BY <1>2, <1>3 DEF TypeOK

\* CheckMismatch: what the loop has incremented goes back to the stored version.
LEMMA MismatchRestores ==
  ASSUME TypeOK, BatchHeld, CheckedIsBumped, ReadIsCurrent, LoopsMatch,
         NEW p \in Callers, NEW i \in Ids, CheckMismatch(p, i)
  PROVE  /\ held' \in [Callers -> EntityMap]
         /\ \A q \in Callers \ {p} : held'[q] = held[q]
         /\ \A id \in batch[p] \ todo[p] : /\ held'[p][id] # Absent
                                           /\ held'[p][id].v = held[p][id].v - 1
                                           /\ held'[p][id].v = data[id].v
                                           /\ held'[p][id].marks = held[p][id].marks
         /\ \A id \in Ids \ (batch[p] \ todo[p]) : held'[p][id] = held[p][id]
<1> DEFINE B == batch[p] \ todo[p]
<1>1. ASSUME NEW id \in B
      PROVE  held[p][id] # Absent /\ held[p][id].v + -1 = data[id].v /\ data[id].v \in Nat
  <2>1. id \in Ids /\ pc[p] = "check"
    BY DEF CheckMismatch, TypeOK
  <2>2. /\ held[p][id] # Absent
        /\ held[p][id].v = old[p][id].v + 1
        /\ old[p][id] = data[id]
        /\ data[id] # Absent
    BY <2>1 DEF BatchHeld, CheckedIsBumped, ReadIsCurrent, LoopsMatch
  <2>3. data[id].v \in Nat
    BY <2>1, <2>2 DEF TypeOK, EntityMap, Entity
  <2> QED BY <2>2, <2>3
<1>2. B \in SUBSET Ids /\ held[p] \in EntityMap /\ -1 \in Int
  BY DEF TypeOK
<1>3. held' = [held EXCEPT ![p] = Bump(held[p], B, -1)]
  BY DEF CheckMismatch
<1>4. /\ Bump(held[p], B, -1) \in EntityMap
      /\ \A id \in B : /\ Bump(held[p], B, -1)[id] # Absent
                       /\ Bump(held[p], B, -1)[id].v = held[p][id].v + -1
                       /\ Bump(held[p], B, -1)[id].marks = held[p][id].marks
      /\ \A id \in Ids \ B : Bump(held[p], B, -1)[id] = held[p][id]
  <2>1. \A id \in B : held[p][id] # Absent /\ held[p][id].v + -1 \in Nat
    BY <1>1
  <2> HIDE DEF B
  <2> QED BY <1>2, <2>1, BumpType
<1>5. \A id \in B : held[p][id].v + -1 = held[p][id].v - 1
  <2> SUFFICES ASSUME NEW id \in B PROVE held[p][id].v + -1 = held[p][id].v - 1
    OBVIOUS
  <2> held[p][id].v \in Nat
    BY <1>1, <1>2 DEF EntityMap, Entity
  <2> QED OBVIOUS
<1> QED BY <1>1, <1>3, <1>4, <1>5 DEF TypeOK

\* Every step keeps every variable in its type.
LEMMA TypeStep ==
  ASSUME TypeOK, BatchHeld, CheckedIsBumped, ReadIsCurrent, LoopsMatch, [Next]_vars
  PROVE  TypeOK'
<1> USE DEF TypeOK
<1>1. ASSUME NEW p \in Callers, NEW o \in Ops, NEW B \in SUBSET Ids, NEW h \in EntityMap,
             Call(p, o, B, h)
      PROVE  TypeOK'
  BY <1>1 DEF Call
<1>2. ASSUME NEW p \in Callers, CallCreate(p) PROVE TypeOK'
  BY <1>1, <1>2 DEF CallCreate
<1>3. ASSUME NEW p \in Callers, NEW B \in SUBSET Ids, CallRead(p, B) PROVE TypeOK'
  BY <1>1, <1>3 DEF CallRead
<1>4. ASSUME NEW p \in Callers, NEW B \in SUBSET Ids, CallUpdate(p, B) PROVE TypeOK'
  BY <1>1, <1>4, MarkedType DEF CallUpdate
<1>5. ASSUME NEW p \in Callers, NEW B \in SUBSET Ids, CallDelete(p, B) PROVE TypeOK'
  BY <1>1, <1>5 DEF CallDelete
<1>6. ASSUME NEW p \in Callers, Lock(p) PROVE TypeOK'
  BY <1>6 DEF Lock, FirstStep
<1>7. ASSUME NEW p \in Callers, Generate(p) PROVE TypeOK'
  <2>1. PICK B \in SUBSET (Ids \ issued) :
          /\ issued' = issued \cup B
          /\ batch' = [batch EXCEPT ![p] = B]
          /\ todo' = [todo EXCEPT ![p] = B]
          /\ held' = [held EXCEPT ![p] =
                        [id \in Ids |-> IF id \in B THEN [v |-> 0, marks |-> {}]
                                                    ELSE held[p][id]]]
    BY <1>7 DEF Generate
  <2>2. held' \in [Callers -> EntityMap]
    BY <2>1 DEF EntityMap, Entity
  <2> QED BY <1>7, <2>1, <2>2 DEF Generate
<1>8. ASSUME NEW p \in Callers, NEW id \in Ids, Get(p, id) PROVE TypeOK'
  <2>1. old' \in [Callers -> EntityMap]
    BY <1>8 DEF Get, EntityMap
  <2>2. pc' \in [Callers -> PCs] /\ todo' \in [Callers -> SUBSET Ids]
    BY <1>8, RoundType DEF Get
  <2> QED BY <1>8, <2>1, <2>2 DEF Get
<1>9. ASSUME NEW p \in Callers, NEW id \in Ids, GetMissing(p, id) PROVE TypeOK'
  BY <1>9 DEF GetMissing, Fail
<1>10. ASSUME NEW p \in Callers, GetFault(p) \/ MarshalFault(p) \/ DelFault(p) PROVE TypeOK'
  BY <1>10 DEF GetFault, MarshalFault, DelFault, Fail
<1>11. ASSUME NEW p \in Callers, NEW id \in Ids, CheckMatch(p, id) PROVE TypeOK'
  <2>1. pc' \in [Callers -> PCs] /\ todo' \in [Callers -> SUBSET Ids]
    BY <1>11, RoundType DEF CheckMatch
  <2> QED BY <1>11, <2>1, MatchBumps DEF CheckMatch
<1>12. ASSUME NEW p \in Callers, NEW id \in Ids, CheckMismatch(p, id) PROVE TypeOK'
  BY <1>12, MismatchRestores DEF CheckMismatch, Fail
<1>13. ASSUME NEW p \in Callers, NEW id \in Ids, Put(p, id) PROVE TypeOK'
  <2>1. data' \in EntityMap
    BY <1>13 DEF Put, EntityMap
  <2>2. pc' \in [Callers -> PCs] /\ todo' \in [Callers -> SUBSET Ids]
    BY <1>13, RoundType DEF Put
  <2> QED BY <1>13, <2>1, <2>2 DEF Put
<1>14. ASSUME NEW p \in Callers, NEW id \in Ids, PutFault(p, id) PROVE TypeOK'
  BY <1>14, RoundType DEF PutFault
<1>15. ASSUME NEW p \in Callers, NEW id \in Ids, Del(p, id) PROVE TypeOK'
  <2>1. data' \in EntityMap
    BY <1>15 DEF Del, EntityMap
  <2>2. pc' \in [Callers -> PCs] /\ todo' \in [Callers -> SUBSET Ids]
    BY <1>15, RoundType DEF Del
  <2> QED BY <1>15, <2>1, <2>2 DEF Del
<1>16. ASSUME NEW p \in Callers, Return(p) PROVE TypeOK'
  <2>1. Nothing \in EntityMap
    BY DEF Nothing, EntityMap
  <2>2. [id \in Ids |-> IF id \in batch[p] THEN old[p][id] ELSE held[p][id]] \in EntityMap
    BY DEF EntityMap
  <2> QED BY <1>16, <2>1, <2>2 DEF Return
<1>17. CASE UNCHANGED vars
  BY <1>17 DEF vars
<1> QED
  BY <1>2, <1>3, <1>4, <1>5, <1>6, <1>7, <1>8, <1>9, <1>10, <1>11, <1>12, <1>13, <1>14, <1>15,
     <1>16, <1>17 DEF Next, Start, Step

\* Every step keeps the mutex and the loops in order.
LEMMA SusInvStep ==
  ASSUME TypeOK, TypeOK', SusInv, [Next]_vars
  PROVE  SusInv'
<1> USE SusAssumption DEF TypeOK, SusInv, Critical
<1>1. ASSUME NEW p \in Callers, NEW o \in Ops \ {"none"}, NEW B \in SUBSET Ids, NEW h \in EntityMap,
             Call(p, o, B, h), o = "create" => B = {}, o = "update" => \A id \in B : h[id] # Absent
      PROVE  SusInv'
  <2>1. MutualExclusion'
    BY <1>1 DEF MutualExclusion, Call
  <2>2. LoopsMatch'
    BY <1>1 DEF LoopsMatch, Call
  <2>3. BatchHeld'
    BY <1>1 DEF LoopsMatch, BatchHeld, Call
  <2>4. ReadIsCurrent'
    BY <1>1 DEF MutualExclusion, LoopsMatch, ReadIsCurrent, Call
  <2>5. CheckedIsBumped'
    BY <1>1 DEF LoopsMatch, BatchHeld, ReadIsCurrent, CheckedIsBumped, Call
  <2> QED BY <2>1, <2>2, <2>3, <2>4, <2>5
<1>2. ASSUME NEW p \in Callers, Lock(p)
      PROVE  SusInv'
  <2>1. MutualExclusion'
    BY <1>2 DEF MutualExclusion, Lock, FirstStep
  <2>2. LoopsMatch'
    BY <1>2 DEF LoopsMatch, Lock, FirstStep
  <2>3. BatchHeld'
    BY <1>2 DEF LoopsMatch, BatchHeld, Lock, FirstStep
  <2>4. ReadIsCurrent'
    BY <1>2 DEF MutualExclusion, LoopsMatch, ReadIsCurrent, Lock, FirstStep
  <2>5. CheckedIsBumped'
    BY <1>2 DEF LoopsMatch, BatchHeld, ReadIsCurrent, CheckedIsBumped, Lock, FirstStep
  <2> QED BY <2>1, <2>2, <2>3, <2>4, <2>5
<1>3. ASSUME NEW p \in Callers, Generate(p)
      PROVE  SusInv'
  <2>1. MutualExclusion'
    BY <1>3 DEF MutualExclusion, Generate
  <2>2. LoopsMatch'
    BY <1>3 DEF LoopsMatch, Generate
  <2>3. BatchHeld'
    BY <1>3, FreshType DEF LoopsMatch, BatchHeld, Generate
  <2>4. ReadIsCurrent'
    BY <1>3 DEF MutualExclusion, LoopsMatch, ReadIsCurrent, Generate
  <2>5. CheckedIsBumped'
    BY <1>3 DEF LoopsMatch, BatchHeld, ReadIsCurrent, CheckedIsBumped, Generate
  <2> QED BY <2>1, <2>2, <2>3, <2>4, <2>5
<1>4. ASSUME NEW p \in Callers, NEW i \in Ids, Get(p, i)
      PROVE  SusInv'
  <2>1. MutualExclusion'
    BY <1>4 DEF MutualExclusion, Get, Round
  <2>2. LoopsMatch'
    BY <1>4 DEF LoopsMatch, Get, Round
  <2>3. BatchHeld'
    BY <1>4 DEF LoopsMatch, BatchHeld, Get, Round
  <2>4. ReadIsCurrent'
    <3>1. old'[p][i] = data[i] /\ \A id \in Ids \ {i} : old'[p][id] = old[p][id]
      BY <1>4 DEF Get, EntityMap
    <3>2. \A q \in Callers \ {p} : old'[q] = old[q] /\ pc'[q] = pc[q] /\ todo'[q] = todo[q]
      BY <1>4 DEF Get, Round
    <3>3. data[i] # Absent /\ UNCHANGED <<data, op, batch, err>>
      BY <1>4 DEF Get
    <3>4. \A id \in batch[p] : id = i \/ id \notin todo'[p] => old'[p][id] = data[id] /\ data[id] # Absent
      BY <1>4, <3>1, <3>3 DEF Get, Round, ReadIsCurrent, LoopsMatch
    <3>5. pc'[p] # "get" => todo[p] = {i} /\ pc'[p] \in {"unlock", "check"}
      BY <1>4 DEF Get, Round
    <3> QED BY <1>4, <3>1, <3>2, <3>3, <3>4, <3>5 DEF ReadIsCurrent, LoopsMatch, Get
  <2>5. CheckedIsBumped'
    BY <1>4 DEF LoopsMatch, BatchHeld, ReadIsCurrent, CheckedIsBumped, Get, Round
  <2> QED BY <2>1, <2>2, <2>3, <2>4, <2>5
<1>5. ASSUME NEW p \in Callers, NEW i \in Ids, GetMissing(p, i)
      PROVE  SusInv'
  <2>1. MutualExclusion'
    BY <1>5 DEF MutualExclusion, GetMissing, Fail
  <2>2. LoopsMatch'
    BY <1>5 DEF LoopsMatch, GetMissing, Fail
  <2>3. BatchHeld'
    BY <1>5 DEF LoopsMatch, BatchHeld, GetMissing, Fail
  <2>4. ReadIsCurrent'
    BY <1>5 DEF MutualExclusion, LoopsMatch, ReadIsCurrent, GetMissing, Fail
  <2>5. CheckedIsBumped'
    BY <1>5 DEF LoopsMatch, BatchHeld, ReadIsCurrent, CheckedIsBumped, GetMissing, Fail
  <2> QED BY <2>1, <2>2, <2>3, <2>4, <2>5
<1>6. ASSUME NEW p \in Callers, GetFault(p) \/ MarshalFault(p) \/ DelFault(p)
      PROVE  SusInv'
  <2>1. MutualExclusion'
    BY <1>6 DEF MutualExclusion, GetFault, MarshalFault, DelFault, Fail
  <2>2. LoopsMatch'
    BY <1>6 DEF LoopsMatch, GetFault, MarshalFault, DelFault, Fail
  <2>3. BatchHeld'
    BY <1>6 DEF LoopsMatch, BatchHeld, GetFault, MarshalFault, DelFault, Fail
  <2>4. ReadIsCurrent'
    BY <1>6 DEF MutualExclusion, LoopsMatch, ReadIsCurrent, GetFault, MarshalFault, DelFault, Fail
  <2>5. CheckedIsBumped'
    BY <1>6 DEF LoopsMatch, BatchHeld, ReadIsCurrent, CheckedIsBumped, GetFault, MarshalFault, DelFault, Fail
  <2> QED BY <2>1, <2>2, <2>3, <2>4, <2>5
<1>7. ASSUME NEW p \in Callers, NEW i \in Ids, CheckMatch(p, i)
      PROVE  SusInv'
  <2>1. MutualExclusion'
    BY <1>7 DEF MutualExclusion, CheckMatch, Round
  <2> DEFINE h == held[p]
             h1 == held'[p]
  <2>a. /\ \A q \in Callers \ {p} : held'[q] = held[q]
        /\ h1[i] # Absent /\ h1[i].v = h[i].v + 1
        /\ \A id \in Ids \ {i} : h1[id] = h[id]
    BY <1>7, MatchBumps
  <2>b. /\ pc[p] = "check" /\ op[p] = "update" /\ old[p][i].v = h[i].v
        /\ UNCHANGED <<op, batch, old>>
        /\ \A q \in Callers \ {p} : pc'[q] = pc[q] /\ todo'[q] = todo[q]
        /\ \/ todo[p] = {i} /\ pc'[p] = "put" /\ todo'[p] = batch[p]
           \/ todo[p] # {i} /\ pc'[p] = "check" /\ todo'[p] = todo[p] \ {i}
    BY <1>7 DEF CheckMatch, Round, LoopsMatch
  <2> HIDE DEF h, h1
  <2>2. LoopsMatch'
    BY <1>7 DEF LoopsMatch, CheckMatch, Round
  <2>3. BatchHeld'
    <3>1. \A id \in batch[p] : h1[id] # Absent
      BY <2>a, <2>b DEF BatchHeld, h
    <3> QED BY <2>a, <2>b, <3>1 DEF BatchHeld, h1
  <2>4. ReadIsCurrent'
    BY <1>7 DEF MutualExclusion, LoopsMatch, ReadIsCurrent, CheckMatch, Round
  <2>5. CheckedIsBumped'
    <3>1. h1[i].v = old[p][i].v + 1 /\ \A id \in batch[p] \ todo[p] : h[id].v = old[p][id].v + 1
      BY <2>a, <2>b DEF CheckedIsBumped, LoopsMatch, h
    <3>2. \A id \in batch[p] : pc'[p] = "put" \/ id \notin todo'[p] => h1[id].v = old[p][id].v + 1
      BY <2>a, <2>b, <3>1 DEF LoopsMatch
    <3> QED BY <2>a, <2>b, <3>2 DEF CheckedIsBumped, LoopsMatch, h1
  <2> QED BY <2>1, <2>2, <2>3, <2>4, <2>5
<1>8. ASSUME NEW p \in Callers, NEW i \in Ids, CheckMismatch(p, i)
      PROVE  SusInv'
  <2>1. MutualExclusion'
    BY <1>8 DEF MutualExclusion, CheckMismatch, Fail
  <2>2. LoopsMatch'
    BY <1>8 DEF LoopsMatch, CheckMismatch, Fail
  <2>3. BatchHeld'
    BY <1>8, MismatchRestores DEF LoopsMatch, BatchHeld, ReadIsCurrent, CheckedIsBumped, CheckMismatch, Fail
  <2>4. ReadIsCurrent'
    BY <1>8 DEF MutualExclusion, LoopsMatch, ReadIsCurrent, CheckMismatch, Fail
  <2>5. CheckedIsBumped'
    BY <1>8, MismatchRestores DEF LoopsMatch, BatchHeld, ReadIsCurrent, CheckedIsBumped, CheckMismatch, Fail
  <2> QED BY <2>1, <2>2, <2>3, <2>4, <2>5
<1>9. ASSUME NEW p \in Callers, NEW i \in Ids, Put(p, i)
      PROVE  SusInv'
  <2>1. MutualExclusion'
    BY <1>9 DEF MutualExclusion, Put, Round
  <2>2. LoopsMatch'
    BY <1>9 DEF LoopsMatch, Put, Round
  <2>3. BatchHeld'
    BY <1>9 DEF LoopsMatch, BatchHeld, Put, Round
  <2>4. ReadIsCurrent'
    BY <1>9 DEF MutualExclusion, LoopsMatch, ReadIsCurrent, Put, Round
  <2>5. CheckedIsBumped'
    BY <1>9 DEF LoopsMatch, BatchHeld, ReadIsCurrent, CheckedIsBumped, Put, Round
  <2> QED BY <2>1, <2>2, <2>3, <2>4, <2>5
<1>10. ASSUME NEW p \in Callers, NEW i \in Ids, PutFault(p, i)
      PROVE  SusInv'
  <2>1. MutualExclusion'
    BY <1>10 DEF MutualExclusion, PutFault, Round
  <2>2. LoopsMatch'
    BY <1>10 DEF LoopsMatch, PutFault, Round
  <2>3. BatchHeld'
    BY <1>10 DEF LoopsMatch, BatchHeld, PutFault, Round
  <2>4. ReadIsCurrent'
    BY <1>10 DEF MutualExclusion, LoopsMatch, ReadIsCurrent, PutFault, Round
  <2>5. CheckedIsBumped'
    BY <1>10 DEF LoopsMatch, BatchHeld, ReadIsCurrent, CheckedIsBumped, PutFault, Round
  <2> QED BY <2>1, <2>2, <2>3, <2>4, <2>5
<1>11. ASSUME NEW p \in Callers, NEW i \in Ids, Del(p, i)
      PROVE  SusInv'
  <2>1. MutualExclusion'
    BY <1>11 DEF MutualExclusion, Del, Round
  <2>2. LoopsMatch'
    BY <1>11 DEF LoopsMatch, Del, Round
  <2>3. BatchHeld'
    BY <1>11 DEF LoopsMatch, BatchHeld, Del, Round
  <2>4. ReadIsCurrent'
    BY <1>11 DEF MutualExclusion, LoopsMatch, ReadIsCurrent, Del, Round
  <2>5. CheckedIsBumped'
    BY <1>11 DEF LoopsMatch, BatchHeld, ReadIsCurrent, CheckedIsBumped, Del, Round
  <2> QED BY <2>1, <2>2, <2>3, <2>4, <2>5
<1>12. ASSUME NEW p \in Callers, Return(p)
      PROVE  SusInv'
  <2>1. MutualExclusion'
    BY <1>12 DEF MutualExclusion, Return
  <2>2. LoopsMatch'
    BY <1>12 DEF LoopsMatch, Return
  <2>3. BatchHeld'
    BY <1>12 DEF LoopsMatch, BatchHeld, Return
  <2>4. ReadIsCurrent'
    BY <1>12 DEF MutualExclusion, LoopsMatch, ReadIsCurrent, Return
  <2>5. CheckedIsBumped'
    BY <1>12 DEF LoopsMatch, BatchHeld, ReadIsCurrent, CheckedIsBumped, Return
  <2> QED BY <2>1, <2>2, <2>3, <2>4, <2>5
<1>13. CASE UNCHANGED vars
  BY <1>13 DEF vars, MutualExclusion, LoopsMatch, BatchHeld, ReadIsCurrent, CheckedIsBumped
<1>14. ASSUME NEW p \in Callers, Start(p) PROVE SusInv'
  <2>1. CASE CallCreate(p)
    BY <2>1, <1>1 DEF CallCreate
  <2>2. ASSUME NEW B \in SUBSET Ids, CallRead(p, B) \/ CallDelete(p, B) PROVE SusInv'
    BY <2>2, <1>1 DEF CallRead, CallDelete
  <2>3. ASSUME NEW B \in SUBSET Ids, CallUpdate(p, B) PROVE SusInv'
    BY <2>3, <1>1, MarkedType DEF CallUpdate
  <2> QED BY <1>14, <2>1, <2>2, <2>3 DEF Start
<1> QED
  BY <1>2, <1>3, <1>4, <1>5, <1>6, <1>7, <1>8, <1>9, <1>10, <1>11, <1>12, <1>13, <1>14
  DEF Next, Step

\* No caller is in a transaction function at first.
LEMMA InitSusInv == Init => TypeOK /\ SusInv
BY SusAssumption DEF Init, TypeOK, EntityMap, Nothing, SusInv, MutualExclusion, LoopsMatch, BatchHeld,
   ReadIsCurrent, CheckedIsBumped, Critical

\* Every variable keeps its type, only the holder of the mutex is inside a
\* transaction function, and what it read is what the store still has,
\* whatever fails.
THEOREM TypeAndLocking == Spec => [](TypeOK /\ SusInv)
<1>1. TypeOK /\ SusInv /\ [Next]_vars => (TypeOK /\ SusInv)'
  BY TypeStep, SusInvStep DEF SusInv
<1> QED BY InitSusInv, <1>1, PTL DEF Spec

\* The type invariant of package sus, for every set of ids, callers and faults.
THEOREM TypeCorrect == Spec => []TypeOK
BY TypeAndLocking, PTL

-----------------------------------------------------------------------------
(* Deleted entities stay deleted.                                          *)

\* The loops of putMulti and delMulti are the only writers.
LEMMA OnlyPutAndDelWrite ==
  ASSUME [Next]_vars, data' # data
  PROVE  \E p \in Callers, i \in Ids : Put(p, i) \/ Del(p, i)
<1>1. ASSUME NEW p \in Callers, Start(p) PROVE data' = data
  BY <1>1 DEF Start, CallCreate, CallRead, CallUpdate, CallDelete, Call
<1>2. ASSUME NEW p \in Callers, Lock(p) PROVE data' = data
  BY <1>2 DEF Lock
<1>3. ASSUME NEW p \in Callers,
             Generate(p) \/ GetFault(p) \/ MarshalFault(p) \/ DelFault(p) \/ Return(p)
      PROVE  data' = data
  BY <1>3 DEF Generate, GetFault, MarshalFault, DelFault, Return
<1>4. ASSUME NEW p \in Callers, NEW i \in Ids,
             \/ Get(p, i) \/ GetMissing(p, i) \/ CheckMatch(p, i)
             \/ CheckMismatch(p, i) \/ PutFault(p, i)
      PROVE  data' = data
  BY <1>4 DEF Get, GetMissing, CheckMatch, CheckMismatch, PutFault
<1>5. CASE UNCHANGED vars
  BY <1>5 DEF vars
<1> QED BY <1>1, <1>2, <1>3, <1>4, <1>5 DEF Next, Step

\* A put that brings an entity into the store is one of a create.
LEMMA NoResurrectionStep ==
  ASSUME TypeOK, SusInv, [Next]_vars, NEW id \in Ids, data[id] = Absent, data'[id] # Absent
  PROVE  data'[id].v = 0
<1>1. PICK p \in Callers, i \in Ids : Put(p, i) \/ Del(p, i)
  BY OnlyPutAndDelWrite
<1>2. i = id /\ Put(p, id) /\ data'[id] = held[p][id]
  BY <1>1 DEF Put, Del, TypeOK, EntityMap
<1>3. op[p] = "create"
  BY <1>2 DEF Put, SusInv, LoopsMatch, ReadIsCurrent
<1>4. held[p][id] = [v |-> 0, marks |-> {}]
  BY <1>2, <1>3 DEF Put, SusInv, CheckedIsBumped
<1> QED BY <1>2, <1>4

\* No update, whatever it interleaves with and whatever fails, brings a
\* deleted entity back.
THEOREM DeletedStaysDeleted == Spec => NoResurrection
<1>1. TypeOK /\ SusInv /\ [Next]_vars =>
        [\A id \in Ids : data[id] = Absent /\ data'[id] # Absent => data'[id].v = 0]_vars
  BY NoResurrectionStep
<1> QED BY <1>1, TypeAndLocking, PTL DEF Spec, NoResurrection

-----------------------------------------------------------------------------
(* A refused update leaves the caller's versions alone.                    *)

\* The versions of an update's entities follow its loops, forth and back.
LEMMA VersionsStep ==
  ASSUME TypeOK, SusInv, VersionsAtCall, [Next]_vars
  PROVE  VersionsAtCall'
<1> USE DEF TypeOK, VersionsAtCall
<1>1. ASSUME NEW p \in Callers, NEW o \in Ops, NEW B \in SUBSET Ids, NEW h \in EntityMap, Call(p, o, B, h),
             o = "update" => \A id \in B : h[id] # Absent
      PROVE  VersionsAtCall'
  BY <1>1 DEF Call
<1>2. ASSUME NEW p \in Callers, Lock(p)
      PROVE  VersionsAtCall'
  BY <1>2 DEF Lock, FirstStep
<1>3. ASSUME NEW p \in Callers, Generate(p)
      PROVE  VersionsAtCall'
  BY <1>3 DEF Generate, SusInv, LoopsMatch
<1>4. ASSUME NEW p \in Callers, NEW i \in Ids, Get(p, i)
      PROVE  VersionsAtCall'
  BY <1>4 DEF Get, Round, SusInv, LoopsMatch
<1>5. ASSUME NEW p \in Callers, NEW i \in Ids, GetMissing(p, i)
      PROVE  VersionsAtCall'
  BY <1>5 DEF GetMissing, Fail
<1>6. ASSUME NEW p \in Callers, GetFault(p)
      PROVE  VersionsAtCall'
  BY <1>6 DEF GetFault, Fail
<1>7. ASSUME NEW p \in Callers, MarshalFault(p) \/ DelFault(p)
      PROVE  VersionsAtCall'
  BY <1>7 DEF MarshalFault, DelFault, Fail
<1>8. ASSUME NEW p \in Callers, NEW i \in Ids, CheckMatch(p, i)
      PROVE  VersionsAtCall'
  <2> DEFINE h == held[p]
             h1 == held'[p]
  <2>1. /\ \A q \in Callers \ {p} : held'[q] = held[q]
        /\ h1[i].v = h[i].v + 1
        /\ \A id \in Ids \ {i} : h1[id] = h[id]
    BY <1>8, MatchBumps DEF SusInv
  <2>2. /\ pc[p] = "check" /\ op[p] = "update"
        /\ UNCHANGED <<op, batch, was, err>>
        /\ i \in todo[p]
        /\ \A q \in Callers \ {p} : pc'[q] = pc[q] /\ todo'[q] = todo[q]
        /\ \/ pc'[p] = "put"
           \/ pc'[p] = "check" /\ todo'[p] = todo[p] \ {i}
    BY <1>8 DEF CheckMatch, Round, SusInv, LoopsMatch
  <2> HIDE DEF h, h1
  <2>3. ASSUME NEW id \in Ids, id \in batch[p], pc'[p] = "check"
        PROVE  h1[id].v = IF id \in todo'[p] THEN was[p][id].v ELSE was[p][id].v + 1
    <3>1. h[id].v = IF id \in todo[p] THEN was[p][id].v ELSE was[p][id].v + 1
      BY <2>2, <2>3 DEF h
    <3> QED BY <2>1, <2>2, <2>3, <3>1
  <2> QED BY <2>1, <2>2, <2>3 DEF h1
<1>9. ASSUME NEW p \in Callers, NEW i \in Ids, CheckMismatch(p, i)
      PROVE  VersionsAtCall'
  <2> DEFINE h == held[p]
             h1 == held'[p]
  <2>1. /\ \A q \in Callers \ {p} : held'[q] = held[q]
        /\ \A id \in batch[p] \ todo[p] : h1[id].v = h[id].v - 1
        /\ \A id \in Ids \ (batch[p] \ todo[p]) : h1[id] = h[id]
    BY <1>9, MismatchRestores DEF SusInv
  <2>2. /\ pc[p] = "check" /\ op[p] = "update" /\ pc'[p] = "unlock"
        /\ UNCHANGED <<op, batch, was>>
        /\ \A q \in Callers \ {p} : pc'[q] = pc[q] /\ todo'[q] = todo[q] /\ err'[q] = err[q]
    BY <1>9 DEF CheckMismatch, Fail, SusInv, LoopsMatch
  <2> HIDE DEF h, h1
  <2>3. ASSUME NEW id \in Ids, id \in batch[p]
        PROVE  h1[id].v = was[p][id].v
    <3>1. h[id].v = IF id \in todo[p] THEN was[p][id].v ELSE was[p][id].v + 1
      BY <2>2, <2>3 DEF h
    <3>2. was[p][id].v \in Nat
      <4>1. was[p][id] \in Entity
        BY <2>2, <2>3 DEF EntityMap
      <4> QED BY <4>1 DEF Entity
    <3>3. CASE id \in todo[p]
      BY <2>1, <3>1, <3>3
    <3>4. CASE id \notin todo[p]
      <4>1. h1[id].v = h[id].v - 1 /\ h[id].v = was[p][id].v + 1
        BY <2>1, <2>3, <3>1, <3>4
      <4> QED BY <3>2, <4>1
    <3> QED BY <3>3, <3>4
  <2> QED BY <2>1, <2>2, <2>3 DEF h1
<1>10. ASSUME NEW p \in Callers, NEW i \in Ids, Put(p, i)
      PROVE  VersionsAtCall'
  BY <1>10 DEF Put, Round
<1>11. ASSUME NEW p \in Callers, NEW i \in Ids, PutFault(p, i)
      PROVE  VersionsAtCall'
  BY <1>11 DEF PutFault, Round
<1>12. ASSUME NEW p \in Callers, NEW i \in Ids, Del(p, i)
      PROVE  VersionsAtCall'
  BY <1>12 DEF Del, Round, SusInv, LoopsMatch
<1>13. ASSUME NEW p \in Callers, Return(p)
      PROVE  VersionsAtCall'
  BY <1>13 DEF Return
<1>14. CASE UNCHANGED vars
  BY <1>14 DEF vars
<1>15. ASSUME NEW p \in Callers, Start(p) PROVE VersionsAtCall'
  <2> HIDE DEF VersionsAtCall
  <2>1. CASE CallCreate(p)
    BY <2>1, <1>1 DEF CallCreate
  <2>2. ASSUME NEW B \in SUBSET Ids, CallRead(p, B) \/ CallDelete(p, B) PROVE VersionsAtCall'
    BY <2>2, <1>1 DEF CallRead, CallDelete
  <2>3. ASSUME NEW B \in SUBSET Ids, CallUpdate(p, B) PROVE VersionsAtCall'
    BY <2>3, <1>1, MarkedType DEF CallUpdate
  <2> QED BY <1>15, <2>1, <2>2, <2>3 DEF Start
<1> QED
  BY <1>2, <1>3, <1>4, <1>5, <1>6, <1>7, <1>8, <1>9, <1>10, <1>11, <1>12, <1>13, <1>14, <1>15
  DEF Next, Step

\* An update refused because of what the store holds leaves the versions of the
\* caller's entities as they were at the call, for every batch and every
\* interleaving, and whatever fails.
THEOREM RefusalKeepsVersions == Spec => []RefusedUpdateKeepsVersions
<1>1. Init => VersionsAtCall
  BY DEF Init, VersionsAtCall
<1>2. TypeOK /\ SusInv /\ VersionsAtCall /\ [Next]_vars => VersionsAtCall'
  BY VersionsStep
<1>3. TypeOK /\ VersionsAtCall => RefusedUpdateKeepsVersions
  BY DEF TypeOK, VersionsAtCall, RefusedUpdateKeepsVersions
<1> QED BY <1>1, <1>2, <1>3, TypeAndLocking, PTL DEF Spec

-----------------------------------------------------------------------------
(* Sequential updates, when putMulti does not fail half way.               *)

PutsSucceed == Faults \cap {"put", "marshal"} = {}

\* What a caller passes to UpdateMulti are the entities it holds, with a change.
LEMMA MarkedFacts ==
  ASSUME TypeOK, NEW p \in Callers, NEW B \in SUBSET Ids,
         \A id \in B : held[p][id] # Absent
  PROVE  /\ Marked(p, B) \in EntityMap
         /\ \A id \in Ids : /\ Marked(p, B)[id] # Absent <=> held[p][id] # Absent
                            /\ Marked(p, B)[id].v = held[p][id].v
                            /\ id \in B => held[p][id].marks \subseteq Marked(p, B)[id].marks
                            /\ id \notin B => Marked(p, B)[id] = held[p][id]
<1>1. Marked(p, B) \in EntityMap /\ \A id \in B : Marked(p, B)[id] # Absent
  BY MarkedType
<1>2. ASSUME NEW id \in B
      PROVE  /\ Marked(p, B)[id].v = held[p][id].v
             /\ held[p][id].marks \subseteq Marked(p, B)[id].marks
  <2>1. held[p][id] \in Entity
    BY DEF EntityMap, TypeOK
  <2>2. Marked(p, B)[id] = [held[p][id] EXCEPT !.marks = @ \cup {p}]
    BY DEF Marked
  <2> QED BY <2>1, <2>2 DEF Entity
<1>3. \A id \in Ids \ B : Marked(p, B)[id] = held[p][id]
  BY DEF Marked
<1> QED BY <1>1, <1>2, <1>3

\* Ids are handed out once, and nobody has the entity of a create under way.
LEMMA FreshStep ==
  ASSUME TypeOK, TypeOK', SusInv, SusInv', FreshIsUnknown, [Next]_vars, PutsSucceed
  PROVE  FreshIsUnknown'
<1> USE SusAssumption DEF TypeOK, SusInv, FreshIsUnknown, PutsSucceed
<1>1. ASSUME NEW p \in Callers, NEW o \in Ops \ {"none"}, NEW B \in SUBSET Ids, NEW h \in EntityMap, Call(p, o, B, h),
             \A id \in Ids : h[id] # Absent => held[p][id] # Absent
      PROVE  FreshIsUnknown'
  BY <1>1 DEF Call
<1>2. ASSUME NEW p \in Callers, Lock(p)
      PROVE  FreshIsUnknown'
  BY <1>2 DEF Lock, FirstStep
<1>3. ASSUME NEW p \in Callers, Generate(p)
      PROVE  FreshIsUnknown'
  <2>1. PICK B \in SUBSET (Ids \ issued) :
          /\ issued' = issued \cup B
          /\ todo' = [todo EXCEPT ![p] = B]
          /\ held' = [held EXCEPT ![p] =
                        [id \in Ids |-> IF id \in B THEN [v |-> 0, marks |-> {}]
                                                    ELSE held[p][id]]]
    BY <1>3 DEF Generate
  <2>2. data' = data /\ pc' = [pc EXCEPT ![p] = "put"] /\ \A q \in Callers \ {p} : pc[q] # "put"
    BY <1>3 DEF Generate, MutualExclusion, Critical
  <2>3. ASSUME NEW id \in Ids \ issued' PROVE data'[id] = Absent /\ \A q \in Callers : held'[q][id] = Absent
    BY <2>1, <2>2, <2>3
  <2>4. ASSUME NEW id \in todo'[p] PROVE data'[id] = Absent /\ \A q \in Callers \ {p} : held'[q][id] = Absent
    BY <2>1, <2>2, <2>4
  <2> QED BY <2>2, <2>3, <2>4
<1>4. ASSUME NEW p \in Callers, NEW i \in Ids, Get(p, i)
      PROVE  FreshIsUnknown'
  BY <1>4 DEF Get, Round
<1>5. ASSUME NEW p \in Callers, NEW i \in Ids, GetMissing(p, i)
      PROVE  FreshIsUnknown'
  BY <1>5 DEF GetMissing, Fail
<1>6. ASSUME NEW p \in Callers, GetFault(p)
      PROVE  FreshIsUnknown'
  BY <1>6 DEF GetFault, Fail
<1>7. ASSUME NEW p \in Callers, DelFault(p)
      PROVE  FreshIsUnknown'
  BY <1>7 DEF DelFault, Fail
<1>8. ASSUME NEW p \in Callers, NEW i \in Ids, CheckMatch(p, i)
      PROVE  FreshIsUnknown'
  <2>1. pc[p] = "check" /\ held[p][i] # Absent /\ UNCHANGED <<data, issued, op>>
    BY <1>8 DEF CheckMatch, LoopsMatch, BatchHeld
  <2>2. \A q \in Callers, id \in Ids : held[q][id] = Absent => held'[q][id] = Absent
    BY <1>8, <2>1, MatchBumps
  <2>3. \A q \in Callers : pc[q] # "put"
    BY <2>1 DEF MutualExclusion, Critical
  <2>4. op[p] = "update" /\ \A q \in Callers \ {p} : pc'[q] = pc[q]
    BY <1>8, <2>1 DEF CheckMatch, Round, LoopsMatch
  <2> QED BY <2>1, <2>2, <2>3, <2>4
<1>9. ASSUME NEW p \in Callers, NEW i \in Ids, CheckMismatch(p, i)
      PROVE  FreshIsUnknown'
  <2>1. /\ pc[p] = "check" /\ UNCHANGED <<data, issued, op>>
        /\ \A id \in batch[p] : held[p][id] # Absent
    BY <1>9 DEF CheckMismatch, LoopsMatch, BatchHeld
  <2>2. \A q \in Callers, id \in Ids : held[q][id] = Absent => held'[q][id] = Absent
    BY <1>9, <2>1, MismatchRestores
  <2>3. \A q \in Callers : pc[q] # "put"
    BY <2>1 DEF MutualExclusion, Critical
  <2>4. \A q \in Callers : pc'[q] # "put"
    BY <1>9, <2>3 DEF CheckMismatch, Fail
  <2> QED BY <2>1, <2>2, <2>4
<1>10. ASSUME NEW p \in Callers, NEW i \in Ids, Put(p, i)
      PROVE  FreshIsUnknown'
  BY <1>10 DEF Put, Round
<1>11. ASSUME NEW p \in Callers, NEW i \in Ids, Del(p, i)
      PROVE  FreshIsUnknown'
  BY <1>11 DEF Del, Round
<1>12. ASSUME NEW p \in Callers, Return(p)
      PROVE  FreshIsUnknown'
  <2>1. UNCHANGED <<data, issued>> /\ \A q \in Callers : pc[q] # "put" /\ pc'[q] # "put"
    BY <1>12 DEF Return, MutualExclusion, Critical
  <2>2. ASSUME NEW id \in Ids, id \notin issued PROVE held'[p][id] = Absent
    <3>1. data[id] = Absent /\ held[p][id] = Absent
      BY <2>2
    <3>2. op[p] = "read" /\ err[p] = "none" => id \notin batch[p]
      BY <1>12, <3>1 DEF Return, ReadIsCurrent
    <3> QED BY <1>12, <3>1, <3>2 DEF Return
  <2>3. \A q \in Callers \ {p} : held'[q] = held[q]
    BY <1>12 DEF Return
  <2> QED BY <2>1, <2>2, <2>3
<1>13. CASE UNCHANGED vars
  BY <1>13 DEF vars
<1>14. ASSUME NEW p \in Callers, Start(p) PROVE FreshIsUnknown'
  <2> HIDE DEF FreshIsUnknown, SusInv
  <2>1. CASE CallCreate(p)
    BY <2>1, <1>1 DEF CallCreate
  <2>2. ASSUME NEW B \in SUBSET Ids, CallRead(p, B) \/ CallDelete(p, B) PROVE FreshIsUnknown'
    BY <2>2, <1>1 DEF CallRead, CallDelete
  <2>3. ASSUME NEW B \in SUBSET Ids, CallUpdate(p, B) PROVE FreshIsUnknown'
    <3>1. \A id \in B : held[p][id] # Absent
      BY <2>3 DEF CallUpdate
    <3>2. Marked(p, B) \in EntityMap /\ \A id \in Ids : Marked(p, B)[id] # Absent <=> held[p][id] # Absent
      BY <3>1, MarkedFacts
    <3> QED BY <2>3, <3>1, <3>2, <1>1 DEF CallUpdate
  <2> QED BY <1>14, <2>1, <2>2, <2>3 DEF Start
<1>15. ASSUME NEW p \in Callers, MarshalFault(p) \/ \E i \in Ids : PutFault(p, i) PROVE FALSE
  BY <1>15 DEF MarshalFault, PutFault
<1> QED
  BY <1>2, <1>3, <1>4, <1>5, <1>6, <1>7, <1>8, <1>9, <1>10, <1>11, <1>12, <1>13, <1>14, <1>15
  DEF Next, Step

\* The put loop stores what it visits.
LEMMA PutStoredStep ==
  ASSUME TypeOK, TypeOK', SusInv, SusInv', PutIsStored, [Next]_vars, PutsSucceed
  PROVE  PutIsStored'
<1> USE SusAssumption DEF TypeOK, SusInv, PutIsStored, PutsSucceed
<1>1. ASSUME NEW p \in Callers, NEW o \in Ops \ {"none"}, NEW B \in SUBSET Ids, NEW h \in EntityMap, Call(p, o, B, h),
             o = "create" => B = {}
      PROVE  PutIsStored'
  BY <1>1 DEF Call
<1>2. ASSUME NEW p \in Callers, Lock(p)
      PROVE  PutIsStored'
  BY <1>2 DEF Lock, FirstStep
<1>3. ASSUME NEW p \in Callers, Generate(p)
      PROVE  PutIsStored'
  BY <1>3 DEF Generate
<1>4. ASSUME NEW p \in Callers, NEW i \in Ids, Get(p, i)
      PROVE  PutIsStored'
  BY <1>4 DEF Get, Round
<1>5. ASSUME NEW p \in Callers, NEW i \in Ids, GetMissing(p, i)
      PROVE  PutIsStored'
  BY <1>5 DEF GetMissing, Fail
<1>6. ASSUME NEW p \in Callers, GetFault(p)
      PROVE  PutIsStored'
  BY <1>6 DEF GetFault, Fail
<1>7. ASSUME NEW p \in Callers, DelFault(p)
      PROVE  PutIsStored'
  BY <1>7 DEF DelFault, Fail
<1>8. ASSUME NEW p \in Callers, NEW i \in Ids, CheckMatch(p, i)
      PROVE  PutIsStored'
  BY <1>8 DEF CheckMatch, Round
<1>9. ASSUME NEW p \in Callers, NEW i \in Ids, CheckMismatch(p, i)
      PROVE  PutIsStored'
  BY <1>9 DEF CheckMismatch, Fail
<1>10. ASSUME NEW p \in Callers, NEW i \in Ids, Put(p, i)
      PROVE  PutIsStored'
  <2>1. /\ pc[p] = "put" /\ i \in todo[p]
        /\ data' = [data EXCEPT ![i] = held[p][i]]
        /\ UNCHANGED <<batch, held, op>>
        /\ \A q \in Callers \ {p} : pc'[q] = pc[q] /\ todo'[q] = todo[q] /\ err'[q] = err[q]
        /\ \/ todo[p] = {i} /\ pc'[p] = "unlock"
           \/ todo'[p] = todo[p] \ {i} /\ pc'[p] = "put"
    BY <1>10 DEF Put, Round
  <2>2. \A q \in Callers \ {p} : pc[q] \notin Critical
    BY <2>1 DEF MutualExclusion, Critical
  <2>3. \A id \in batch[p] : id = i \/ id \notin todo[p] => data'[id] = held[p][id]
    BY <2>1 DEF EntityMap
  <2>4. \A id \in batch[p] : pc'[p] = "unlock" \/ id \notin todo'[p] => data'[id] = held[p][id]
    BY <2>1, <2>3
  <2> QED BY <2>1, <2>2, <2>4 DEF Critical
<1>11. ASSUME NEW p \in Callers, NEW i \in Ids, Del(p, i)
      PROVE  PutIsStored'
  <2>1. /\ pc[p] = "del" /\ op[p] = "delete" /\ UNCHANGED op
        /\ pc'[p] \in {"del", "unlock"}
        /\ \A q \in Callers \ {p} : pc'[q] = pc[q]
    BY <1>11 DEF Del, Round, LoopsMatch
  <2>2. \A q \in Callers \ {p} : pc[q] \notin Critical
    BY <2>1 DEF MutualExclusion, Critical
  <2> QED BY <2>1, <2>2 DEF Critical
<1>12. ASSUME NEW p \in Callers, Return(p)
      PROVE  PutIsStored'
  BY <1>12 DEF Return
<1>13. CASE UNCHANGED vars
  BY <1>13 DEF vars
<1>14. ASSUME NEW p \in Callers, Start(p) PROVE PutIsStored'
  <2> HIDE DEF PutIsStored, SusInv
  <2>1. CASE CallCreate(p)
    BY <2>1, <1>1 DEF CallCreate
  <2>2. ASSUME NEW B \in SUBSET Ids, CallRead(p, B) \/ CallDelete(p, B) PROVE PutIsStored'
    BY <2>2, <1>1 DEF CallRead, CallDelete
  <2>3. ASSUME NEW B \in SUBSET Ids, CallUpdate(p, B) PROVE PutIsStored'
    <3>1. \A id \in B : held[p][id] # Absent
      BY <2>3 DEF CallUpdate
    <3>2. Marked(p, B) \in EntityMap /\ \A id \in Ids : Marked(p, B)[id] # Absent <=> held[p][id] # Absent
      BY <3>1, MarkedFacts
    <3> QED BY <2>3, <3>1, <3>2, <1>1 DEF CallUpdate
  <2> QED BY <1>14, <2>1, <2>2, <2>3 DEF Start
<1>15. ASSUME NEW p \in Callers, MarshalFault(p) \/ \E i \in Ids : PutFault(p, i) PROVE FALSE
  BY <1>15 DEF MarshalFault, PutFault
<1> QED
  BY <1>2, <1>3, <1>4, <1>5, <1>6, <1>7, <1>8, <1>9, <1>10, <1>11, <1>12, <1>13, <1>14, <1>15
  DEF Next, Step

\* The store is never behind a caller.
LEMMA NeverBehindStep ==
  ASSUME TypeOK, TypeOK', SusInv, SusInv', FreshIsUnknown, NeverBehind, [Next]_vars, PutsSucceed
  PROVE  NeverBehind'
<1> USE SusAssumption DEF TypeOK, SusInv, NeverBehind, PutsSucceed
<1>1. ASSUME NEW p \in Callers, NEW o \in Ops \ {"none"}, NEW B \in SUBSET Ids, NEW h \in EntityMap, Call(p, o, B, h),
             \A id \in Ids : h[id] # Absent =>
               held[p][id] # Absent /\ h[id].v = held[p][id].v /\ held[p][id].marks \subseteq h[id].marks
      PROVE  NeverBehind'
  <2>2. pc[p] = "idle" /\ pc'[p] = "lock" /\ held'[p] = h /\ UNCHANGED data
    BY <1>1 DEF Call
  <2>3. \A q \in Callers \ {p}, id \in Ids : Ahead(q, id)' <=> Ahead(q, id)
    BY <1>1 DEF Call, Ahead
  <2>4. \A id \in Ids : ~Ahead(p, id) /\ ~Ahead(p, id)'
    BY <2>2 DEF Ahead
  <2>5. \A q \in Callers \ {p} : held'[q] = held[q]
    BY <1>1 DEF Call
  <2>6. ASSUME NEW id \in Ids, h[id] # Absent, data[id] # Absent
        PROVE  /\ h[id].v <= data[id].v
               /\ h[id].v = data[id].v => data[id].marks \subseteq h[id].marks
    BY <1>1, <2>4, <2>6
  <2> QED BY <2>2, <2>3, <2>4, <2>5, <2>6
<1>2. ASSUME NEW p \in Callers, Lock(p)
      PROVE  NeverBehind'
  <2>1. \A q \in Callers, id \in Ids : Ahead(q, id)' <=> Ahead(q, id)
    BY <1>2 DEF Lock, FirstStep, Ahead
  <2> QED BY <1>2, <2>1 DEF Lock
<1>3. ASSUME NEW p \in Callers, Generate(p)
      PROVE  NeverBehind'
  <2>1. PICK B \in SUBSET (Ids \ issued) :
          /\ batch' = [batch EXCEPT ![p] = B]
          /\ todo' = [todo EXCEPT ![p] = B]
          /\ held' = [held EXCEPT ![p] =
                        [id \in Ids |-> IF id \in B THEN [v |-> 0, marks |-> {}]
                                                    ELSE held[p][id]]]
    BY <1>3 DEF Generate
  <2>2. \A id \in B : data[id] = Absent
    BY <2>1 DEF FreshIsUnknown
  <2>3. UNCHANGED data /\ pc[p] = "gen" /\ pc' = [pc EXCEPT ![p] = "put"]
    BY <1>3 DEF Generate
  <2>4. \A q \in Callers, id \in Ids : q # p \/ id \notin B => (Ahead(q, id)' <=> Ahead(q, id))
    BY <2>1, <2>3 DEF Ahead
  <2>5. \A q \in Callers, id \in Ids : q # p \/ id \notin B => held'[q][id] = held[q][id]
    BY <2>1
  <2> QED BY <2>2, <2>3, <2>4, <2>5
<1>4. ASSUME NEW p \in Callers, NEW i \in Ids, Get(p, i)
      PROVE  NeverBehind'
  <2>1. \A q \in Callers, id \in Ids : Ahead(q, id)' <=> Ahead(q, id)
    BY <1>4 DEF Get, Round, Ahead
  <2> QED BY <1>4, <2>1 DEF Get
<1>5. ASSUME NEW p \in Callers, NEW i \in Ids, GetMissing(p, i)
      PROVE  NeverBehind'
  <2>1. \A q \in Callers, id \in Ids : Ahead(q, id)' <=> Ahead(q, id)
    BY <1>5 DEF GetMissing, Fail, Ahead
  <2> QED BY <1>5, <2>1 DEF GetMissing
<1>6. ASSUME NEW p \in Callers, GetFault(p)
      PROVE  NeverBehind'
  <2>1. \A q \in Callers, id \in Ids : Ahead(q, id)' <=> Ahead(q, id)
    BY <1>6 DEF GetFault, Fail, Ahead
  <2> QED BY <1>6, <2>1 DEF GetFault
<1>7. ASSUME NEW p \in Callers, DelFault(p)
      PROVE  NeverBehind'
  <2>1. \A q \in Callers, id \in Ids : Ahead(q, id)' <=> Ahead(q, id)
    BY <1>7 DEF DelFault, Fail, Ahead
  <2> QED BY <1>7, <2>1 DEF DelFault
<1>8. ASSUME NEW p \in Callers, NEW i \in Ids, CheckMatch(p, i)
      PROVE  NeverBehind'
  <2> DEFINE h == held[p]
             h1 == held'[p]
  <2>1. /\ \A q \in Callers \ {p} : held'[q] = held[q]
        /\ h1[i] # Absent /\ h1[i].v = h[i].v + 1 /\ h1[i].marks = h[i].marks
        /\ \A id \in Ids \ {i} : h1[id] = h[id]
    BY <1>8, MatchBumps
  <2>2. /\ pc[p] = "check" /\ i \in todo[p] /\ old[p][i].v = h[i].v
        /\ UNCHANGED <<data, batch>>
        /\ \A q \in Callers \ {p} : pc'[q] = pc[q] /\ todo'[q] = todo[q]
        /\ \/ todo[p] = {i} /\ pc'[p] = "put" /\ todo'[p] = batch[p]
           \/ pc'[p] = "check" /\ todo'[p] = todo[p] \ {i}
    BY <1>8 DEF CheckMatch, Round
  <2>3. \A q \in Callers, id \in Ids : q # p \/ id # i => (Ahead(q, id)' <=> Ahead(q, id))
    BY <2>2 DEF Ahead, LoopsMatch
  <2>4. ~Ahead(p, i) /\ Ahead(p, i)'
    BY <2>2 DEF Ahead, LoopsMatch
  <2>5. old[p][i] = data[i] /\ data[i] # Absent /\ h[i] # Absent
    BY <2>2 DEF LoopsMatch, BatchHeld, ReadIsCurrent
  <2>6. h[i].v = data[i].v /\ data[i].v \in Nat /\ data[i].marks \subseteq h[i].marks
    BY <2>2, <2>4, <2>5 DEF EntityMap, Entity
  <2>7. h1[i].v > data[i].v /\ data[i].marks \subseteq h1[i].marks
    <3> HIDE DEF h, h1
    <3> QED BY <2>1, <2>6
  <2>8. \A q \in Callers, id \in Ids : q # p \/ id # i => held'[q][id] = held[q][id]
    BY <2>1
  <2> QED BY <2>2, <2>3, <2>4, <2>7, <2>8
<1>9. ASSUME NEW p \in Callers, NEW i \in Ids, CheckMismatch(p, i)
      PROVE  NeverBehind'
  <2> DEFINE B == batch[p] \ todo[p]
  <2>1. /\ \A q \in Callers \ {p} : held'[q] = held[q]
        /\ \A id \in B : /\ held'[p][id] # Absent
                         /\ held'[p][id].v = data[id].v
                         /\ held'[p][id].marks = held[p][id].marks
        /\ \A id \in Ids \ B : held'[p][id] = held[p][id]
    BY <1>9, MismatchRestores
  <2>2. /\ pc[p] = "check" /\ pc'[p] = "unlock"
        /\ UNCHANGED <<data, batch, todo>>
        /\ \A q \in Callers \ {p} : pc'[q] = pc[q]
    BY <1>9 DEF CheckMismatch, Fail
  <2>3. \A q \in Callers, id \in Ids : q # p \/ id \notin B => (Ahead(q, id)' <=> Ahead(q, id))
    BY <2>2 DEF Ahead
  <2>4. \A id \in B : Ahead(p, id) /\ ~Ahead(p, id)'
    BY <2>2 DEF Ahead
  <2>5. \A id \in B : held[p][id] # Absent /\ data[id] # Absent /\ data[id].v \in Nat
    BY <2>2 DEF BatchHeld, LoopsMatch, ReadIsCurrent, EntityMap, Entity
  <2>6. \A id \in B : data[id].marks \subseteq held'[p][id].marks
    BY <2>1, <2>4, <2>5
  <2>7. \A q \in Callers, id \in Ids : q # p \/ id \notin B => held'[q][id] = held[q][id]
    BY <2>1
  <2> HIDE DEF B
  <2> QED BY <2>1, <2>2, <2>3, <2>4, <2>5, <2>6, <2>7
<1>10. ASSUME NEW p \in Callers, NEW i \in Ids, Put(p, i)
      PROVE  NeverBehind'
  <2>1. /\ pc[p] = "put" /\ i \in todo[p] /\ UNCHANGED <<held, batch>>
        /\ data' = [data EXCEPT ![i] = held[p][i]]
        /\ \A q \in Callers \ {p} : pc'[q] = pc[q] /\ todo'[q] = todo[q]
        /\ \/ todo[p] = {i} /\ pc'[p] = "unlock"
           \/ todo'[p] = todo[p] \ {i} /\ pc'[p] = "put"
    BY <1>10 DEF Put, Round
  <2>2. \A q \in Callers, id \in Ids : q # p \/ id # i => (Ahead(q, id)' <=> Ahead(q, id))
    BY <2>1 DEF Ahead
  <2>3. Ahead(p, i) /\ ~Ahead(p, i)' /\ \A q \in Callers \ {p} : ~Ahead(q, i)
    BY <2>1 DEF Ahead, MutualExclusion, Critical
  <2>4. held[p][i] # Absent /\ held[p][i].v \in Nat /\ data'[i] = held[p][i]
    BY <2>1 DEF BatchHeld, LoopsMatch, EntityMap, Entity
  <2>5. ASSUME NEW q \in Callers \ {p}, held[q][i] # Absent
        PROVE  held[q][i].v < held[p][i].v
    <3>1. data[i] # Absent
      BY <2>1, <2>5 DEF LoopsMatch, ReadIsCurrent, FreshIsUnknown
    <3>2. held[p][i].v > data[i].v /\ held[q][i].v <= data[i].v
      BY <2>3, <2>4, <2>5, <3>1
    <3>3. data[i].v \in Nat /\ held[q][i].v \in Nat
      BY <2>5, <3>1 DEF EntityMap, Entity
    <3> QED BY <2>4, <3>2, <3>3
  <2>6. ASSUME NEW q \in Callers, held[q][i] # Absent
        PROVE  /\ held[q][i].v <= held[p][i].v
               /\ held[q][i].v = held[p][i].v => held[p][i].marks \subseteq held[q][i].marks
    <3>1. CASE q = p
      BY <2>4, <3>1
    <3>2. CASE q # p
      <4>1. held[q][i].v < held[p][i].v /\ held[q][i].v \in Nat
        BY <2>5, <2>6, <3>2 DEF EntityMap, Entity
      <4> QED BY <2>4, <4>1
    <3> QED BY <3>1, <3>2
  <2>7. \A q \in Callers : ~Ahead(q, i)'
    BY <2>2, <2>3, <2>1 DEF Ahead
  <2>8. \A id \in Ids \ {i} : data'[id] = data[id]
    BY <2>1
  <2> QED BY <2>1, <2>2, <2>4, <2>6, <2>7, <2>8
<1>11. ASSUME NEW p \in Callers, NEW i \in Ids, Del(p, i)
      PROVE  NeverBehind'
  <2>1. /\ data' = [data EXCEPT ![i] = Absent] /\ UNCHANGED <<held, batch>>
        /\ pc[p] = "del" /\ pc'[p] \in {"del", "unlock"}
        /\ \A q \in Callers \ {p} : pc'[q] = pc[q] /\ todo'[q] = todo[q]
    BY <1>11 DEF Del, Round
  <2>2. \A q \in Callers, id \in Ids : Ahead(q, id)' <=> Ahead(q, id)
    BY <2>1 DEF Ahead
  <2> QED BY <2>1, <2>2 DEF EntityMap
<1>12. ASSUME NEW p \in Callers, Return(p)
      PROVE  NeverBehind'
  <2>1. /\ pc[p] = "unlock" /\ pc'[p] = "idle" /\ UNCHANGED data
        /\ \A q \in Callers \ {p} : pc'[q] = pc[q] /\ todo'[q] = todo[q] /\ batch'[q] = batch[q]
        /\ \A q \in Callers \ {p} : held'[q] = held[q]
    BY <1>12 DEF Return
  <2>2. \A q \in Callers, id \in Ids : Ahead(q, id)' <=> Ahead(q, id)
    BY <2>1 DEF Ahead
  <2>3. ASSUME NEW id \in Ids, held'[p][id] # Absent
        PROVE  held'[p][id] = data[id] \/ held'[p][id] = held[p][id]
    BY <1>12, <2>3 DEF Return, ReadIsCurrent
  <2>4. ~\E id \in Ids : Ahead(p, id)
    BY <2>1 DEF Ahead
  <2>5. \A id \in Ids : data[id] # Absent => data[id].v <= data[id].v
    BY DEF EntityMap, Entity
  <2> QED BY <2>1, <2>2, <2>3, <2>4, <2>5
<1>13. CASE UNCHANGED vars
  BY <1>13 DEF vars, Ahead
<1>14. ASSUME NEW p \in Callers, Start(p) PROVE NeverBehind'
  <2> HIDE DEF NeverBehind, SusInv
  <2>1. CASE CallCreate(p)
    BY <2>1, <1>1 DEF CallCreate
  <2>2. ASSUME NEW B \in SUBSET Ids, CallRead(p, B) \/ CallDelete(p, B) PROVE NeverBehind'
    BY <2>2, <1>1 DEF CallRead, CallDelete
  <2>3. ASSUME NEW B \in SUBSET Ids, CallUpdate(p, B) PROVE NeverBehind'
    <3>1. \A id \in B : held[p][id] # Absent
      BY <2>3 DEF CallUpdate
    <3>2. /\ Marked(p, B) \in EntityMap
         /\ \A id \in Ids : /\ Marked(p, B)[id] # Absent <=> held[p][id] # Absent
                            /\ Marked(p, B)[id].v = held[p][id].v
                            /\ held[p][id].marks \subseteq Marked(p, B)[id].marks
      BY <3>1, MarkedFacts
    <3> QED BY <2>3, <3>1, <3>2, <1>1 DEF CallUpdate
  <2> QED BY <1>14, <2>1, <2>2, <2>3 DEF Start
<1>15. ASSUME NEW p \in Callers, MarshalFault(p) \/ \E i \in Ids : PutFault(p, i) PROVE FALSE
  BY <1>15 DEF MarshalFault, PutFault
<1> QED
  BY <1>2, <1>3, <1>4, <1>5, <1>6, <1>7, <1>8, <1>9, <1>10, <1>11, <1>12, <1>13, <1>14, <1>15
  DEF Next, Step


\* The inductive invariant behind the next theorems: as long as putMulti does
\* not fail half way, the store is never behind a caller.
THEOREM SequentialStoreInvariant == PutsSucceed => (Spec => []SequentialInv)
<1> SUFFICES ASSUME PutsSucceed PROVE Spec => []SequentialInv
  OBVIOUS
<1>1. Init => SequentialInv
  BY DEF Init, Nothing, SequentialInv, NeverBehind, FreshIsUnknown, PutIsStored
<1>2. /\ TypeOK /\ SusInv /\ TypeOK' /\ SusInv' /\ SequentialInv /\ [Next]_vars
      => SequentialInv'
  BY FreshStep, PutStoredStep, NeverBehindStep DEF SequentialInv
<1> QED BY <1>1, <1>2, TypeAndLocking, PTL DEF Spec

\* A version identifies a state: whoever holds an entity at the stored version
\* holds every change the store has, for any number of callers and entities.
THEOREM VersionsAreStates == PutsSucceed => (Spec => []VersionIdentifiesState)
<1> SUFFICES ASSUME PutsSucceed PROVE Spec => []VersionIdentifiesState
  OBVIOUS
<1>1. TypeOK /\ SequentialInv => VersionIdentifiesState
  <2> SUFFICES ASSUME TypeOK, NeverBehind, NEW p \in Callers, NEW id \in Ids,
                      held[p][id] # Absent, data[id] # Absent, held[p][id].v = data[id].v
               PROVE  data[id].marks \subseteq held[p][id].marks
    BY DEF VersionIdentifiesState, SequentialInv
  <2>1. held[p][id].v \in Nat /\ data[id].v \in Nat
    BY DEF TypeOK, EntityMap, Entity
  <2> QED BY <2>1 DEF NeverBehind
<1> QED BY <1>1, SequentialStoreInvariant, TypeCorrect, PTL

\* A create or an update that reports success is in the store.
THEOREM SuccessIsStored == PutsSucceed => (Spec => []AcceptedUpdateIsStored)
<1> SUFFICES ASSUME PutsSucceed PROVE Spec => []AcceptedUpdateIsStored
  OBVIOUS
<1>1. TypeOK /\ SequentialInv => AcceptedUpdateIsStored
  BY DEF TypeOK, SequentialInv, PutIsStored, AcceptedUpdateIsStored
<1> QED BY <1>1, SequentialStoreInvariant, TypeCorrect, PTL

\* A put writes the version after the stored one, with every stored change.
LEMMA UpdateStep ==
  ASSUME TypeOK, SusInv, SequentialInv, [Next]_vars,
         NEW id \in Ids, data[id] # Absent, data'[id] # Absent
  PROVE  /\ data[id].marks \subseteq data'[id].marks
         /\ data'[id].v \in {data[id].v, data[id].v + 1}
<1>1. CASE data' = data
  BY <1>1
<1>2. CASE data' # data
  <2>1. PICK p \in Callers, i \in Ids : Put(p, i) \/ Del(p, i)
    BY <1>2, OnlyPutAndDelWrite
  <2>2. CASE data'[id] = data[id]
    BY <2>2
  <2>3. CASE data'[id] # data[id]
    <3>1. Put(p, id) /\ data'[id] = held[p][id]
      BY <2>1, <2>3 DEF Put, Del, TypeOK, EntityMap
    <3>2. op[p] = "update" /\ pc[p] = "put" /\ id \in todo[p]
      BY <3>1 DEF Put, SusInv, LoopsMatch, SequentialInv, FreshIsUnknown
    <3>3. held[p][id].v = data[id].v + 1
      BY <3>2 DEF SusInv, LoopsMatch, ReadIsCurrent, CheckedIsBumped
    <3>4. held[p][id] # Absent /\ Ahead(p, id)
      BY <3>2 DEF SusInv, LoopsMatch, BatchHeld, Ahead
    <3> QED BY <3>1, <3>3, <3>4 DEF SequentialInv, NeverBehind
  <2> QED BY <2>2, <2>3
<1> QED BY <1>1, <1>2

\* No update is lost, whatever the interleaving of any number of goroutines.
THEOREM UpdatesAreKept == PutsSucceed => (Spec => NoLostUpdate)
<1> SUFFICES ASSUME PutsSucceed PROVE Spec => NoLostUpdate
  OBVIOUS
<1>1. TypeOK /\ SusInv /\ SequentialInv /\ [Next]_vars =>
        [\A id \in Ids :
           data[id] # Absent /\ data'[id] # Absent =>
             /\ data[id].marks \subseteq data'[id].marks
             /\ data'[id].v \in {data[id].v, data[id].v + 1}]_vars
  BY UpdateStep
<1> QED BY <1>1, SequentialStoreInvariant, TypeAndLocking, PTL DEF Spec, NoLostUpdate

-----------------------------------------------------------------------------
(* The locked loops implement the sequential store.                        *)

NothingFailsHalfWay == Faults \cap {"put", "marshal", "del"} = {}

\* Outside the put and delete loops the callers see what the back end holds.
LEMMA ViewIsData ==
  ASSUME TypeOK, mtx = Free \/ pc[mtx] \notin {"put", "del"}
  PROVE  Visible = data
BY DEF TypeOK, EntityMap, Visible

\* ... and so after a step.
LEMMA NextViewIsData ==
  ASSUME TypeOK', mtx' = Free \/ pc'[mtx'] \notin {"put", "del"}
  PROVE  Visible' = data'
BY DEF TypeOK, EntityMap, Visible

\* A caller that is not in a put or delete loop before or after its step, and
\* that leaves the data and the mutex alone, does not change the view.
LEMMA BystanderKeepsView ==
  ASSUME TypeOK, NEW p \in Callers, UNCHANGED <<data, mtx>>,
         pc[p] \notin {"put", "del"}, pc'[p] \notin {"put", "del"},
         \A q \in Callers \ {p} : pc'[q] = pc[q] /\ todo'[q] = todo[q] /\ held'[q] = held[q]
  PROVE  Visible' = Visible
<1>1. mtx \in Callers \cup {Free} /\ Free \notin Callers
  BY SusAssumption DEF TypeOK
<1>2. CASE mtx = p
  BY <1>2 DEF Visible
<1>3. CASE mtx \in Callers \ {p}
  BY <1>3 DEF Visible
<1>4. CASE mtx = Free
  BY <1>4 DEF Visible
<1> QED BY <1>1, <1>2, <1>3, <1>4

\* Each step is a step of the sequential store or leaves its view alone: a
\* create takes effect when its ids are made, an update when its last version
\* has been checked, a delete when it gets the mutex.
LEMMA RefinementStep ==
  ASSUME TypeOK, TypeOK', SusInv, SequentialInv, [Next]_vars, NothingFailsHalfWay
  PROVE  [Abstract!Next]_<<Visible, issued>>
<1> DEFINE Goal == [Abstract!Next]_<<Visible, issued>>
<1> USE SusAssumption
<1>1. ASSUME NEW p \in Callers, Start(p) PROVE Goal
  <2>1. /\ UNCHANGED <<data, issued, mtx>>
        /\ pc[p] = "idle" /\ pc'[p] = "lock"
        /\ \A q \in Callers \ {p} : pc'[q] = pc[q] /\ todo'[q] = todo[q] /\ held'[q] = held[q]
    BY <1>1 DEF Start, CallCreate, CallRead, CallUpdate, CallDelete, Call, TypeOK
  <2> QED BY <2>1, BystanderKeepsView
<1>2. ASSUME NEW p \in Callers, Lock(p) PROVE Goal
  <2>1. Visible = data
    BY <1>2, ViewIsData DEF Lock
  <2>2. UNCHANGED <<data, issued, todo>> /\ mtx' = p /\ pc'[p] = FirstStep(op[p])
    BY <1>2 DEF Lock, TypeOK
  <2>3. CASE op[p] # "delete"
    <3>1. pc'[p] \notin {"put", "del"}
      BY <2>2, <2>3 DEF FirstStep
    <3> QED BY <2>1, <2>2, <3>1, NextViewIsData
  <2>4. CASE op[p] = "delete"
    <3>1. pc'[p] = "del"
      BY <2>2, <2>4 DEF FirstStep
    <3>2. Visible' = [id \in Ids |-> IF id \in todo[p] THEN Absent ELSE data[id]]
      BY <2>2, <3>1 DEF Visible
    <3>3. todo[p] \in SUBSET Ids
      BY DEF TypeOK
    <3>4. Abstract!Delete(todo[p])
      BY <2>1, <2>2, <3>2 DEF Abstract!Delete
    <3> QED BY <3>3, <3>4 DEF Abstract!Next
  <2> QED BY <2>3, <2>4
<1>3. ASSUME NEW p \in Callers, Generate(p) PROVE Goal
  <2>1. mtx = p /\ mtx' = p /\ pc[p] = "gen" /\ pc'[p] = "put" /\ UNCHANGED data
    BY <1>3 DEF Generate, SusInv, MutualExclusion, Critical, TypeOK
  <2>2. Visible = data
    BY <2>1, ViewIsData
  <2>3. PICK B \in SUBSET (Ids \ issued) :
          /\ issued' = issued \cup B
          /\ todo' = [todo EXCEPT ![p] = B]
          /\ held' = [held EXCEPT ![p] =
                        [id \in Ids |-> IF id \in B THEN [v |-> 0, marks |-> {}]
                                                    ELSE held[p][id]]]
    BY <1>3 DEF Generate
  <2>4. todo'[p] = B /\ \A id \in B : held'[p][id] = [v |-> 0, marks |-> {}]
    BY <2>3 DEF TypeOK
  <2>5. Visible' = [id \in Ids |-> IF id \in B THEN held'[p][id] ELSE data[id]]
    BY <2>1, <2>4 DEF Visible
  <2>6. Abstract!Create(B)
    BY <2>2, <2>3, <2>4, <2>5 DEF Abstract!Create
  <2> QED BY <2>6 DEF Abstract!Next
<1>4. ASSUME NEW p \in Callers, NEW i \in Ids, Get(p, i) \/ GetMissing(p, i) PROVE Goal
  <2>1. /\ UNCHANGED <<data, issued, mtx>>
        /\ pc[p] = "get" /\ pc'[p] \in {"get", "check", "unlock"}
        /\ \A q \in Callers \ {p} : pc'[q] = pc[q] /\ todo'[q] = todo[q] /\ held'[q] = held[q]
    BY <1>4 DEF Get, GetMissing, Fail, Round, TypeOK
  <2> QED BY <2>1, BystanderKeepsView
<1>5. ASSUME NEW p \in Callers, NEW i \in Ids, CheckMatch(p, i) PROVE Goal
  <2>1. /\ UNCHANGED <<data, issued, mtx, batch>> /\ mtx = p
        /\ pc[p] = "check" /\ op[p] = "update" /\ i \in todo[p] /\ old[p][i].v = held[p][i].v
    BY <1>5 DEF CheckMatch, SusInv, LoopsMatch, MutualExclusion, Critical
  <2>2. \A q \in Callers \ {p} : pc'[q] = pc[q] /\ todo'[q] = todo[q] /\ held'[q] = held[q]
    <3>1. \A q \in Callers \ {p} : held'[q] = held[q]
      BY <1>5, MatchBumps DEF SusInv
    <3>2. \A q \in Callers \ {p} : pc'[q] = pc[q] /\ todo'[q] = todo[q]
      BY <1>5 DEF CheckMatch, Round, TypeOK
    <3> QED BY <3>1, <3>2
  <2>3. CASE todo[p] # {i}
    <3>1. pc'[p] = "check"
      BY <1>5, <2>3 DEF CheckMatch, Round
    <3> QED BY <2>1, <2>2, <3>1, BystanderKeepsView
  <2>4. CASE todo[p] = {i}
    <3>1. pc'[p] = "put" /\ todo'[p] = batch[p]
      BY <1>5, <2>4 DEF CheckMatch, Round, TypeOK
    <3>2. Visible = data
      BY <2>1, ViewIsData
    <3>3. Visible' = [id \in Ids |-> IF id \in batch[p] THEN held'[p][id] ELSE data[id]]
      BY <2>1, <3>1 DEF Visible
    <3>4. /\ held'[p][i].v = held[p][i].v + 1 /\ held'[p][i].marks = held[p][i].marks
          /\ held'[p][i] # Absent
          /\ \A id \in Ids \ {i} : held'[p][id] = held[p][id]
      BY <1>5, MatchBumps DEF SusInv
    <3>5. ASSUME NEW id \in batch[p]
          PROVE  /\ data[id] # Absent /\ held'[p][id] # Absent
                 /\ held'[p][id].v = data[id].v + 1
                 /\ data[id].marks \subseteq held'[p][id].marks
      <4>1. old[p][id] = data[id] /\ data[id] # Absent /\ held[p][id] # Absent /\ id \in Ids
        BY <2>1 DEF SusInv, LoopsMatch, BatchHeld, ReadIsCurrent, TypeOK
      <4>2. data[id].v \in Nat
        BY <4>1 DEF TypeOK, EntityMap, Entity
      <4>3. CASE id = i
        <5>1. ~Ahead(p, i)
          BY <2>1 DEF Ahead
        <5>2. held[p][i].v = data[i].v /\ data[i].marks \subseteq held[p][i].marks
          BY <2>1, <4>1, <4>3, <5>1 DEF SequentialInv, NeverBehind
        <5> QED BY <3>4, <4>1, <4>3, <5>2
      <4>4. CASE id # i
        <5>1. Ahead(p, id)
          BY <2>1, <2>4, <4>4 DEF Ahead
        <5>2. data[id].marks \subseteq held[p][id].marks
          BY <4>1, <5>1 DEF SequentialInv, NeverBehind
        <5>3. held[p][id].v = data[id].v + 1
          BY <2>1, <2>4, <4>1, <4>4 DEF SusInv, CheckedIsBumped
        <5> QED BY <3>4, <4>1, <4>4, <5>2, <5>3
      <4> QED BY <4>3, <4>4
    <3>6. Visible' \in [Ids -> Entity \cup {Absent}]
      BY <3>3 DEF TypeOK, EntityMap
    <3>7. batch[p] \in SUBSET Ids
      BY DEF TypeOK
    <3>8. Abstract!Update(batch[p])
      BY <2>1, <3>2, <3>3, <3>5, <3>6, <3>7 DEF Abstract!Update, Abstract!Entity, Entity
    <3> QED BY <3>7, <3>8 DEF Abstract!Next
  <2> QED BY <2>3, <2>4
<1>6. ASSUME NEW p \in Callers, NEW i \in Ids, CheckMismatch(p, i) PROVE Goal
  <2>1. /\ UNCHANGED <<data, issued, mtx>>
        /\ pc[p] = "check" /\ pc'[p] = "unlock"
        /\ \A q \in Callers \ {p} : pc'[q] = pc[q] /\ todo'[q] = todo[q] /\ held'[q] = held[q]
    BY <1>6 DEF CheckMismatch, Fail, TypeOK
  <2> QED BY <2>1, BystanderKeepsView
<1>7. ASSUME NEW p \in Callers, NEW i \in Ids, Put(p, i) PROVE Goal
  <2>1. /\ UNCHANGED <<issued, mtx, held>> /\ mtx = p /\ pc[p] = "put" /\ i \in todo[p]
        /\ data' = [data EXCEPT ![i] = held[p][i]]
        /\ \/ todo[p] = {i} /\ pc'[p] = "unlock"
           \/ todo'[p] = todo[p] \ {i} /\ pc'[p] = "put"
    BY <1>7 DEF Put, Round, SusInv, MutualExclusion, Critical, TypeOK
  <2>2. Visible = [id \in Ids |-> IF id \in todo[p] THEN held[p][id] ELSE data[id]]
    BY <2>1 DEF Visible
  <2>3. CASE todo[p] = {i} /\ pc'[p] = "unlock"
    <3>1. Visible' = data'
      BY <2>1, <2>3, NextViewIsData
    <3>2. Visible \in [Ids -> Entity \cup {Absent}] /\ data' \in [Ids -> Entity \cup {Absent}]
      BY <2>2 DEF TypeOK, EntityMap
    <3>3. \A id \in Ids : Visible[id] = data'[id]
      BY <2>1, <2>2, <2>3 DEF TypeOK, EntityMap
    <3> QED BY <2>1, <3>1, <3>2, <3>3
  <2>4. CASE todo'[p] = todo[p] \ {i} /\ pc'[p] = "put"
    <3>1. Visible' = [id \in Ids |-> IF id \in todo[p] \ {i} THEN held[p][id] ELSE data'[id]]
      BY <2>1, <2>4 DEF Visible
    <3>2. \A id \in Ids : data'[id] = IF id = i THEN held[p][i] ELSE data[id]
      BY <2>1 DEF TypeOK, EntityMap
    <3> QED BY <2>1, <2>2, <3>1, <3>2
  <2> QED BY <2>1, <2>3, <2>4
<1>8. ASSUME NEW p \in Callers, NEW i \in Ids, Del(p, i) PROVE Goal
  <2>1. /\ UNCHANGED <<issued, mtx, held>> /\ mtx = p /\ pc[p] = "del" /\ i \in todo[p]
        /\ data' = [data EXCEPT ![i] = Absent]
        /\ \/ todo[p] = {i} /\ pc'[p] = "unlock"
           \/ todo'[p] = todo[p] \ {i} /\ pc'[p] = "del"
    BY <1>8 DEF Del, Round, SusInv, MutualExclusion, Critical, TypeOK
  <2>2. Visible = [id \in Ids |-> IF id \in todo[p] THEN Absent ELSE data[id]]
    BY <2>1 DEF Visible
  <2>3. CASE todo[p] = {i} /\ pc'[p] = "unlock"
    <3>1. Visible' = data'
      BY <2>1, <2>3, NextViewIsData
    <3>2. Visible \in [Ids -> Entity \cup {Absent}] /\ data' \in [Ids -> Entity \cup {Absent}]
      BY <2>2 DEF TypeOK, EntityMap
    <3>3. \A id \in Ids : Visible[id] = data'[id]
      BY <2>1, <2>2, <2>3 DEF TypeOK, EntityMap
    <3> QED BY <2>1, <3>1, <3>2, <3>3
  <2>4. CASE todo'[p] = todo[p] \ {i} /\ pc'[p] = "del"
    <3>1. Visible' = [id \in Ids |-> IF id \in todo[p] \ {i} THEN Absent ELSE data'[id]]
      BY <2>1, <2>4 DEF Visible
    <3>2. \A id \in Ids : data'[id] = IF id = i THEN Absent ELSE data[id]
      BY <2>1 DEF TypeOK, EntityMap
    <3> QED BY <2>1, <2>2, <3>1, <3>2
  <2> QED BY <2>1, <2>3, <2>4
<1>9. ASSUME NEW p \in Callers, Return(p) PROVE Goal
  <2>1. mtx = p /\ pc[p] = "unlock" /\ mtx' = Free /\ UNCHANGED <<data, issued>>
    BY <1>9 DEF Return, SusInv, MutualExclusion, Critical
  <2> QED BY <2>1, ViewIsData, NextViewIsData
<1>10. CASE UNCHANGED vars
  BY <1>10 DEF vars, Visible
<1>11. ASSUME NEW p \in Callers, MarshalFault(p) \/ DelFault(p) \/ \E i \in Ids : PutFault(p, i)
       PROVE  FALSE
  BY <1>11 DEF MarshalFault, DelFault, PutFault, NothingFailsHalfWay
<1>12. ASSUME NEW p \in Callers, GetFault(p) PROVE Goal
  <2>1. /\ UNCHANGED <<data, issued, mtx>>
        /\ pc[p] = "get" /\ pc'[p] = "unlock"
        /\ \A q \in Callers \ {p} : pc'[q] = pc[q] /\ todo'[q] = todo[q] /\ held'[q] = held[q]
    BY <1>12 DEF GetFault, Fail, TypeOK
  <2> QED BY <2>1, BystanderKeepsView
<1> QED
  BY <1>1, <1>2, <1>3, <1>4, <1>5, <1>6, <1>7, <1>8, <1>9, <1>10, <1>11,
     <1>12 DEF Next, Step

\* As long as no loop fails half way, package sus implements the sequential
\* store: its multi-entity operations are atomic, whatever interleaves.
THEOREM SusImplementsSequentialStore == NothingFailsHalfWay => (Spec => ImplementsSequentialStore)
<1> SUFFICES ASSUME NothingFailsHalfWay PROVE Spec => ImplementsSequentialStore
  OBVIOUS
<1>1. PutsSucceed
  BY DEF NothingFailsHalfWay, PutsSucceed
<1>2. Init => Abstract!Init
  BY SusAssumption DEF Init, Nothing, Visible, Abstract!Init
<1>3. /\ TypeOK /\ SusInv /\ SequentialInv /\ TypeOK' /\ [Next]_vars
      => [Abstract!Next]_<<Visible, issued>>
  BY RefinementStep
<1> QED
  BY <1>1, <1>2, <1>3, TypeAndLocking, SequentialStoreInvariant, PTL
  DEF Spec, ImplementsSequentialStore, Abstract!Spec

-----------------------------------------------------------------------------
(* No call keeps the mutex.                                                *)

\* A round takes its id off the loop, or ends it and begins the next over the whole batch.
LEMMA RoundCounts ==
  ASSUME TypeOK, NEW p \in Callers, NEW id \in todo[p], NEW next \in PCs, Round(p, id, next)
  PROVE  /\ \A q \in Callers \ {p} : pc'[q] = pc[q] /\ todo'[q] = todo[q]
         /\ \/ pc'[p] = next /\ todo'[p] = batch[p]
            \/ pc'[p] = pc[p] /\ todo'[p] = todo[p] \ {id} /\ todo'[p] # {}
<1>1. CASE todo[p] = {id}
  BY <1>1 DEF Round, TypeOK
<1>2. CASE todo[p] # {id}
  <2>1. todo[p] \ {id} # {}
    BY <1>2
  <2> QED
    BY <1>2, <2>1 DEF Round, TypeOK
<1> QED
  BY <1>1, <1>2

\* A round of the loop at "here", after which it goes on, or the one at "next" begins.
RoundEnds(p, here, next) ==
  /\ pc[p] = here
  /\ \A q \in Callers \ {p} : pc'[q] = pc[q] /\ todo'[q] = todo[q]
  /\ \/ pc'[p] = next /\ todo'[p] = batch[p]
     \/ pc'[p] = here /\ todo'[p] # {} /\ todo'[p] \subseteq todo[p] /\ todo'[p] # todo[p]
  /\ UNCHANGED <<mtx, op>> /\ batch'[p] = batch[p] /\ todo[p] # {}
\* It leaves the function with an error.
Leaps(p, next) ==
  /\ pc[p] \in {"get", "check", "put", "del"} /\ next = "unlock"
  /\ pc' = [pc EXCEPT ![p] = next]
  /\ UNCHANGED <<mtx, op, todo>>

\* Each step of a transaction function is a round, a way out with an error, or one of these two.
LEMMA StepMoves ==
  ASSUME TypeOK, NEW p \in Callers, Step(p)
  PROVE  \/ RoundEnds(p, "get", IF op[p] = "read" THEN "unlock" ELSE "check")
         \/ RoundEnds(p, "check", "put")
         \/ RoundEnds(p, "put", "unlock")
         \/ RoundEnds(p, "del", "unlock")
         \/ Leaps(p, "unlock")
         \/ Generate(p)
         \/ Return(p)
<1>1. ASSUME NEW id \in Ids, Get(p, id)
      PROVE  RoundEnds(p, "get", IF op[p] = "read" THEN "unlock" ELSE "check")
  <2>1. id \in todo[p] /\ Round(p, id, IF op[p] = "read" THEN "unlock" ELSE "check")
    BY <1>1 DEF Get
  <2>2. (IF op[p] = "read" THEN "unlock" ELSE "check") \in PCs
    OBVIOUS
  <2> QED
    BY <1>1, <2>1, <2>2, RoundCounts DEF Get, RoundEnds, TypeOK
<1>2. ASSUME NEW id \in Ids, CheckMatch(p, id) PROVE RoundEnds(p, "check", "put")
  BY <1>2, RoundCounts DEF CheckMatch, RoundEnds, TypeOK
<1>3. ASSUME NEW id \in Ids, Put(p, id) \/ PutFault(p, id) PROVE RoundEnds(p, "put", "unlock")
  BY <1>3, RoundCounts DEF Put, PutFault, RoundEnds, TypeOK
<1>4. ASSUME NEW id \in Ids, Del(p, id) PROVE RoundEnds(p, "del", "unlock")
  BY <1>4, RoundCounts DEF Del, RoundEnds, TypeOK
<1>5. ASSUME \/ GetFault(p) \/ MarshalFault(p) \/ DelFault(p)
             \/ \E id \in Ids : GetMissing(p, id) \/ CheckMismatch(p, id)
      PROVE  Leaps(p, "unlock")
  BY <1>5 DEF GetFault, MarshalFault, DelFault, GetMissing, CheckMismatch, Fail, Leaps
<1> QED
  BY <1>1, <1>2, <1>3, <1>4, <1>5 DEF Step

\* A loop begins over a batch that has ids, and is left when there are none left.
LEMMA WorkStep ==
  ASSUME TypeOK, SusInv, HolderHasWork, [Next]_vars
  PROVE  HolderHasWork'
<1> USE SusAssumption DEF TypeOK, HolderHasWork, Critical
<1>1. ASSUME NEW p \in Callers, NEW o \in Ops, NEW B \in SUBSET Ids, NEW h,
             Call(p, o, B, h), o # "create" => B # {}
      PROVE  HolderHasWork'
  BY <1>1 DEF Call
<1>2. ASSUME NEW p \in Callers, Start(p) PROVE HolderHasWork'
  BY <1>1, <1>2 DEF Start, CallCreate, CallRead, CallUpdate, CallDelete
<1>3. ASSUME NEW p \in Callers, Lock(p) PROVE HolderHasWork'
  BY <1>3 DEF Lock, FirstStep
<1>4. ASSUME NEW p \in Callers, Generate(p) PROVE HolderHasWork'
  BY <1>4 DEF Generate
<1>5. ASSUME NEW p \in Callers, Return(p) PROVE HolderHasWork'
  BY <1>5 DEF Return
<1>6. ASSUME NEW p \in Callers, Leaps(p, "unlock") PROVE HolderHasWork'
  BY <1>6 DEF Leaps
<1>7. ASSUME NEW p \in Callers, NEW here \in Critical, NEW next \in Critical \ {"gen"},
             here \in {"get", "check", "put", "del"}, RoundEnds(p, here, next)
      PROVE  HolderHasWork'
  <2>1. batch[p] # {}
    BY <1>7 DEF RoundEnds, SusInv, LoopsMatch
  <2>2. pc'[p] \in Critical \ {"gen"} /\ todo'[p] # {} /\ mtx' = mtx /\ op' = op
    BY <1>7, <2>1 DEF RoundEnds
  <2>3. \A q \in Callers \ {p} : pc'[q] = pc[q] /\ todo'[q] = todo[q]
    BY <1>7 DEF RoundEnds
  <2>4. mtx' # Free => pc'[mtx'] \in Critical
    BY <2>2, <2>3
  <2> QED
    BY <2>2, <2>3, <2>4
<1>8. ASSUME NEW p \in Callers, Step(p) PROVE HolderHasWork'
  BY <1>4, <1>5, <1>6, <1>7, <1>8, StepMoves
<1>9. CASE UNCHANGED vars
  BY <1>9 DEF vars
<1> QED
  BY <1>2, <1>3, <1>8, <1>9 DEF Next

\* The loops come in one order, each over fewer ids with every round; nobody else moves them.
LEMMA RoundStep ==
  ASSUME TypeOK, SusInv, [Next]_vars, NEW p \in Callers, pc[p] \in Critical
  PROVE  \/ LoopsLeft(p)' < LoopsLeft(p)
         \/ pc'[p] = pc[p] /\ todo'[p] \subseteq todo[p] /\ todo'[p] # todo[p]
         \/ ~Step(p) /\ pc'[p] = pc[p] /\ todo'[p] = todo[p]
<1> USE DEF TypeOK, Critical
<1>1. CASE Step(p)
  <2>1. CASE RoundEnds(p, "get", IF op[p] = "read" THEN "unlock" ELSE "check")
    BY <2>1 DEF RoundEnds, LoopsLeft
  <2>2. CASE RoundEnds(p, "check", "put")
    BY <2>2 DEF RoundEnds, LoopsLeft
  <2>3. CASE RoundEnds(p, "put", "unlock") \/ RoundEnds(p, "del", "unlock")
    BY <2>3 DEF RoundEnds, LoopsLeft
  <2>4. CASE Leaps(p, "unlock")
    BY <2>4 DEF Leaps, LoopsLeft
  <2>5. CASE Generate(p) \/ Return(p)
    BY <2>5 DEF Generate, Return, LoopsLeft
  <2> QED
    BY <1>1, <2>1, <2>2, <2>3, <2>4, <2>5, StepMoves
<1>2. CASE ~Step(p)
  <2> SUFFICES pc'[p] = pc[p] /\ todo'[p] = todo[p]
    BY <1>2
  <2>1. ASSUME NEW q \in Callers, Start(q) \/ Lock(q) PROVE pc'[p] = pc[p] /\ todo'[p] = todo[p]
    BY <2>1 DEF Start, Lock, CallCreate, CallRead, CallUpdate, CallDelete, Call
  <2>2. ASSUME NEW q \in Callers, q # p, Step(q) PROVE pc'[p] = pc[p] /\ todo'[p] = todo[p]
    <3>1. ASSUME NEW here, NEW next, RoundEnds(q, here, next) \/ Leaps(q, next)
          PROVE  pc'[p] = pc[p] /\ todo'[p] = todo[p]
      BY <2>2, <3>1 DEF RoundEnds, Leaps
    <3>2. CASE Generate(q)
      BY <2>2, <3>2 DEF Generate
    <3>3. CASE Return(q)
      BY <2>2, <3>3 DEF Return
    <3> QED
      BY <2>2, <3>1, <3>2, <3>3, StepMoves
  <2>3. CASE UNCHANGED vars
    BY <2>3 DEF vars
  <2> QED
    BY <1>2, <2>1, <2>2, <2>3 DEF Next
<1> QED
  BY <1>1, <1>2

\* The mutex is never left locked, and never held by a call that has nothing to do:
\* whoever has it is inside a transaction function, with an id to visit in its loop, after
\* every error and on every way out (mutex_byte.go:64-68).
THEOREM MutexIsPassedOn == Spec => []HolderHasWork
<1>1. Init => HolderHasWork
  BY DEF Init, HolderHasWork
<1>2. TypeOK /\ SusInv /\ HolderHasWork /\ [Next]_vars => HolderHasWork'
  BY WorkStep
<1> QED
  BY <1>1, <1>2, TypeAndLocking, PTL DEF Spec

\* Inside its transaction function no call goes round in circles: each of its steps ends a
\* loop for good or takes an id off it, however the others interleave (sus.go:135-149).
THEOREM TransactionsGoForward == Spec => EveryRoundCounts
<1>1. TypeOK /\ SusInv /\ [Next]_vars =>
        [\A p \in Callers :
           pc[p] \in Critical =>
             \/ LoopsLeft(p)' < LoopsLeft(p)
             \/ pc'[p] = pc[p] /\ todo'[p] \subseteq todo[p] /\ todo'[p] # todo[p]
             \/ ~Step(p) /\ pc'[p] = pc[p] /\ todo'[p] = todo[p]]_vars
  BY RoundStep
<1> QED
  BY <1>1, TypeAndLocking, PTL DEF Spec, EveryRoundCounts
=============================================================================
