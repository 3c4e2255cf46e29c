------------------------------ MODULE OakProofs ------------------------------
(***************************************************************************)
(* Proofs that the handlers of package oak keep the properties of OakProps,*)
(* for any numbers of clients, of requests at a time, of entities, of users*)
(* and of acts.  The argument is about the versions: a copy of an entity   *)
(* that has the stored version is the stored entity, so an Update that     *)
(* goes through adds one change to the stored entity and undoes none.      *)
(***************************************************************************)
EXTENDS OakProps, TLAPS

-----------------------------------------------------------------------------
(* The application's methods.                                              *)

LEMMA NewIsEntity == \A u \in Users : NewEntity(u) \in Entity
  BY DEF NewEntity, Entity

LEMMA KickedIsEntity ==
  ASSUME NEW e \in Entity, NEW f \in Kicked(e)
  PROVE  /\ f \in Entity
         /\ f.v = e.v /\ f.known = e.known /\ f.here = e.here /\ f.done = e.done
  BY DEF Kicked, Entity

LEMMA RegisteredIsEntity ==
  ASSUME NEW e \in Entity, NEW u \in Users, NEW f \in Registered(e, u)
  PROVE  /\ f \in Entity /\ u \notin e.known
         /\ f.v = e.v /\ f.known = e.known \cup {u} /\ f.here = e.here \cup {u} /\ f.done = e.done
<1>1. /\ u \notin e.known
      /\ f = [e EXCEPT !.known = @ \cup {u}, !.here = @ \cup {u}]
  BY DEF Registered
<1> QED
  BY <1>1 DEF Entity

LEMMA UnregisteredIsEntity ==
  ASSUME NEW e \in Entity, NEW u \in Users, NEW f \in Unregistered(e, u)
  PROVE  /\ f \in Entity
         /\ f.v = e.v /\ f.known = e.known /\ f.here = e.here \ {u} /\ f.done = e.done
  BY DEF Unregistered, Entity

LEMMA PerformedIsEntity ==
  ASSUME NEW e \in Entity, NEW a \in Acts, NEW f \in Performed(e, a)
  PROVE  /\ f \in Entity
         /\ f.v = e.v /\ f.known = e.known /\ f.here = e.here /\ f.done = e.done \cup {a}
  BY DEF Performed, Entity

LEMMA BumpedIsEntity ==
  ASSUME NEW e \in Entity
  PROVE  /\ Bumped(e) \in Entity
         /\ Bumped(e).v = e.v + 1 /\ Bumped(e).known = e.known /\ Bumped(e).here = e.here
         /\ Bumped(e).done = e.done /\ Bumped(e).active = e.active
  BY DEF Bumped, Entity

-----------------------------------------------------------------------------
(* Types.                                                                  *)

LEMMA TypeInit == Init => TypeOK
  BY OakAssumption DEF Init, TypeOK, PCs, Handlers

\* What does not belong to the store or the session, in an answer.
LEMMA AnswerTypes ==
  ASSUME TypeOK, NEW w \in Workers, NEW l \in {"done", "failed"}, NEW e \in Entity \cup {None},
         Answer(w, l, e),
         db' \in [Ids -> Entity \cup {None}], issued' \subseteq Ids,
         sess' \in [Workers -> Session \cup {None}], saved' \in [Workers -> BOOLEAN]
  PROVE  TypeOK'
  BY DEF Answer, Goto, Become, request, TypeOK, PCs

LEMMA SetSessionTypes ==
  ASSUME TypeOK, NEW w \in Workers, NEW s \in Session \cup {None}, SetSession(w, s) \/ NoCookie(w)
  PROVE  sess' \in [Workers -> Session \cup {None}] /\ saved' \in [Workers -> BOOLEAN]
<1>1. CASE NoCookie(w)
  BY <1>1 DEF NoCookie, TypeOK
<1>2. CASE sess' = [sess EXCEPT ![w] = s] /\ saved' = [saved EXCEPT ![w] = TRUE]
  BY <1>2 DEF TypeOK
<1> QED
  BY <1>1, <1>2 DEF SetSession

LEMMA FailTypes ==
  ASSUME TypeOK, NEW w \in Workers, Fail(w)
  PROVE  TypeOK'
  BY AnswerTypes, SetSessionTypes DEF Fail, store, TypeOK

\* A handler that goes on, with the store as it is.
LEMMA GoesOnTypes ==
  ASSUME TypeOK, NEW w \in Workers, NEW l \in PCs, NEW e \in Entity \cup {None},
         Goto(w, l), Become(w, e) \/ UNCHANGED entity,
         id' \in [Workers -> Ids \cup {None}], tries' \in [Workers -> {0, 1}],
         UNCHANGED <<store, cookie, fate, request, sess, saved>>
  PROVE  TypeOK'
  BY DEF Goto, Become, store, request, TypeOK

\* The entity that a request has asked for.
LEMMA StoredIsEntity ==
  TypeOK /\ (\A w \in Workers : InPlace(w)) =>
    /\ \A i \in Ids : db[i] # None => db[i] \in Entity
    /\ \A w \in Workers : pc[w] \in {"fetch", "kick", "body"} => id[w] \in Ids
    /\ \A w \in Workers : pc[w] \in {"kick", "body"} => entity[w] \in Entity
    /\ \A w \in Workers : sess[w] # None =>
         /\ sess[w] \in Session /\ sess[w].user \in Users /\ sess[w].id \in Ids
         /\ sess[w].entity \in Entity
    /\ \A c \in Clients : cookie[c] # None =>
         /\ cookie[c] \in Session /\ cookie[c].user \in Users /\ cookie[c].id \in Ids
         /\ cookie[c].entity \in Entity
    /\ \A w \in Workers : op[w] = "act" => act[w] \in Acts
    /\ \A w \in Workers : pc[w] # "idle" => who[w] \in Clients
  BY DEF TypeOK, InPlace, Session, Answered

LEMMA PutTypes ==
  ASSUME TypeOK, NEW w \in Workers, NEW e \in Entity, Put(w, e)
  PROVE  db' \in [Ids -> Entity \cup {None}] /\ issued' \subseteq Ids /\ Bumped(e) \in Entity
  BY BumpedIsEntity DEF Put, TypeOK

LEMMA ServeTypes ==
  ASSUME TypeOK, \A x \in Workers : InPlace(x), NEW w \in Workers, Serve(w)
  PROVE  TypeOK'
<1> USE StoredIsEntity
<1>1. CASE CreateNew(w)
  <2>1. PICK i \in Ids \ issued, u \in Users :
          /\ issued' = issued \cup {i} /\ db' = [db EXCEPT ![i] = NewEntity(u)]
          /\ SetSession(w, [user |-> u, id |-> i, entity |-> NewEntity(u)])
    BY <1>1 DEF CreateNew
  <2>2. [user |-> u, id |-> i, entity |-> NewEntity(u)] \in Session
    BY NewIsEntity DEF Session
  <2>3. sess' \in [Workers -> Session \cup {None}] /\ saved' \in [Workers -> BOOLEAN]
    BY <2>1, <2>2, SetSessionTypes
  <2>4. db' \in [Ids -> Entity \cup {None}] /\ issued' \subseteq Ids
    BY <2>1, NewIsEntity DEF TypeOK
  <2> QED
    BY <1>1, <2>3, <2>4, AnswerTypes DEF CreateNew
<1>2. CASE CreateEngaged(w) \/ LeaveNoSession(w) \/ PollSame(w) \/ JoinSees(w)
  <2>1. PICK e \in Entity \cup {None} : Answer(w, "done", e)
    BY <1>2 DEF CreateEngaged, LeaveNoSession, PollSame, JoinSees, Body
  <2>2. (NoCookie(w) \/ SetSession(w, None)) /\ UNCHANGED <<db, issued>>
    BY <1>2 DEF CreateEngaged, LeaveNoSession, PollSame, JoinSees, store
  <2>3. db' \in [Ids -> Entity \cup {None}] /\ issued' \subseteq Ids
    BY <2>2 DEF TypeOK
  <2> QED
    BY <2>1, <2>2, <2>3, SetSessionTypes, AnswerTypes
<1>3. CASE CreateFault(w) \/ ActNoSession(w) \/ CheckFails(w) \/ FetchFails(w) \/ KickFails(w)
           \/ NotSaved(w)
  BY <1>3, FailTypes
     DEF CreateFault, ActNoSession, CheckFails, FetchFails, KickFails, NotSaved
<1>4. CASE Check(w)
  <2>1. id' \in [Workers -> Ids \cup {None}] /\ UNCHANGED <<entity, tries>> /\ Goto(w, "fetch")
        /\ UNCHANGED <<store, cookie, fate, request, sess, saved>>
    BY <1>4 DEF Check, TypeOK
  <2> QED
    BY <2>1, GoesOnTypes DEF TypeOK, PCs
<1>5. CASE Fetch(w) \/ FetchKicked(w)
  <2>1. PICK e \in Entity, l \in PCs : Become(w, e) /\ Goto(w, l)
    BY <1>5, KickedIsEntity DEF Fetch, FetchKicked, Found, PCs
  <2>2. UNCHANGED <<store, cookie, fate, request, sess, saved, id>>
        /\ tries' \in [Workers -> {0, 1}]
    BY <1>5 DEF Fetch, FetchKicked, TypeOK
  <2> QED
    BY <2>1, <2>2, GoesOnTypes DEF TypeOK
<1>6. CASE KickSaved(w)
  <2>1. db' \in [Ids -> Entity \cup {None}] /\ issued' \subseteq Ids /\ Bumped(entity[w]) \in Entity
    BY <1>6, PutTypes DEF KickSaved
  <2> QED
    BY <1>6, <2>1 DEF KickSaved, Become, Goto, request, TypeOK, PCs
<1>7. CASE KickRetry(w)
  <2>1. Become(w, None) /\ Goto(w, "fetch")
        /\ UNCHANGED <<store, cookie, fate, request, sess, saved, id>>
        /\ tries' \in [Workers -> {0, 1}]
    BY <1>7 DEF KickRetry, TypeOK
  <2> QED
    BY <2>1, GoesOnTypes DEF TypeOK, PCs
<1>8. CASE JoinSaved(w)
  <2>1. entity[w] \in Entity /\ id[w] \in Ids
    BY <1>8 DEF JoinSaved, Registers, Body
  <2>2. PICK u \in Users, e \in Entity :
          /\ e \in Registered(entity[w], u)
          /\ Put(w, e) /\ Answer(w, "done", Bumped(e))
          /\ SetSession(w, [user |-> u, id |-> id[w], entity |-> Bumped(e)])
    BY <1>8, <2>1, RegisteredIsEntity DEF JoinSaved
  <2>3. Bumped(e) \in Entity
    BY BumpedIsEntity
  <2>4. [user |-> u, id |-> id[w], entity |-> Bumped(e)] \in Session
    BY <2>1, <2>3 DEF Session
  <2>5. sess' \in [Workers -> Session \cup {None}] /\ saved' \in [Workers -> BOOLEAN]
    BY <2>2, <2>4, SetSessionTypes
  <2> QED
    BY <2>2, <2>3, <2>5, AnswerTypes, PutTypes
<1>9. CASE JoinRefused(w) \/ JoinFault(w)
  <2>1. entity[w] \in Entity
    BY <1>9 DEF JoinRefused, JoinFault, Registers, Body
  <2>2. PICK e \in Entity : Answer(w, "done", e) \/ Answer(w, "done", Bumped(e))
    BY <1>9, <2>1, RegisteredIsEntity DEF JoinRefused, JoinFault
  <2>3. Bumped(e) \in Entity
    BY BumpedIsEntity
  <2>4. NoCookie(w) /\ UNCHANGED <<db, issued>>
    BY <1>9 DEF JoinRefused, JoinFault, store
  <2>5. db' \in [Ids -> Entity \cup {None}] /\ issued' \subseteq Ids
    BY <2>4 DEF TypeOK
  <2> QED
    BY <2>2, <2>3, <2>4, <2>5, AnswerTypes, SetSessionTypes
<1>10. ASSUME NEW e \in Entity, Refresh(w, e), pc[w] = "body", sess[w] # None
       PROVE  sess' \in [Workers -> Session \cup {None}] /\ saved' \in [Workers -> BOOLEAN]
  <2>1. [user |-> sess[w].user, id |-> id[w], entity |-> e] \in Session
    BY <1>10 DEF Session
  <2> QED
    BY <1>10, <2>1, SetSessionTypes DEF Refresh
<1>11. CASE PollChanged(w)
  <2>1. entity[w] \in Entity /\ pc[w] = "body" /\ Answer(w, "done", entity[w])
    BY <1>11 DEF PollChanged, Body
  <2>2. sess' \in [Workers -> Session \cup {None}] /\ saved' \in [Workers -> BOOLEAN]
    BY <1>11, <1>10, <2>1, SetSessionTypes DEF PollChanged
  <2>3. db' \in [Ids -> Entity \cup {None}] /\ issued' \subseteq Ids
    BY <1>11 DEF PollChanged, store, TypeOK
  <2> QED
    BY <2>1, <2>2, <2>3, AnswerTypes
<1>12. CASE ActSaved(w)
  <2>1. entity[w] \in Entity /\ pc[w] = "body" /\ sess[w] # None /\ act[w] \in Acts
    BY <1>12 DEF ActSaved, Body, InPlace
  <2>2. PICK e \in Performed(entity[w], act[w]) :
          Put(w, e) /\ Answer(w, "done", Bumped(e)) /\ Refresh(w, Bumped(e))
    BY <1>12 DEF ActSaved
  <2>3. e \in Entity /\ Bumped(e) \in Entity
    BY <2>1, PerformedIsEntity, BumpedIsEntity
  <2> QED
    BY <1>10, <2>1, <2>2, <2>3, AnswerTypes, PutTypes
<1>13. CASE LeaveSaved(w)
  <2>1. entity[w] \in Entity /\ sess[w].user \in Users
    BY <1>13 DEF LeaveSaved, Body, InPlace
  <2>2. PICK e \in Unregistered(entity[w], sess[w].user) : Put(w, e)
    BY <1>13 DEF LeaveSaved
  <2>3. e \in Entity
    BY <2>1, UnregisteredIsEntity
  <2> QED
    BY <1>13, <2>2, <2>3, PutTypes, SetSessionTypes, AnswerTypes DEF LeaveSaved
<1>14. CASE Deliver(w) \/ Lose(w)
  <2>1. cookie' \in [Clients -> Session \cup {None}]
    BY <1>14 DEF Deliver, Lose, TypeOK
  <2>2. op[w] = "act" => act[w] \in Acts /\ (pc[w] = "done" => id[w] \in Ids)
    BY <1>14 DEF InPlace, TypeOK
  <2>3. fate' \in [Acts -> {"unsent", "sent", "refused"} \cup Ids]
    BY <1>14, <2>2 DEF Deliver, Lose, TypeOK
  <2> QED
    BY <1>14, <2>1, <2>3
       DEF Deliver, Lose, Over, NoCookie, Goto, Become, store, TypeOK, PCs
<1> QED
  BY <1>1, <1>2, <1>3, <1>4, <1>5, <1>6, <1>7, <1>8, <1>9, <1>11, <1>12, <1>13, <1>14 DEF Serve

LEMMA OtherTypes ==
  /\ \A w \in Workers, c \in Clients : TypeOK /\ Arrive(w, c) => TypeOK'
  /\ \A c \in Clients : TypeOK /\ Forget(c) => TypeOK'
  /\ \A i \in Ids : TypeOK /\ ClearOut(i) => TypeOK'
  /\ TypeOK /\ UNCHANGED vars => TypeOK'
<1>1. ASSUME NEW w \in Workers, NEW c \in Clients, TypeOK, Arrive(w, c) PROVE TypeOK'
  <2>1. PICK o \in Handlers, i \in Ids \cup {None}, a \in Acts \cup {None} : Send(w, c, o, i, a)
    BY <1>1 DEF Arrive, SendCreate, SendLeave, SendAct, SendJoin, SendPoll, Handlers
  <2>2. pc' \in [Workers -> PCs]
    BY <1>1 DEF Arrive, SendCreate, SendLeave, SendAct, SendJoin, SendPoll, Goto, TypeOK, PCs
  <2>3. fate' \in [Acts -> {"unsent", "sent", "refused"} \cup Ids]
    BY <1>1 DEF Arrive, SendCreate, SendLeave, SendAct, SendJoin, SendPoll, TypeOK
  <2> QED
    BY <1>1, <2>1, <2>2, <2>3 DEF Send, store, TypeOK
<1>2. ASSUME NEW c \in Clients, TypeOK, Forget(c) PROVE TypeOK'
  BY <1>2 DEF Forget, store, request, TypeOK
<1>3. ASSUME NEW i \in Ids, TypeOK, ClearOut(i) PROVE TypeOK'
  BY <1>3 DEF ClearOut, request, TypeOK
<1>4. ASSUME TypeOK, UNCHANGED vars PROVE TypeOK'
  BY <1>4 DEF vars, TypeOK
<1> QED
  BY <1>1, <1>2, <1>3, <1>4

LEMMA TypeStep == TypeOK /\ (\A w \in Workers : InPlace(w)) /\ [Next]_vars => TypeOK'
  BY ServeTypes, OtherTypes DEF Next

-----------------------------------------------------------------------------
(* What each handler holds where.                                          *)

\* Nothing that InPlace speaks of changes for the other requests.
Untouched(x) ==
  /\ pc'[x] = pc[x] /\ who'[x] = who[x] /\ op'[x] = op[x] /\ act'[x] = act[x]
  /\ entity'[x] = entity[x] /\ sess'[x] = sess[x] /\ id'[x] = id[x] /\ saved'[x] = saved[x]

LEMMA ServeTouchesOne ==
  ASSUME TypeOK, NEW w \in Workers, Serve(w) \/ \E c \in Clients : Arrive(w, c),
         NEW x \in Workers \ {w}
  PROVE  Untouched(x)
<1> USE DEF TypeOK, Untouched, Goto, Become, request
<1>1. CASE \E c \in Clients : Arrive(w, c)
  BY <1>1 DEF Arrive, SendCreate, SendLeave, SendAct, SendJoin, SendPoll, Send
<1>2. ASSUME NEW l, NEW e, Answer(w, l, e), (\E s : SetSession(w, s)) \/ NoCookie(w)
      PROVE  Untouched(x)
  BY <1>2 DEF Answer, SetSession, NoCookie
<1>3. CASE Fail(w)
  BY <1>2, <1>3 DEF Fail
<1>4. CASE CreateEngaged(w) \/ CreateNew(w) \/ LeaveNoSession(w) \/ JoinSees(w) \/ JoinSaved(w)
           \/ JoinRefused(w) \/ JoinFault(w) \/ PollSame(w) \/ PollChanged(w) \/ ActSaved(w)
           \/ LeaveSaved(w)
  <2>1. \E l, e : Answer(w, l, e)
    BY <1>4 DEF CreateEngaged, CreateNew, LeaveNoSession, JoinSees, JoinSaved, JoinRefused,
                JoinFault, PollSame, PollChanged, ActSaved, LeaveSaved
  <2>2. (\E s : SetSession(w, s)) \/ NoCookie(w)
    BY <1>4 DEF CreateEngaged, CreateNew, LeaveNoSession, JoinSees, JoinSaved, JoinRefused,
                JoinFault, PollSame, PollChanged, Refresh, ActSaved, LeaveSaved
  <2> QED
    BY <1>2, <2>1, <2>2
<1>5. CASE Check(w) \/ Fetch(w) \/ FetchKicked(w) \/ KickSaved(w) \/ KickRetry(w)
  BY <1>5 DEF Check, Fetch, FetchKicked, KickSaved, KickRetry
<1>6. CASE Deliver(w) \/ Lose(w)
  BY <1>6 DEF Deliver, Lose, Over, NoCookie
<1> QED
  BY <1>1, <1>3, <1>4, <1>5, <1>6
     DEF Serve, CreateFault, ActNoSession, CheckFails, FetchFails, KickFails, NotSaved

\* The session as a response leaves it.
LEMMA SessionSet ==
  ASSUME TypeOK, NEW w \in Workers, NEW s, SetSession(w, s) \/ NoCookie(w)
  PROVE  /\ saved'[w] \in BOOLEAN
         /\ saved'[w] => sess'[w] = s
         /\ ~saved'[w] => sess'[w] = None
  BY DEF SetSession, NoCookie, TypeOK

LEMMA AnswerInPlace ==
  ASSUME TypeOK, NEW w \in Workers, InPlace(w), pc[w] \notin {"idle", "done", "failed"},
         NEW l \in {"done", "failed"}, NEW e \in Entity \cup {None}, Answer(w, l, e),
         e # None => pc[w] = "body",
         op[w] = "act" /\ l = "done" => e # None
  PROVE  InPlace(w)'
  BY OakAssumption DEF Answer, Goto, Become, request, InPlace, Answered, TypeOK, Handlers

LEMMA ServeInPlace ==
  ASSUME TypeOK, AllInPlace, NEW w \in Workers, Serve(w)
  PROVE  InPlace(w)'
<1> USE OakAssumption, StoredIsEntity DEF AllInPlace
<1>1. CASE CreateNew(w) \/ CreateEngaged(w) \/ LeaveNoSession(w) \/ PollSame(w)
  <2>1. Answer(w, "done", None) /\ op[w] # "act" /\ pc[w] \in {"create", "check", "body"}
    BY <1>1 DEF CreateNew, CreateEngaged, LeaveNoSession, PollSame, Body, InPlace
  <2> QED
    BY <2>1, AnswerInPlace
<1>2. CASE Fail(w) /\ pc[w] \in PCs \ {"idle", "done", "failed"}
  BY <1>2, AnswerInPlace DEF Fail
<1>3. CASE JoinSees(w) \/ PollChanged(w)
  <2>1. Answer(w, "done", entity[w]) /\ pc[w] = "body" /\ entity[w] \in Entity
    BY <1>3 DEF JoinSees, PollChanged, Body
  <2> QED
    BY <2>1, AnswerInPlace
<1>4. CASE JoinSaved(w) \/ JoinRefused(w) \/ JoinFault(w)
  <2>1. entity[w] \in Entity /\ pc[w] = "body"
    BY <1>4 DEF JoinSaved, JoinRefused, JoinFault, Registers, Body
  <2>2. PICK e \in Entity : Answer(w, "done", e)
    BY <1>4, <2>1, RegisteredIsEntity, BumpedIsEntity DEF JoinSaved, JoinRefused, JoinFault
  <2> QED
    BY <2>1, <2>2, AnswerInPlace
<1>5. CASE ActSaved(w)
  <2>1. entity[w] \in Entity /\ pc[w] = "body" /\ act[w] \in Acts
    BY <1>5 DEF ActSaved, Body
  <2>2. PICK e \in Entity : Answer(w, "done", e)
    BY <1>5, <2>1, PerformedIsEntity, BumpedIsEntity DEF ActSaved
  <2> QED
    BY <2>1, <2>2, AnswerInPlace
<1>6. CASE LeaveSaved(w)
  <2>1. Answer(w, "done", None) /\ op[w] # "act" /\ pc[w] = "body"
    BY <1>6 DEF LeaveSaved, Body
  <2> QED
    BY <2>1, AnswerInPlace
<1>7. CASE Check(w)
  BY <1>7 DEF Check, Goto, request, InPlace, Answered, TypeOK, Handlers
<1>8. CASE Fetch(w) \/ FetchKicked(w)
  <2>1. PICK e \in Entity, l \in {"body", "kick"} :
          Become(w, e) /\ Goto(w, l) /\ (l = "kick" => op[w] # "leave")
    BY <1>8, KickedIsEntity DEF Fetch, FetchKicked, Found
  <2>2. pc[w] = "fetch" /\ UNCHANGED <<request, sess, saved, id>>
    BY <1>8 DEF Fetch, FetchKicked, Found
  <2> QED
    BY <2>1, <2>2 DEF Goto, Become, request, InPlace, Answered, TypeOK
<1>9. CASE KickSaved(w)
  <2>1. Bumped(entity[w]) \in Entity
    BY <1>9, BumpedIsEntity DEF KickSaved
  <2> QED
    BY <1>9, <2>1 DEF KickSaved, Goto, Become, request, InPlace, Answered, TypeOK
<1>10. CASE KickRetry(w)
  BY <1>10 DEF KickRetry, Goto, Become, request, InPlace, Answered, TypeOK
<1>11. CASE Deliver(w) \/ Lose(w)
  BY <1>11 DEF Deliver, Lose, Over, NoCookie, Goto, Become, InPlace, Answered, TypeOK
<1> QED
  BY <1>1, <1>2, <1>3, <1>4, <1>5, <1>6, <1>7, <1>8, <1>9, <1>10, <1>11
     DEF Serve, CreateFault, ActNoSession, CheckFails, FetchFails, KickFails, NotSaved, PCs

LEMMA InPlaceStep == TypeOK /\ AllInPlace /\ [Next]_vars => AllInPlace'
<1> SUFFICES ASSUME TypeOK, AllInPlace, [Next]_vars, NEW x \in Workers PROVE InPlace(x)'
  BY DEF AllInPlace
<1>1. InPlace(x)
  BY DEF AllInPlace
<1>2. CASE Untouched(x)
  BY <1>1, <1>2 DEF Untouched, InPlace, Answered
<1>3. CASE \E c \in Clients : Arrive(x, c)
  BY <1>1, <1>3, OakAssumption
     DEF Arrive, SendCreate, SendLeave, SendAct, SendJoin, SendPoll, Send, Goto, InPlace,
         Answered, TypeOK, Handlers
<1>4. ASSUME NEW c \in Clients, Forget(c) PROVE Untouched(x)
  BY <1>4 DEF Forget, request, Untouched
<1>5. ASSUME NEW i \in Ids, ClearOut(i) PROVE Untouched(x)
  BY <1>5 DEF ClearOut, request, Untouched
<1>6. CASE UNCHANGED vars
  BY <1>1, <1>6 DEF vars, InPlace, Answered
<1> QED
  BY <1>2, <1>3, <1>4, <1>5, <1>6, ServeInPlace, ServeTouchesOne DEF Next

-----------------------------------------------------------------------------
(* Ids, and what a step may do to the store.                               *)

Control == TypeOK /\ AllInPlace /\ IdsAreIssued

\* The entity f is e with the one change that request w makes: a user who was never
\* there comes, the session's user leaves, or the act is performed.
Advances(w, e, f) ==
  /\ f.v = e.v + 1
  /\ e.known \subseteq f.known /\ f.here \cap e.known \subseteq e.here
  /\ e.here \subseteq f.here \/ (op[w] = "leave" /\ e.here \ {sess[w].user} \subseteq f.here)
  /\ f.done = e.done \/ (op[w] = "act" /\ pc'[w] = "done" /\ f.done = e.done \cup {act[w]})

\* Request w stores an entity of its own, or changes the one it is about.
Creates(w) ==
  \E i \in Ids \ issued, u \in Users :
    pc[w] = "create" /\ issued' = issued \cup {i} /\ db' = [db EXCEPT ![i] = NewEntity(u)]

Changes(w) ==
  \E f \in Entity :
    /\ pc[w] \in {"kick", "body"} /\ id[w] \in issued
    /\ db[id[w]] # None /\ Advances(w, db[id[w]], f)
    /\ issued' = issued /\ db' = [db EXCEPT ![id[w]] = f]

LEMMA ServeStores ==
  ASSUME Control, CopiesAreGenuine, NEW w \in Workers, Serve(w)
  PROVE  Creates(w) \/ Changes(w) \/ UNCHANGED store
<1> USE StoredIsEntity DEF Control, AllInPlace
<1>1. ASSUME Sequential(w), pc[w] \in {"kick", "body"}
      PROVE  /\ entity[w] \in Entity /\ id[w] \in issued \cap Ids
             /\ db[id[w]] \in Entity /\ db[id[w]] # None
             /\ db[id[w]].v = entity[w].v /\ db[id[w]].known = entity[w].known
             /\ db[id[w]].here = entity[w].here /\ db[id[w]].done = entity[w].done
  BY <1>1 DEF Sequential, IdsAreIssued, CopiesAreGenuine, Genuine, Derived
<1>2. CASE KickSaved(w)
  <2>1. Advances(w, db[id[w]], Bumped(entity[w])) /\ Bumped(entity[w]) \in Entity
    BY <1>1, <1>2, BumpedIsEntity DEF KickSaved, Advances
  <2> QED
    BY <1>1, <1>2, <2>1 DEF KickSaved, Put, Changes
<1>3. CASE JoinSaved(w)
  <2>1. pc[w] = "body" /\ Sequential(w)
    BY <1>3 DEF JoinSaved, Registers, Body
  <2>2. PICK u \in Users, e \in Entity : e \in Registered(entity[w], u) /\ Put(w, e)
    BY <1>1, <1>3, <2>1, RegisteredIsEntity DEF JoinSaved
  <2>3. Advances(w, db[id[w]], Bumped(e)) /\ Bumped(e) \in Entity
    BY <1>1, <2>1, <2>2, RegisteredIsEntity, BumpedIsEntity DEF Advances
  <2> QED
    BY <1>1, <2>1, <2>2, <2>3 DEF Put, Changes
<1>4. CASE ActSaved(w)
  <2>1. pc[w] = "body" /\ Sequential(w) /\ op[w] = "act" /\ act[w] \in Acts
    BY <1>4 DEF ActSaved, Body
  <2>2. PICK e \in Performed(entity[w], act[w]) : Put(w, e) /\ Answer(w, "done", Bumped(e))
    BY <1>4 DEF ActSaved
  <2>3. pc'[w] = "done"
    BY <2>2 DEF Answer, Goto, TypeOK
  <2>4. Advances(w, db[id[w]], Bumped(e)) /\ Bumped(e) \in Entity
    BY <1>1, <2>1, <2>3, PerformedIsEntity, BumpedIsEntity DEF Advances
  <2> QED
    BY <1>1, <2>1, <2>2, <2>4 DEF Put, Changes
<1>5. CASE LeaveSaved(w)
  <2>1. pc[w] = "body" /\ Sequential(w) /\ op[w] = "leave" /\ sess[w].user \in Users
    BY <1>5 DEF LeaveSaved, Body, InPlace
  <2>2. PICK e \in Unregistered(entity[w], sess[w].user) : Put(w, e)
    BY <1>5 DEF LeaveSaved
  <2>3. Advances(w, db[id[w]], Bumped(e)) /\ Bumped(e) \in Entity
    BY <1>1, <2>1, UnregisteredIsEntity, BumpedIsEntity DEF Advances
  <2> QED
    BY <1>1, <2>1, <2>2, <2>3 DEF Put, Changes
<1>6. CASE CreateNew(w)
  BY <1>6 DEF CreateNew, Creates
<1> QED
  BY <1>2, <1>3, <1>4, <1>5, <1>6
     DEF Serve, CreateEngaged, CreateFault, ActNoSession, LeaveNoSession, Check, CheckFails,
         Fetch, FetchKicked, FetchFails, KickRetry, KickFails, JoinSees, JoinRefused,
         JoinFault, PollSame, PollChanged, NotSaved, Deliver, Lose, Over, Fail

\* What becomes of the copies that were genuine.
LEMMA CopiesStayGenuine ==
  ASSUME Control, NEW w \in Workers, Creates(w) \/ Changes(w) \/ UNCHANGED store,
         NEW e \in Entity, NEW i \in issued
  PROVE  /\ i \in issued' /\ i \in Ids
         /\ Genuine(e, i) => Genuine(e, i)'
         /\ Derived(e, i) => Derived(e, i)'
<1> USE StoredIsEntity DEF Control, AllInPlace
<1>1. i \in Ids
  BY DEF TypeOK
<1>2. CASE db'[i] = db[i] /\ i \in issued'
  BY <1>1, <1>2 DEF Genuine, Derived
<1>3. CASE Changes(w) /\ i = id[w]
  <2>1. db[i] # None /\ db[i] \in Entity /\ db'[i].v = db[i].v + 1 /\ i \in issued'
    BY <1>1, <1>3 DEF Changes, Advances, TypeOK
  <2>2. e.v \in Nat /\ db[i].v \in Nat
    BY <2>1 DEF Entity
  <2> QED
    BY <1>1, <2>1, <2>2 DEF Genuine, Derived
<1> QED
  BY <1>1, <1>2, <1>3 DEF Creates, Changes, store, TypeOK

\* The sessions that a response may set: that of a new user, whom the entity did not
\* know, or that of the same user with a newer entity.
NewUser(u, i, e) ==
  /\ i \in issued' /\ db'[i] = e /\ u \in e.known \cap e.here
  /\ i \in issued => db[i] # None /\ u \notin db[i].known

SameUser(w, u, i, e) ==
  /\ pc[w] = "body" /\ i \in issued /\ issued' = issued
  /\ sess[w] # None /\ sess[w].user = u /\ sess[w].id = i
  /\ db'[i] # None => e.v <= db'[i].v /\ (e.v = db'[i].v => e = db'[i])

NewSession(w) ==
  \E u \in Users, i \in Ids, e \in Entity :
    /\ sess'[w] = [user |-> u, id |-> i, entity |-> e]
    /\ op[w] # "leave" /\ pc[w] # "done" /\ pc'[w] = "done"
    /\ NewUser(u, i, e) \/ SameUser(w, u, i, e)

LEMMA RefreshSession ==
  ASSUME TypeOK, NEW w \in Workers, NEW e \in Entity, Refresh(w, e), sess[w] # None,
         sess[w].user \in Users, id[w] \in Ids
  PROVE  sess'[w] \in {None, [user |-> sess[w].user, id |-> id[w], entity |-> e]}
  BY DEF Refresh, SetSession, NoCookie, TypeOK

LEMMA ServeSessions ==
  ASSUME Control, CopiesAreGenuine, NEW w \in Workers, Serve(w)
  PROVE  sess'[w] \in {None, sess[w]} \/ NewSession(w)
<1> USE StoredIsEntity DEF Control, AllInPlace
<1>1. ASSUME NEW e, Answer(w, "done", e) PROVE pc'[w] = "done"
  BY <1>1 DEF Answer, Goto, TypeOK
<1>2. CASE CreateNew(w)
  <2>1. PICK i \in Ids \ issued, u \in Users :
          /\ issued' = issued \cup {i} /\ db' = [db EXCEPT ![i] = NewEntity(u)]
          /\ SetSession(w, [user |-> u, id |-> i, entity |-> NewEntity(u)])
    BY <1>2 DEF CreateNew
  <2>2. sess'[w] \in {None, [user |-> u, id |-> i, entity |-> NewEntity(u)]}
    BY <2>1 DEF SetSession, NoCookie, TypeOK
  <2>3. NewUser(u, i, NewEntity(u))
    BY <2>1 DEF NewUser, NewEntity, TypeOK
  <2>4. op[w] # "leave" /\ pc[w] # "done" /\ pc'[w] = "done"
    BY <1>1, <1>2 DEF CreateNew, InPlace
  <2> QED
    BY <2>2, <2>3, <2>4, NewIsEntity DEF NewSession
<1>3. CASE JoinSaved(w)
  <2>1. /\ pc[w] = "body" /\ op[w] = "join" /\ Sequential(w)
        /\ entity[w] \in Entity /\ id[w] \in issued /\ id[w] \in Ids
    BY <1>3 DEF JoinSaved, Registers, Body, IdsAreIssued, TypeOK, Answered, InPlace
  <2>2. PICK u \in Users, e \in Entity :
          /\ e \in Registered(entity[w], u)
          /\ Put(w, e) /\ Answer(w, "done", Bumped(e))
          /\ SetSession(w, [user |-> u, id |-> id[w], entity |-> Bumped(e)])
    BY <1>3, <2>1, RegisteredIsEntity DEF JoinSaved
  <2>3. sess'[w] \in {None, [user |-> u, id |-> id[w], entity |-> Bumped(e)]}
    BY <2>2 DEF SetSession, NoCookie, TypeOK
  <2>4. db[id[w]] # None /\ db[id[w]] = entity[w]
    BY <2>1 DEF Sequential, CopiesAreGenuine, Genuine
  <2>5. NewUser(u, id[w], Bumped(e))
    BY <2>1, <2>2, <2>4, RegisteredIsEntity, BumpedIsEntity DEF NewUser, Put, TypeOK
  <2> QED
    BY <1>1, <2>1, <2>2, <2>3, <2>5, BumpedIsEntity DEF NewSession
<1>4. CASE PollChanged(w)
  <2>1. CASE sess[w] # None /\ sess[w].id = id[w]
    <3>1. /\ pc[w] = "body" /\ op[w] = "poll" /\ Refresh(w, entity[w]) /\ pc'[w] = "done"
          /\ id[w] \in issued /\ UNCHANGED store
      BY <1>1, <1>4, <2>1 DEF PollChanged, Body, IdsAreIssued
    <3>2. Genuine(entity[w], id[w]) /\ entity[w] \in Entity
      BY <3>1 DEF CopiesAreGenuine
    <3>3. SameUser(w, sess[w].user, id[w], entity[w])
      BY <2>1, <3>1, <3>2 DEF SameUser, Genuine, store
    <3> QED
      BY <2>1, <3>1, <3>2, <3>3, RefreshSession DEF NewSession
  <2>2. CASE NoCookie(w)
    BY <2>2 DEF NoCookie, TypeOK
  <2> QED
    BY <1>4, <2>1, <2>2 DEF PollChanged
<1>5. CASE ActSaved(w)
  <2>1. /\ pc[w] = "body" /\ op[w] = "act" /\ Sequential(w) /\ act[w] \in Acts
        /\ entity[w] \in Entity /\ id[w] \in issued /\ id[w] \in Ids
        /\ sess[w] # None /\ sess[w].id = id[w]
    BY <1>5 DEF ActSaved, Body, IdsAreIssued, TypeOK, Answered, InPlace
  <2>2. PICK e \in Entity :
          Put(w, e) /\ Answer(w, "done", Bumped(e)) /\ Refresh(w, Bumped(e))
    BY <1>5, <2>1, PerformedIsEntity DEF ActSaved
  <2>3. db'[id[w]] = Bumped(e) /\ issued' = issued
    BY <2>1, <2>2 DEF Put, TypeOK
  <2>4. Bumped(e).v \in Nat
    BY BumpedIsEntity DEF Entity
  <2>5. SameUser(w, sess[w].user, id[w], Bumped(e))
    BY <2>1, <2>3, <2>4 DEF SameUser
  <2> QED
    BY <1>1, <2>1, <2>2, <2>5, BumpedIsEntity, RefreshSession DEF NewSession
<1>6. ASSUME NoCookie(w) \/ SetSession(w, None) \/ UNCHANGED sess
      PROVE  sess'[w] \in {None, sess[w]}
  BY <1>6 DEF NoCookie, SetSession, TypeOK
<1> QED
  BY <1>2, <1>3, <1>4, <1>5, <1>6
     DEF Serve, CreateEngaged, CreateFault, ActNoSession, LeaveNoSession, Check, CheckFails,
         Fetch, FetchKicked, FetchFails, KickSaved, KickRetry, KickFails, JoinSees, JoinRefused,
         JoinFault, PollSame, NotSaved, LeaveSaved, Deliver, Lose, Over, Fail

LEMMA ServeClient ==
  ASSUME TypeOK, NEW w \in Workers, Serve(w)
  PROVE  who' = who \/ sess'[w] = None
  BY DEF Serve, CreateEngaged, CreateNew, CreateFault, ActNoSession, LeaveNoSession, Check,
         CheckFails, Fetch, FetchKicked, FetchFails, KickSaved, KickRetry, KickFails, JoinSees,
         JoinSaved, JoinRefused, JoinFault, PollSame, PollChanged, ActSaved, LeaveSaved,
         NotSaved, Fail, Answer, request, Deliver, Lose, Over, NoCookie, TypeOK

\* What a request holds of its entity after a step: a copy of what is stored, or the
\* copy that the step answers with.
LEMMA ServeCopies ==
  ASSUME Control, CopiesAreGenuine, NEW w \in Workers, Serve(w)
  PROVE  /\ entity'[w] # None => id'[w] \in issued
         /\ pc'[w] = "body" => Genuine(entity[w], id[w])'
         /\ pc'[w] = "kick" => Derived(entity[w], id[w])'
<1> USE StoredIsEntity DEF Control, AllInPlace
<1>1. ASSUME NEW l \in {"done", "failed"}, NEW e, Answer(w, l, e), e # None => pc[w] = "body"
      PROVE  /\ pc'[w] \in {"done", "failed"}
             /\ entity'[w] # None => id'[w] \in issued
  BY <1>1, OakAssumption DEF Answer, Goto, Become, IdsAreIssued, TypeOK
<1>2. CASE \E l \in {"done", "failed"} : \E e : Answer(w, l, e) /\ (e # None => pc[w] = "body")
  BY <1>1, <1>2
<1>3. CASE Fetch(w) \/ FetchKicked(w)
  <2>1. PICK e \in Entity : /\ entity'[w] = e
                            /\ pc'[w] = "body" => e = db[id[w]]
                            /\ e.v = db[id[w]].v /\ e.known = db[id[w]].known
                            /\ e.here = db[id[w]].here /\ e.done = db[id[w]].done
    BY <1>3, KickedIsEntity DEF Fetch, FetchKicked, Found, Become, Goto, TypeOK
  <2>2. db' = db /\ id' = id /\ id[w] \in Ids /\ db[id[w]] # None /\ db[id[w]].v \in Nat
    BY <1>3 DEF Fetch, FetchKicked, Found, store, Entity
  <2> QED
    BY <2>1, <2>2 DEF Genuine, Derived, IdsAreIssued
<1>4. CASE KickSaved(w)
  <2>1. /\ entity'[w] = Bumped(entity[w]) /\ id'[w] = id[w] /\ pc'[w] = "body"
        /\ id[w] \in issued /\ id[w] \in Ids /\ db'[id[w]] = Bumped(entity[w])
    BY <1>4 DEF KickSaved, Become, Goto, Put, IdsAreIssued, Answered, InPlace, TypeOK
  <2>2. Bumped(entity[w]).v \in Nat
    BY <1>4, BumpedIsEntity DEF KickSaved, Entity
  <2> QED
    BY <2>1, <2>2 DEF Genuine
<1>5. CASE Check(w) \/ KickRetry(w)
  BY <1>5 DEF Check, KickRetry, Become, Goto, InPlace, TypeOK
<1>6. CASE Deliver(w) \/ Lose(w)
  BY <1>6 DEF Deliver, Lose, Over, Become, Goto, TypeOK
<1>7. CASE CreateEngaged(w) \/ CreateNew(w) \/ LeaveNoSession(w) \/ JoinSees(w) \/ JoinSaved(w)
           \/ JoinRefused(w) \/ JoinFault(w) \/ PollSame(w) \/ PollChanged(w) \/ ActSaved(w)
           \/ LeaveSaved(w) \/ Fail(w)
  <2>1. PICK l \in {"done", "failed"} : \E e : Answer(w, l, e)
    BY <1>7 DEF CreateEngaged, CreateNew, LeaveNoSession, JoinSees, JoinSaved, JoinRefused,
                JoinFault, PollSame, PollChanged, ActSaved, LeaveSaved, Fail
  <2>2. pc[w] = "body" \/ Answer(w, l, None)
    BY <1>7, <2>1 DEF CreateEngaged, CreateNew, LeaveNoSession, JoinSees, JoinSaved, JoinRefused,
                JoinFault, Registers, PollSame, PollChanged, ActSaved, LeaveSaved, Body, Fail,
                Answer, Goto, TypeOK
  <2> QED
    BY <1>2, <2>1, <2>2
<1> QED
  BY <1>3, <1>4, <1>5, <1>6, <1>7
     DEF Serve, CreateFault, ActNoSession, CheckFails, FetchFails, KickFails, NotSaved

Surroundings ==
  (\E d \in Clients : Forget(d)) \/ (\E j \in Ids : ClearOut(j)) \/ UNCHANGED vars

\* The steps that serve no request leave the store alone, but for a clear-out; what they
\* do to sessions, cookies and copies.
LEMMA OtherSteps ==
  ASSUME Control, (\E w \in Workers, d \in Clients : Arrive(w, d)) \/ Surroundings
  PROVE  /\ issued' = issued /\ \A i \in Ids : db'[i] \in {None, db[i]}
         /\ \A c \in Clients : cookie'[c] \in {None, cookie[c]}
         /\ \A x \in Workers :
              /\ \/ sess'[x] = None \/ (sess'[x] = sess[x] /\ who'[x] = who[x])
                 \/ /\ who'[x] \in Clients /\ Free(who'[x])
                    /\ sess'[x] = cookie[who'[x]] /\ UNCHANGED store
              /\ entity'[x] = entity[x]
              /\ entity[x] # None => id'[x] = id[x] /\ pc'[x] = pc[x]
              /\ pc'[x] \in {"kick", "body", "done", "failed"} => pc[x] = pc'[x]
<1> USE DEF Control, AllInPlace
<1>1. ASSUME NEW w \in Workers, NEW d \in Clients, Arrive(w, d)
      PROVE  /\ pc[w] = "idle" /\ Free(d) /\ pc'[w] \in {"create", "fetch", "check"}
             /\ sess' = [sess EXCEPT ![w] = cookie[d]] /\ who' = [who EXCEPT ![w] = d]
             /\ UNCHANGED <<store, cookie, entity>>
             /\ \A x \in Workers \ {w} :
                  pc'[x] = pc[x] /\ id'[x] = id[x] /\ sess'[x] = sess[x] /\ who'[x] = who[x]
  BY <1>1 DEF Arrive, SendCreate, SendLeave, SendAct, SendJoin, SendPoll, Send, Goto, TypeOK
<1>2. CASE \E w \in Workers, d \in Clients : Arrive(w, d)
  BY <1>1, <1>2 DEF store, InPlace, TypeOK
<1>3. CASE \E d \in Clients : Forget(d)
  BY <1>3 DEF Forget, store, request, TypeOK
<1>4. CASE \E j \in Ids : ClearOut(j)
  BY <1>4 DEF ClearOut, request, TypeOK
<1>5. CASE UNCHANGED vars
  BY <1>5 DEF vars
<1> QED
  BY <1>2, <1>3, <1>4, <1>5 DEF Surroundings

LEMMA NextSteps ==
  [Next]_vars <=> \/ \E w \in Workers : Serve(w)
                  \/ (\E w \in Workers, d \in Clients : Arrive(w, d)) \/ Surroundings
  BY DEF Next, Surroundings

\* The store only advances.
LEMMA StoreStep ==
  ASSUME Control, CopiesAreGenuine, [Next]_vars, NEW i \in issued, NEW e \in Entity
  PROVE  /\ i \in issued' /\ i \in Ids
         /\ Genuine(e, i) => Genuine(e, i)'
         /\ Derived(e, i) => Derived(e, i)'
<1>1. ASSUME issued' = issued, db'[i] \in {None, db[i]}
      PROVE  /\ i \in issued' /\ Genuine(e, i) => Genuine(e, i)'
             /\ Derived(e, i) => Derived(e, i)'
  BY <1>1 DEF Genuine, Derived
<1>2. i \in Ids
  BY DEF Control, TypeOK
<1>3. CASE \E w \in Workers : Serve(w)
  BY <1>3, ServeStores, CopiesStayGenuine
<1> QED
  BY <1>1, <1>2, <1>3, OtherSteps, NextSteps

LEMMA CookieStep ==
  ASSUME Control, [Next]_vars, NEW c \in Clients
  PROVE  \/ cookie'[c] \in {None, cookie[c]}
         \/ \E w \in Workers : /\ Deliver(w) /\ who[w] = c /\ saved[w]
                               /\ cookie'[c] = sess[w]
<1>1. ASSUME NEW w \in Workers, Deliver(w)
      PROVE  cookie'[c] = cookie[c] \/ (who[w] = c /\ saved[w] /\ cookie'[c] = sess[w])
  BY <1>1 DEF Deliver, Control, TypeOK
<1>2. ASSUME NEW w \in Workers, Serve(w), ~Deliver(w) PROVE cookie' = cookie
  BY <1>2 DEF Serve, CreateEngaged, CreateNew, CreateFault, ActNoSession, LeaveNoSession, Check,
              CheckFails, Fetch, FetchKicked, FetchFails, KickSaved, KickRetry, KickFails,
              JoinSees, JoinSaved, JoinRefused, JoinFault, PollSame, PollChanged, ActSaved,
              LeaveSaved, NotSaved, Lose, Fail, Answer
<1> QED
  BY <1>1, <1>2, OtherSteps, NextSteps

\* Where a session comes from.

\* Where a session comes from.
LEMMA SessionStep ==
  ASSUME Control, CopiesAreGenuine, [Next]_vars, NEW x \in Workers
  PROVE  \/ sess'[x] = None \/ (sess'[x] = sess[x] /\ who'[x] = who[x])
         \/ /\ who'[x] \in Clients /\ Free(who'[x])
            /\ sess'[x] = cookie[who'[x]] /\ UNCHANGED store
         \/ Serve(x) /\ NewSession(x) /\ who'[x] = who[x]
<1>1. ASSUME NEW w \in Workers, Serve(w), w # x PROVE sess'[x] = sess[x] /\ who'[x] = who[x]
  BY <1>1, ServeTouchesOne DEF Untouched, Control
<1> QED
  BY <1>1, ServeSessions, ServeClient, OtherSteps, NextSteps DEF Control

\* Where a copy comes from.
LEMMA CopyStep ==
  ASSUME Control, CopiesAreGenuine, [Next]_vars, NEW x \in Workers
  PROVE  \/ /\ entity'[x] # None => id'[x] \in issued
            /\ pc'[x] = "body" => Genuine(entity[x], id[x])'
            /\ pc'[x] = "kick" => Derived(entity[x], id[x])'
         \/ /\ entity'[x] = entity[x] /\ (entity[x] # None => id'[x] = id[x])
            /\ pc'[x] \in {"kick", "body"} => pc[x] = pc'[x]
<1>1. ASSUME NEW w \in Workers, Serve(w), w # x PROVE Untouched(x)
  BY <1>1, ServeTouchesOne DEF Control
<1> QED
  BY <1>1, ServeCopies, OtherSteps, NextSteps DEF Untouched

LEMMA IssuedStep == Control /\ CopiesAreGenuine /\ [Next]_vars => IdsAreIssued'
<1> SUFFICES ASSUME Control, CopiesAreGenuine, [Next]_vars PROVE IdsAreIssued'
  OBVIOUS
<1>1. \A i \in issued : i \in issued'
  <2>1. [v |-> 0, known |-> {}, here |-> {}, done |-> {}, active |-> TRUE] \in Entity
    BY DEF Entity
  <2> QED
    BY <2>1, StoreStep
<1>2. \A i \in Ids : db'[i] # None => i \in issued'
  <2>1. ASSUME NEW w \in Workers, NEW i \in Ids, Serve(w), db'[i] # None
        PROVE  i \in issued'
    BY <1>1, <2>1, ServeStores DEF Creates, Changes, store, Control, IdsAreIssued, TypeOK
  <2> QED
    BY <1>1, <2>1, OtherSteps, NextSteps DEF Control, IdsAreIssued
<1>3. \A c \in Clients : cookie'[c] # None => cookie'[c].id \in issued'
  BY <1>1, CookieStep DEF Control, IdsAreIssued
<1>4. \A x \in Workers : sess'[x] # None => sess'[x].id \in issued'
  <2>1. ASSUME NEW x \in Workers, NewSession(x) PROVE sess'[x].id \in issued'
    BY <2>1 DEF NewSession, NewUser, SameUser
  <2> QED
    BY <1>1, <2>1, SessionStep DEF Control, IdsAreIssued
<1>5. \A x \in Workers : entity'[x] # None => id'[x] \in issued'
  BY <1>1, CopyStep DEF Control, IdsAreIssued
<1> QED
  BY <1>2, <1>3, <1>4, <1>5 DEF IdsAreIssued

LEMMA CopiesStep == Control /\ CopiesAreGenuine /\ [Next]_vars => CopiesAreGenuine'
<1> SUFFICES ASSUME Control, CopiesAreGenuine, [Next]_vars PROVE CopiesAreGenuine'
  OBVIOUS
<1> USE StoredIsEntity DEF Control
<1>1. ASSUME NEW s \in Session, s.id \in issued, Genuine(s.entity, s.id)
      PROVE  Genuine(s.entity, s.id)'
  BY <1>1, StoreStep DEF Session
<1>2. \A c \in Clients : cookie[c] # None =>
        cookie[c].id \in issued /\ Genuine(cookie[c].entity, cookie[c].id)
  BY DEF IdsAreIssued, CopiesAreGenuine
<1>3. \A x \in Workers : sess[x] # None =>
        sess[x].id \in issued /\ Genuine(sess[x].entity, sess[x].id)
  BY DEF IdsAreIssued, CopiesAreGenuine
<1>4. ASSUME NEW c \in Clients, cookie'[c] # None
      PROVE  Genuine(cookie[c].entity, cookie[c].id)'
  <2>1. PICK s \in Session : cookie'[c] = s /\ s.id \in issued /\ Genuine(s.entity, s.id)
    BY <1>2, <1>3, <1>4, CookieStep DEF AllInPlace
  <2> QED
    BY <1>1, <2>1 DEF Genuine
<1>5. ASSUME NEW x \in Workers, sess'[x] # None
      PROVE  Genuine(sess[x].entity, sess[x].id)'
  <2>1. CASE NewSession(x)
    <3>1. PICK u \in Users, i \in Ids, e \in Entity :
            /\ sess'[x] = [user |-> u, id |-> i, entity |-> e]
            /\ NewUser(u, i, e) \/ SameUser(x, u, i, e)
      BY <2>1 DEF NewSession
    <3>2. e.v \in Nat
      BY DEF Entity
    <3> QED
      BY <3>1, <3>2 DEF NewUser, SameUser, Genuine
  <2>2. CASE \E s \in Session : sess'[x] = s /\ s.id \in issued /\ Genuine(s.entity, s.id)
    BY <1>1, <2>2 DEF Genuine
  <2> QED
    BY <1>2, <1>3, <1>5, <2>1, <2>2, SessionStep DEF AllInPlace
<1>6. ASSUME NEW x \in Workers, pc'[x] \in {"body", "kick"}, pc'[x] = pc[x],
             entity'[x] = entity[x], id'[x] = id[x]
      PROVE  IF pc'[x] = "body" THEN Genuine(entity[x], id[x])' ELSE Derived(entity[x], id[x])'
  <2>1. PICK e \in Entity, i \in issued :
          /\ entity[x] = e /\ id[x] = i
          /\ IF pc[x] = "body" THEN Genuine(e, i) ELSE Derived(e, i)
    BY <1>6 DEF CopiesAreGenuine, IdsAreIssued, AllInPlace, InPlace
  <2>2. IF pc[x] = "body" THEN Genuine(e, i)' ELSE Derived(e, i)'
    BY <2>1, StoreStep
  <2> QED
    BY <1>6, <2>1, <2>2 DEF Genuine, Derived
<1>7. ASSUME NEW x \in Workers
      PROVE  /\ pc'[x] = "body" => Genuine(entity[x], id[x])'
             /\ pc'[x] = "kick" => Derived(entity[x], id[x])'
  BY <1>6, CopyStep DEF AllInPlace, InPlace, Answered
<1> QED
  BY <1>4, <1>5, <1>7 DEF CopiesAreGenuine

\* What everything else rests on.
CoreInv == Control /\ CopiesAreGenuine

LEMMA CoreInit == Init => CoreInv
  BY TypeInit, OakAssumption
     DEF Init, CoreInv, Control, AllInPlace, InPlace, Answered, IdsAreIssued, CopiesAreGenuine

LEMMA CoreStep == CoreInv /\ [Next]_vars => CoreInv'
  BY TypeStep, InPlaceStep, IssuedStep, CopiesStep DEF CoreInv, Control, AllInPlace

THEOREM CoreAlways == Spec => []CoreInv
  BY CoreInit, CoreStep, PTL DEF Spec

\* The handlers keep to the types, and the model to its bounds (oak.go:267-274).
THEOREM OakTypeCorrect == Spec => []TypeOK
<1>1. CoreInv => TypeOK
  BY DEF CoreInv, Control
<1> QED
  BY <1>1, CoreAlways, PTL

-----------------------------------------------------------------------------
(* Users who have left.                                                    *)

LEMMA LeftStaysLeft ==
  ASSUME CoreInv, [Next]_vars, NEW i \in Ids, db[i] # None, db'[i] # None
  PROVE  (db[i].known \ db[i].here) \cap db'[i].here = {}
<1> USE DEF CoreInv, Control
<1>1. ASSUME NEW w \in Workers, Serve(w)
      PROVE  db'[i] = db[i] \/ db'[i].here \cap db[i].known \subseteq db[i].here
  <2>1. i \in issued
    BY DEF IdsAreIssued
  <2> QED
    BY <1>1, <2>1, ServeStores DEF Creates, Changes, Advances, store, TypeOK
<1> QED
  BY <1>1, OtherSteps, NextSteps

\* A user who has left an entity never comes back, whichever copies of it are stored
\* how late (oak.go:223-258, sus.go:135-149).
THEOREM LeaversStayAway == Spec => NobodyComesBack
<1>1. CoreInv /\ [Next]_vars =>
        [\A i \in Ids : db[i] # None /\ db'[i] # None =>
           (db[i].known \ db[i].here) \cap db'[i].here = {}]_vars
  BY LeftStaysLeft
<1> QED
  BY <1>1, CoreAlways, PTL DEF Spec, NobodyComesBack

-----------------------------------------------------------------------------
(* Seats: which users the clients are.                                     *)

LEMMA KnownGrow ==
  ASSUME CoreInv, [Next]_vars, NEW i \in issued, db'[i] # None
  PROVE  db[i] # None /\ db[i].known \subseteq db'[i].known
<1> USE DEF CoreInv, Control
<1>1. ASSUME NEW w \in Workers, Serve(w)
      PROVE  db'[i] = db[i] \/ (db[i] # None /\ db[i].known \subseteq db'[i].known)
  BY <1>1, ServeStores DEF Creates, Changes, Advances, store, TypeOK
<1>2. i \in Ids
  BY DEF TypeOK
<1> QED
  BY <1>1, <1>2, OtherSteps, NextSteps

\* The sessions that a client may have after a step: those of its users, and that of
\* a new one.
Joins(c, s) ==
  \E w \in Workers :
    /\ Serve(w) /\ pc[w] # pc'[w] /\ who[w] = c /\ sess'[w] = s
    /\ NewUser(s.user, s.id, s.entity)

LEMMA SeatsStep ==
  ASSUME CoreInv, [Next]_vars, NEW c \in Clients, NEW s \in SeatsOf(c)'
  PROVE  \/ \E t \in SeatsOf(c) : t.user = s.user /\ t.id = s.id
         \/ Joins(c, s)
<1> USE StoredIsEntity DEF CoreInv, Control, AllInPlace, SeatsOf
<1>1. CASE s = cookie'[c]
  BY <1>1, CookieStep
<1>2. ASSUME NEW x \in Workers, who'[x] = c, s = sess'[x]
      PROVE  (\E t \in SeatsOf(c) : t.user = s.user /\ t.id = s.id) \/ Joins(c, s)
  <2>1. CASE Serve(x) /\ NewSession(x) /\ who'[x] = who[x]
    <3>1. PICK u \in Users, i \in Ids, e \in Entity :
            /\ s = [user |-> u, id |-> i, entity |-> e]
            /\ NewUser(u, i, e) \/ SameUser(x, u, i, e)
      BY <1>2, <2>1 DEF NewSession
    <3>2. s.user = u /\ s.id = i /\ s.entity = e /\ pc[x] # pc'[x]
      BY <2>1, <3>1 DEF NewSession
    <3>3. CASE NewUser(u, i, e)
      BY <1>2, <2>1, <3>2, <3>3 DEF Joins
    <3>4. CASE SameUser(x, u, i, e)
      <4>1. sess[x] \in SeatsOf(c) /\ sess[x].user = u /\ sess[x].id = i
        BY <1>2, <2>1, <3>4 DEF SameUser
      <4> QED
        BY <3>2, <4>1
    <3> QED
      BY <3>1, <3>3, <3>4
  <2> QED
    BY <1>2, <2>1, SessionStep
<1> QED
  BY <1>1, <1>2

LEMMA SeatedStep ==
  ASSUME CoreInv, SeatsAreTaken, [Next]_vars
  PROVE  /\ \A c \in Clients : Seated(cookie[c])'
         /\ \A w \in Workers : Seated(sess[w])'
<1> USE StoredIsEntity DEF CoreInv, Control, AllInPlace
<1>1. ASSUME NEW t \in Session, t.id \in issued, Seated(t)
      PROVE  db'[t.id] # None => t.user \in db'[t.id].known
  <2>1. \A i \in issued : db'[i] # None => db[i] # None /\ db[i].known \subseteq db'[i].known
    BY KnownGrow
  <2> QED
    BY <1>1, <2>1, OakAssumption DEF Seated
<1>2. ASSUME NEW c \in Clients PROVE Seated(cookie[c])'
  <2>1. cookie'[c] = None \/ \E t \in Session : cookie'[c] = t /\ t.id \in issued /\ Seated(t)
    BY CookieStep DEF SeatsAreTaken, IdsAreIssued
  <2> QED
    BY <1>1, <2>1, OakAssumption DEF Seated
<1>3. ASSUME NEW x \in Workers PROVE Seated(sess[x])'
  <2>1. CASE sess'[x] = None \/ \E t \in Session : sess'[x] = t /\ t.id \in issued /\ Seated(t)
    BY <1>1, <2>1, OakAssumption DEF Seated
  <2>2. CASE NewSession(x)
    <3>1. PICK u \in Users, i \in Ids, e \in Entity :
            /\ sess'[x] = [user |-> u, id |-> i, entity |-> e]
            /\ NewUser(u, i, e) \/ SameUser(x, u, i, e)
      BY <2>2 DEF NewSession
    <3>2. CASE NewUser(u, i, e)
      BY <3>1, <3>2 DEF NewUser, Seated
    <3>3. CASE SameUser(x, u, i, e)
      <4>1. sess[x] \in Session /\ sess[x].id = i /\ sess[x].user = u /\ i \in issued
            /\ Seated(sess[x])
        BY <3>3 DEF SameUser, SeatsAreTaken
      <4> QED
        BY <1>1, <3>1, <4>1 DEF Seated
    <3> QED
      BY <3>1, <3>2, <3>3
  <2> QED
    BY <2>1, <2>2, SessionStep DEF SeatsAreTaken, IdsAreIssued
<1> QED
  BY <1>2, <1>3

LEMMA SeatsAreTakenStep == CoreInv /\ SeatsAreTaken /\ [Next]_vars => SeatsAreTaken'
<1> SUFFICES ASSUME CoreInv, SeatsAreTaken, [Next]_vars PROVE SeatsAreTaken'
  OBVIOUS
<1> USE StoredIsEntity DEF CoreInv, Control, AllInPlace
<1>1. \A c \in Clients : \A t \in SeatsOf(c) :
        t.id \in issued /\ (db[t.id] # None => t.user \in db[t.id].known)
  BY DEF SeatsOf, SeatsAreTaken, Seated, IdsAreIssued
<1>2. ASSUME NEW c \in Clients, NEW s, Joins(c, s), NEW d \in Clients, NEW t \in SeatsOf(d)
      PROVE  s.user # t.user \/ s.id # t.id
  BY <1>1, <1>2 DEF Joins, NewUser
<1>3. ASSUME NEW c \in Clients, NEW d \in Clients, NEW s, NEW t, Joins(c, s), Joins(d, t)
      PROVE  c = d
  <2>1. PICK v \in Workers : Serve(v) /\ who[v] = c /\ pc[v] # pc'[v]
    BY <1>3 DEF Joins
  <2>2. PICK w \in Workers : Serve(w) /\ who[w] = d /\ pc[w] # pc'[w]
    BY <1>3 DEF Joins
  <2> QED
    BY <2>1, <2>2, ServeTouchesOne DEF Untouched
<1>4. ASSUME NEW c \in Clients, NEW d \in Clients, c # d,
             NEW s \in SeatsOf(c)', NEW t \in SeatsOf(d)'
      PROVE  s.user # t.user \/ s.id # t.id
  <2>1. CASE Joins(c, s) \/ Joins(d, t)
    BY <1>2, <1>3, <1>4, <2>1, SeatsStep
  <2>2. CASE ~Joins(c, s) /\ ~Joins(d, t)
    BY <1>4, <2>2, SeatsStep DEF SeatsAreTaken
  <2> QED
    BY <2>1, <2>2
<1> QED
  BY <1>4, SeatedStep DEF SeatsAreTaken

\* No two clients are ever the same user of an entity, whether they joined at the same
\* time or hold an old cookie (oak.go:134-138).
THEOREM SeatsStayDistinct == Spec => []SeatsAreDistinct
<1>1. Init => SeatsAreTaken
  BY DEF Init, SeatsAreTaken, SeatsOf, Seated
<1>2. CoreInv /\ SeatsAreTaken => SeatsAreDistinct
  BY DEF SeatsAreDistinct, SeatsAreTaken, SeatsOf
<1> QED
  BY <1>1, <1>2, SeatsAreTakenStep, CoreAlways, PTL DEF Spec

-----------------------------------------------------------------------------
(* Answers.                                                                *)

AnswersAreGenuine ==
  \A w \in Workers : pc[w] = "done" /\ entity[w] # None => Genuine(entity[w], id[w])

LEMMA ServeAnswers ==
  ASSUME CoreInv, "store" \notin Faults, NEW w \in Workers, Serve(w), pc[w] # "done"
  PROVE  pc'[w] = "done" /\ entity'[w] # None => Genuine(entity[w], id[w])'
<1> USE StoredIsEntity, OakAssumption DEF CoreInv, Control, AllInPlace
<1>1. ASSUME NEW e \in Entity, Answer(w, "done", e) PROVE entity'[w] = e /\ id'[w] = id[w]
  BY <1>1 DEF Answer, Become, TypeOK
<1>2. ASSUME NEW e \in Entity, Answer(w, "done", Bumped(e)), Put(w, e), pc[w] = "body"
      PROVE  Genuine(entity[w], id[w])'
  <2>1. Bumped(e) \in Entity /\ Bumped(e).v \in Nat
    BY BumpedIsEntity DEF Entity
  <2>2. entity'[w] = Bumped(e) /\ id'[w] = id[w] /\ id[w] \in Ids /\ db'[id[w]] = Bumped(e)
    BY <1>1, <1>2, <2>1 DEF Put, TypeOK
  <2> QED
    BY <2>1, <2>2 DEF Genuine
<1>3. CASE JoinSaved(w)
  <2>1. PICK u \in Users, e \in Entity : Put(w, e) /\ Answer(w, "done", Bumped(e))
    BY <1>3, RegisteredIsEntity DEF JoinSaved, Registers, Body
  <2> QED
    BY <1>2, <1>3, <2>1 DEF JoinSaved, Registers, Body
<1>4. CASE ActSaved(w)
  <2>1. PICK e \in Entity : Put(w, e) /\ Answer(w, "done", Bumped(e))
    BY <1>4, PerformedIsEntity DEF ActSaved, Body
  <2> QED
    BY <1>2, <1>4, <2>1 DEF ActSaved, Body
<1>5. CASE JoinSees(w) \/ PollChanged(w)
  <2>1. pc[w] = "body" /\ Answer(w, "done", entity[w]) /\ UNCHANGED db
    BY <1>5 DEF JoinSees, PollChanged, Body, store
  <2>2. entity'[w] = entity[w] /\ id'[w] = id[w]
    BY <1>1, <2>1
  <2> QED
    BY <2>1, <2>2 DEF CopiesAreGenuine, Genuine
<1>6. CASE JoinRefused(w)
  <2>1. pc[w] = "body" /\ ~Sequential(w) /\ UNCHANGED db
    BY <1>6 DEF JoinRefused, Registers, Body, store
  <2>2. PICK e \in Entity : Answer(w, "done", e) /\ e.v = entity[w].v
    BY <1>6, <2>1, RegisteredIsEntity DEF JoinRefused
  <2>3. entity'[w] = e /\ id'[w] = id[w]
    BY <1>1, <2>2
  <2> QED
    BY <2>1, <2>2, <2>3 DEF Sequential, CopiesAreGenuine, Genuine
<1>7. ASSUME NEW l, Answer(w, l, None) PROVE entity'[w] = None
  BY <1>7 DEF Answer, Become, TypeOK
<1> QED
  BY <1>3, <1>4, <1>5, <1>6, <1>7
     DEF Serve, CreateEngaged, CreateNew, CreateFault, ActNoSession, LeaveNoSession, Check,
         CheckFails, Fetch, FetchKicked, FetchFails, KickSaved, KickRetry, KickFails, JoinFault,
         PollSame, LeaveSaved, NotSaved, Fail, Deliver, Lose, Over, Goto, Become, TypeOK

\* An answer that has been written stays as it is until it is delivered or lost.
LEMMA AnswersWait ==
  ASSUME CoreInv, [Next]_vars, NEW x \in Workers, pc'[x] \in {"done", "failed"}
  PROVE  \/ Serve(x) /\ pc[x] \notin {"done", "failed"}
         \/ /\ pc[x] = pc'[x] /\ entity'[x] = entity[x]
            /\ entity[x] # None => id'[x] = id[x]
<1> USE DEF CoreInv, Control
<1>1. ASSUME NEW w \in Workers, Serve(w), w # x PROVE Untouched(x)
  BY <1>1, ServeTouchesOne
<1>2. CASE Serve(x) /\ pc[x] \in {"done", "failed"}
  BY <1>2 DEF Serve, CreateEngaged, CreateNew, CreateFault, ActNoSession, LeaveNoSession, Check,
         CheckFails, Fetch, FetchKicked, FetchFails, Found, KickSaved, KickRetry, KickFails,
         JoinSees, JoinSaved, JoinRefused, JoinFault, Registers, PollSame, PollChanged, ActSaved,
         LeaveSaved, NotSaved, Body, Deliver, Lose, Over, Goto, TypeOK
<1> QED
  BY <1>1, <1>2, OtherSteps, NextSteps DEF Untouched

LEMMA AnswersStep ==
  ASSUME CoreInv, AnswersAreGenuine, [Next]_vars, "store" \notin Faults
  PROVE  AnswersAreGenuine'
<1> USE StoredIsEntity DEF CoreInv, Control
<1> SUFFICES ASSUME NEW x \in Workers, pc'[x] = "done", entity'[x] # None
             PROVE  Genuine(entity[x], id[x])'
  BY DEF AnswersAreGenuine
<1>1. CASE Serve(x) /\ pc[x] # "done"
  BY <1>1, ServeAnswers
<1>2. CASE pc[x] = "done" /\ entity'[x] = entity[x] /\ id'[x] = id[x]
  <2>1. PICK e \in Entity, i \in issued : entity[x] = e /\ id[x] = i /\ Genuine(e, i)
    BY <1>2 DEF AnswersAreGenuine, IdsAreIssued, TypeOK
  <2>2. Genuine(e, i)'
    BY <2>1, StoreStep
  <2> QED
    BY <1>2, <2>1, <2>2 DEF Genuine
<1> QED
  BY <1>1, <1>2, AnswersWait

\* As long as the store reports no errors of its own: no session and no answer shows
\* another state than the stored one under the stored version (oak.go:161-163).
THEOREM AnswersTellTheStored == "store" \notin Faults => (Spec => []TellsTheStored)
<1> SUFFICES ASSUME "store" \notin Faults PROVE Spec => []TellsTheStored
  OBVIOUS
<1>1. Init => AnswersAreGenuine
  BY DEF Init, AnswersAreGenuine
<1>2. CoreInv /\ AnswersAreGenuine => TellsTheStored
  BY DEF CoreInv, CopiesAreGenuine, AnswersAreGenuine, TellsTheStored, Sessions
<1>3. CoreInv /\ AnswersAreGenuine /\ [Next]_vars => AnswersAreGenuine'
  BY AnswersStep
<1> QED
  BY <1>1, <1>2, <1>3, CoreAlways, PTL DEF Spec

-----------------------------------------------------------------------------
(* Acts.                                                                   *)

\* What a request that acts has come to after a step.
LEMMA ServeActs ==
  ASSUME CoreInv, ActsAreSaved, NEW w \in Workers, Serve(w), op[w] = "act"
  PROVE  /\ pc'[w] # "idle" => act' = act /\ fate' = fate
         /\ pc'[w] = "done" => /\ id'[w] \in issued
                               /\ db'[id'[w]] # None => act[w] \in db'[id'[w]].done
         /\ pc'[w] = "idle" =>
              /\ act' = [act EXCEPT ![w] = None] /\ Answered(w)
              /\ fate' \in {fate, [fate EXCEPT ![act[w]] = IF pc[w] = "done" THEN id[w]
                                                                        ELSE "refused"]}
<1> USE StoredIsEntity, OakAssumption DEF CoreInv, Control, AllInPlace
<1>1. CASE ActSaved(w)
  <2>1. pc[w] = "body" /\ entity[w] \in Entity /\ act[w] \in Acts /\ id[w] \in issued
    BY <1>1 DEF ActSaved, Body, IdsAreIssued, Answered, InPlace
  <2>2. PICK e \in Performed(entity[w], act[w]) : Put(w, e) /\ Answer(w, "done", Bumped(e))
    BY <1>1 DEF ActSaved
  <2>3. Bumped(e) \in Entity /\ act[w] \in Bumped(e).done
    BY <2>1, <2>2, PerformedIsEntity, BumpedIsEntity
  <2> QED
    BY <2>1, <2>2, <2>3 DEF Answer, Goto, Put, request, TypeOK
<1>2. CASE Deliver(w) \/ Lose(w)
  BY <1>2 DEF Deliver, Lose, Over, Goto, Answered, TypeOK
<1>3. CASE Fail(w)
  BY <1>3 DEF Fail, Answer, Goto, request, TypeOK
<1>4. CASE Check(w) \/ Fetch(w) \/ FetchKicked(w) \/ KickSaved(w) \/ KickRetry(w)
  BY <1>4 DEF Check, Fetch, FetchKicked, KickSaved, KickRetry, Goto, request, TypeOK
<1> QED
  BY <1>1, <1>2, <1>3, <1>4
     DEF Serve, CreateEngaged, CreateNew, CreateFault, ActNoSession, LeaveNoSession, CheckFails,
         FetchFails, KickFails, JoinSees, JoinSaved, JoinRefused, JoinFault, Registers,
         PollSame, PollChanged, LeaveSaved, NotSaved, Body, InPlace

\* Request x begins, with act a.
Sent(x, a) ==
  /\ fate[a] = "unsent" /\ fate' = [fate EXCEPT ![a] = "sent"]
  /\ act' = [act EXCEPT ![x] = a] /\ pc'[x] = "check" /\ UNCHANGED store

\* The client of request w hears what became of its act.
Told(w) ==
  /\ Answered(w) /\ pc'[w] = "idle" /\ act' = [act EXCEPT ![w] = None]
  /\ fate' = [fate EXCEPT ![act[w]] = IF pc[w] = "done" THEN id[w] ELSE "refused"]

LEMMA ActStep ==
  ASSUME CoreInv, ActsAreSaved, [Next]_vars
  PROVE  /\ \A x \in Workers : act'[x] \in {None, act[x]} \/ \E a \in Acts : Sent(x, a)
         /\ \A a \in Acts : \/ fate'[a] = fate[a]
                            \/ \E x \in Workers : Sent(x, a)
                            \/ \E w \in Workers : Told(w) /\ act[w] = a
<1> USE StoredIsEntity DEF CoreInv, Control, AllInPlace
<1>1. ASSUME NEW w \in Workers, NEW c \in Clients, Arrive(w, c), act'[w] # None
      PROVE  \E a \in Acts : Sent(w, a)
  BY <1>1 DEF Arrive, SendCreate, SendLeave, SendAct, SendJoin, SendPoll, Send, Goto, Sent, TypeOK
<1>2. ASSUME NEW w \in Workers, NEW c \in Clients, Arrive(w, c), act'[w] = None
      PROVE  fate' = fate /\ \A x \in Workers : act'[x] \in {None, act[x]}
  BY <1>2, OakAssumption
     DEF Arrive, SendCreate, SendLeave, SendAct, SendJoin, SendPoll, Send, TypeOK
<1>3. ASSUME NEW w \in Workers, Serve(w), op[w] # "act"
      PROVE  fate' = fate /\ \A x \in Workers : act'[x] \in {None, act[x]}
  BY <1>3 DEF Serve, CreateEngaged, CreateNew, CreateFault, ActNoSession, LeaveNoSession, Check,
         CheckFails, Fetch, FetchKicked, FetchFails, KickSaved, KickRetry, KickFails, JoinSees,
         JoinSaved, JoinRefused, JoinFault, PollSame, PollChanged, ActSaved, LeaveSaved,
         NotSaved, Fail, Answer, request, Deliver, Lose, Over, TypeOK
<1>4. ASSUME NEW w \in Workers, Serve(w), op[w] = "act"
      PROVE  /\ \A x \in Workers : act'[x] \in {None, act[x]}
             /\ fate' = fate \/ Told(w)
  BY <1>4, ServeActs DEF Told, TypeOK
<1>5. CASE Surroundings
  BY <1>5 DEF Surroundings, Forget, ClearOut, request, vars
<1>6. CASE \E w \in Workers, c \in Clients : Arrive(w, c)
  <2>1. PICK w \in Workers, c \in Clients : Arrive(w, c)
    BY <1>6
  <2>2. CASE act'[w] = None
    BY <1>2, <2>1, <2>2
  <2>3. CASE act'[w] # None
    BY <1>1, <2>1, <2>3 DEF Sent, TypeOK
  <2> QED
    BY <2>2, <2>3
<1>7. CASE \E w \in Workers : Serve(w)
  <2>1. PICK w \in Workers : Serve(w)
    BY <1>7
  <2>2. CASE op[w] # "act"
    BY <1>3, <2>1, <2>2
  <2>3. CASE op[w] = "act"
    BY <1>4, <2>1, <2>3 DEF Told, TypeOK
  <2> QED
    BY <2>2, <2>3
<1> QED
  BY <1>5, <1>6, <1>7, NextSteps

LEMMA DoneStep ==
  ASSUME CoreInv, [Next]_vars, NEW i \in Ids, db'[i] # None
  PROVE  \/ i \notin issued /\ db'[i].done = {}
         \/ i \in issued /\ db[i] # None /\ db'[i].done = db[i].done
         \/ /\ i \in issued /\ db[i] # None
            /\ \E w \in Workers : /\ op[w] = "act" /\ pc[w] # "done" /\ pc'[w] = "done"
                                  /\ db'[i].done = db[i].done \cup {act[w]}
<1> USE DEF CoreInv, Control
<1>1. ASSUME NEW w \in Workers, Creates(w)
      PROVE  db'[i] = db[i] \/ (i \notin issued /\ db'[i].done = {})
  BY <1>1 DEF Creates, NewEntity, TypeOK
<1>2. ASSUME NEW w \in Workers, Changes(w)
      PROVE  \/ db'[i] = db[i]
             \/ /\ i \in issued /\ db[i] # None
                /\ \/ db'[i].done = db[i].done
                   \/ /\ op[w] = "act" /\ pc[w] # "done" /\ pc'[w] = "done"
                      /\ db'[i].done = db[i].done \cup {act[w]}
  BY <1>2 DEF Changes, Advances, TypeOK
<1>3. CASE db'[i] = db[i]
  BY <1>3 DEF IdsAreIssued
<1>4. CASE \E w \in Workers : Serve(w)
  BY <1>1, <1>2, <1>3, <1>4, ServeStores DEF store
<1> QED
  BY <1>3, <1>4, OtherSteps, NextSteps

\* A request that has acted is about the same entity until its client hears of it.
LEMMA DoneActs ==
  ASSUME CoreInv, ActsAreSaved, [Next]_vars, NEW x \in Workers,
         act'[x] # None, pc'[x] = "done"
  PROVE  /\ act'[x] = act[x]
         /\ \/ id'[x] \in issued /\ (db'[id'[x]] # None => act[x] \in db'[id'[x]].done)
            \/ pc[x] = "done" /\ id'[x] = id[x]
<1> USE DEF CoreInv, Control, AllInPlace
<1>1. act'[x] = act[x]
  BY ActStep DEF Sent
<1>2. op[x] = "act"
  BY <1>1 DEF InPlace
<1>3. CASE Serve(x) /\ pc[x] \notin {"done", "failed"}
  BY <1>1, <1>2, <1>3, ServeActs
<1>4. CASE pc[x] = "done" /\ entity'[x] = entity[x] /\ (entity[x] # None => id'[x] = id[x])
  BY <1>1, <1>2, <1>4 DEF InPlace, Answered
<1> QED
  BY <1>1, <1>3, <1>4, AnswersWait

LEMMA StillActing ==
  ASSUME CoreInv, ActsAreSaved, [Next]_vars, NEW x \in Workers,
         act[x] # None, act'[x] = act[x], pc[x] = "done"
  PROVE  pc'[x] = "done"
<1> USE StoredIsEntity DEF CoreInv, Control, AllInPlace
<1>1. ASSUME NEW w \in Workers, Serve(w) \/ \E c \in Clients : Arrive(w, c), w # x
      PROVE  pc'[x] = pc[x]
  BY <1>1, ServeTouchesOne DEF Untouched
<1>2. ASSUME NEW c \in Clients PROVE ~Arrive(x, c)
  BY DEF Arrive, SendCreate, SendLeave, SendAct, SendJoin, SendPoll, Send
<1>3. CASE Serve(x)
  <2>1. Deliver(x) \/ Lose(x)
    BY <1>3 DEF Serve, CreateEngaged, CreateNew, CreateFault, ActNoSession, LeaveNoSession, Check,
         CheckFails, Fetch, FetchKicked, FetchFails, Found, KickSaved, KickRetry, KickFails,
         JoinSees, JoinSaved, JoinRefused, JoinFault, Registers, PollSame, PollChanged, ActSaved,
         LeaveSaved, NotSaved, Body
  <2> QED
    BY <2>1 DEF Deliver, Lose, Over, TypeOK
<1>4. CASE Surroundings
  BY <1>4 DEF Surroundings, Forget, ClearOut, vars
<1> QED
  BY <1>1, <1>2, <1>3, <1>4, NextSteps

LEMMA ActsAreSavedStep == CoreInv /\ ActsAreSaved /\ [Next]_vars => ActsAreSaved'
<1> SUFFICES ASSUME CoreInv, ActsAreSaved, [Next]_vars PROVE ActsAreSaved'
  OBVIOUS
<1> USE StoredIsEntity, OakAssumption DEF CoreInv, Control, AllInPlace
<1>1. /\ \A v, w \in Workers : act[v] # None /\ act[v] = act[w] => v = w
      /\ \A w \in Workers : act[w] # None => fate[act[w]] = "sent" /\ act[w] \in Acts
  BY DEF ActsAreSaved, InPlace
<1>2. ASSUME NEW w \in Workers, Told(w), act[w] # None
      PROVE  IF pc[w] = "done" THEN /\ fate'[act[w]] = id[w] /\ id[w] \in issued
                                    /\ db[id[w]] # None => act[w] \in db[id[w]].done
                               ELSE /\ fate'[act[w]] = "refused"
                                    /\ \A i \in Ids : db[i] # None => act[w] \notin db[i].done
  BY <1>1, <1>2 DEF Told, ActsAreSaved, TypeOK
<1>3. ASSUME NEW v \in Workers, NEW w \in Workers, act'[v] # None, act'[v] = act'[w]
      PROVE  v = w
  BY <1>1, <1>3, ActStep DEF Sent, TypeOK
<1>4. ASSUME NEW w \in Workers, act'[w] # None PROVE fate'[act'[w]] = "sent"
  <2>1. CASE \E a \in Acts : Sent(w, a)
    BY <2>1 DEF Sent, TypeOK
  <2>2. CASE act'[w] = act[w]
    <3>1. fate[act[w]] = "sent" /\ act[w] \in Acts
      BY <1>1, <1>4, <2>2
    <3>2. \A x \in Workers : ~Sent(x, act[w])
      BY <3>1 DEF Sent
    <3>3. \A x \in Workers : Told(x) => act[x] # act[w]
      BY <1>1, <1>4, <2>2 DEF Told, TypeOK
    <3> QED
      BY <2>2, <3>1, <3>2, <3>3, ActStep
  <2> QED
    BY <1>4, <2>1, <2>2, ActStep
<1>5. ASSUME NEW i \in issued, db'[i] # None
      PROVE  db[i] # None /\ db[i].done \subseteq db'[i].done
  BY <1>5, DoneStep DEF TypeOK
<1>6. ASSUME NEW w \in Workers, act'[w] # None, pc'[w] = "done"
      PROVE  id'[w] \in issued /\ (db'[id'[w]] # None => act'[w] \in db'[id'[w]].done)
  <2>1. CASE pc[w] = "done" /\ id'[w] = id[w] /\ act'[w] = act[w]
    BY <1>5, <1>6, <2>1 DEF ActsAreSaved
  <2> QED
    BY <1>6, <2>1, DoneActs
<1>7. ASSUME NEW i \in Ids, db'[i] # None, NEW w \in Workers, pc'[w] # "done"
      PROVE  act'[w] \notin db'[i].done
  <2>1. CASE act'[w] = None
    BY <1>7, <2>1, TypeStep DEF TypeOK, Entity
  <2>2. CASE \E a \in Acts : Sent(w, a)
    BY <1>7, <2>2 DEF Sent, store, ActsAreSaved, TypeOK
  <2>3. CASE act'[w] = act[w] /\ act[w] # None
    <3>1. pc[w] # "done"
      BY <1>7, <2>3, StillActing
    <3>2. db[i] # None => act[w] \notin db[i].done
      BY <3>1 DEF ActsAreSaved
    <3>3. \A x \in Workers : act[x] = act[w] => x = w
      BY <1>1, <2>3
    <3> QED
      BY <1>7, <2>3, <3>2, <3>3, DoneStep
  <2> QED
    BY <2>1, <2>2, <2>3, ActStep
<1>8. ASSUME NEW i \in Ids, db'[i] # None, NEW a \in db'[i].done
      PROVE  fate'[a] \notin {"unsent", "refused"}
  <2>1. a \in Acts
    BY <1>8, TypeStep DEF TypeOK, Entity
  <2>2. CASE db[i] # None /\ a \in db[i].done
    <3>1. fate[a] \notin {"unsent", "refused"}
      BY <2>2 DEF ActsAreSaved
    <3>2. ASSUME NEW w \in Workers, Told(w), act[w] = a PROVE fate'[a] \notin {"unsent", "refused"}
      BY <1>2, <2>1, <2>2, <3>2 DEF TypeOK
    <3> QED
      BY <2>1, <3>1, <3>2, ActStep DEF Sent
  <2>3. CASE \E w \in Workers : op[w] = "act" /\ pc[w] # "done" /\ pc'[w] = "done" /\ a = act[w]
    <3>1. PICK w \in Workers : op[w] = "act" /\ pc'[w] = "done" /\ a = act[w]
      BY <2>3
    <3>2. fate[a] = "sent"
      BY <1>1, <2>1, <3>1
    <3>3. \A x \in Workers : Told(x) => act[x] # a
      BY <1>1, <2>1, <3>1 DEF Told
    <3> QED
      BY <2>1, <3>2, <3>3, ActStep DEF Sent
  <2> QED
    BY <1>8, <2>2, <2>3, DoneStep
<1>9. ASSUME NEW a \in Acts, fate'[a] \in Ids
      PROVE  fate'[a] \in issued /\ (db'[fate'[a]] # None => a \in db'[fate'[a]].done)
  <2>1. CASE fate'[a] = fate[a]
    BY <1>5, <1>9, <2>1 DEF ActsAreSaved
  <2>2. CASE \E x \in Workers : Sent(x, a)
    BY <1>9, <2>2 DEF Sent, TypeOK
  <2>3. CASE \E w \in Workers : Told(w) /\ act[w] = a
    BY <1>2, <1>5, <1>9, <2>3
  <2> QED
    BY <2>1, <2>2, <2>3, ActStep
<1>10. issued \subseteq issued'
  BY ServeStores, OtherSteps, NextSteps DEF Creates, Changes, store
<1> QED
  BY <1>3, <1>4, <1>6, <1>7, <1>8, <1>9, <1>10 DEF ActsAreSaved

\* What a client is told of its act is true, then and ever after: a success is in the
\* entity for as long as it is there, a failure in none (oak.go:179-221).
THEOREM ActsAreAnsweredTruly == Spec => []AnsweredActs
<1>1. Init => ActsAreSaved
  BY OakAssumption DEF Init, ActsAreSaved
<1>2. CoreInv /\ ActsAreSaved => AnsweredActs
  BY DEF AnsweredActs, ActsAreSaved
<1> QED
  BY <1>1, <1>2, ActsAreSavedStep, CoreAlways, PTL DEF Spec

-----------------------------------------------------------------------------
(* Clients that wait for their answers, and get them.                      *)

Orderly == OneAtATime /\ "save" \notin Faults /\ "lost" \notin Faults

\* The user of request w has left entity i, and its client is about to hear of it.
Leaves(w, u, i) ==
  /\ Serve(w) /\ sess[w] # None /\ sess[w].id = i /\ sess[w].user = u
  /\ sess'[w] = None /\ saved'[w] /\ pc'[w] = "done" /\ who' = who

LEMMA HereStep ==
  ASSUME CoreInv, Orderly, [Next]_vars, NEW i \in issued, db'[i] # None
  PROVE  /\ db[i] # None /\ i \in Ids
         /\ \A u \in db[i].here : u \in db'[i].here \/ \E w \in Workers : Leaves(w, u, i)
<1> USE StoredIsEntity DEF CoreInv, Control, AllInPlace
<1>1. i \in Ids
  BY DEF TypeOK
<1>2. ASSUME NEW w \in Workers, Serve(w), Creates(w) \/ UNCHANGED store PROVE db'[i] = db[i]
  BY <1>1, <1>2 DEF Creates, store, TypeOK
<1>3. ASSUME NEW w \in Workers, Serve(w), Changes(w), op[w] # "leave" \/ i # id[w]
      PROVE  db[i] # None /\ db[i].here \subseteq db'[i].here
  BY <1>1, <1>3 DEF Changes, Advances, TypeOK
<1>4. ASSUME NEW w \in Workers, Serve(w), Changes(w), op[w] = "leave", i = id[w]
      PROVE  db[i] # None /\ \A u \in db[i].here : u \in db'[i].here \/ Leaves(w, u, i)
  <2>1. db'[i] # db[i] /\ pc[w] = "body" /\ sess[w] # None /\ sess[w].id = i
    BY <1>1, <1>4 DEF Changes, Advances, InPlace, Entity, TypeOK
  <2>2. LeaveSaved(w)
    BY <1>4, <2>1
       DEF Serve, CreateEngaged, CreateNew, CreateFault, ActNoSession, LeaveNoSession, Check,
         CheckFails, Fetch, FetchKicked, FetchFails, Found, KickSaved, KickRetry, KickFails,
         JoinSees, JoinSaved, JoinRefused, JoinFault, Registers, PollSame, PollChanged, ActSaved,
         NotSaved, Body, Fail, store, Deliver, Lose, Over
  <2>3. sess'[w] = None /\ saved'[w] /\ pc'[w] = "done" /\ who' = who
    BY <2>2 DEF LeaveSaved, SetSession, Orderly, Answer, Goto, request, TypeOK
  <2>4. db[i] # None /\ db[i].here \ {sess[w].user} \subseteq db'[i].here
    BY <1>1, <1>4 DEF Changes, Advances, TypeOK
  <2> QED
    BY <1>4, <2>1, <2>3, <2>4 DEF Leaves
<1>5. CASE db'[i] = db[i]
  BY <1>1, <1>5
<1> QED
  BY <1>1, <1>2, <1>3, <1>4, <1>5, ServeStores, OtherSteps, NextSteps

LEMMA OneRequestStep == CoreInv /\ Orderly /\ OneRequest /\ [Next]_vars => OneRequest'
<1> SUFFICES ASSUME CoreInv, Orderly, OneRequest, [Next]_vars PROVE OneRequest'
  OBVIOUS
<1> USE DEF CoreInv, Control, OneRequest
<1>1. ASSUME NEW w \in Workers, NEW c \in Clients, Arrive(w, c) PROVE OneRequest'
  BY <1>1 DEF Arrive, SendCreate, SendLeave, SendAct, SendJoin, SendPoll, Send, Free, Orderly,
              TypeOK
<1>2. ASSUME NEW w \in Workers, Serve(w) PROVE OneRequest'
  <2>1. who' = who \/ who' = [who EXCEPT ![w] = None]
    BY <1>2 DEF Serve, CreateEngaged, CreateNew, CreateFault, ActNoSession, LeaveNoSession, Check,
         CheckFails, Fetch, FetchKicked, FetchFails, KickSaved, KickRetry, KickFails, JoinSees,
         JoinSaved, JoinRefused, JoinFault, PollSame, PollChanged, ActSaved, LeaveSaved,
         NotSaved, Fail, Answer, request, Deliver, Lose, Over
  <2> QED
    BY <2>1 DEF TypeOK
<1>3. CASE Surroundings
  BY <1>3 DEF Surroundings, Forget, ClearOut, request, vars
<1> QED
  BY <1>1, <1>2, <1>3, NextSteps

LEMMA LeaversAreOneClients ==
  ASSUME CoreInv, SeatsAreTaken, NEW w \in Workers, NEW c \in Clients, NEW t \in SeatsOf(c),
         Leaves(w, t.user, t.id)
  PROVE  who[w] = c
<1>1. who[w] \in Clients /\ sess[w] \in SeatsOf(who[w])
  BY StoredIsEntity DEF Leaves, SeatsOf, CoreInv, Control, AllInPlace, InPlace
<1> QED
  BY <1>1 DEF Leaves, SeatsAreTaken

LEMMA SessionsAreHereStep ==
  ASSUME CoreInv, SeatsAreTaken, Orderly, OneRequest, SessionsAreHere, CookiesAreHere,
         [Next]_vars
  PROVE  SessionsAreHere'
<1> USE StoredIsEntity DEF CoreInv, Control, AllInPlace
<1> SUFFICES ASSUME NEW x \in Workers, sess'[x] # None, db'[sess'[x].id] # None
             PROVE  sess'[x].user \in db'[sess'[x].id].here
  BY DEF SessionsAreHere
<1>1. CASE sess[x] # None /\ sess'[x].user = sess[x].user /\ sess'[x].id = sess[x].id
  <2>1. sess[x].id \in issued /\ db[sess[x].id] # None
    BY <1>1, HereStep DEF IdsAreIssued
  <2>2. sess[x].user \in db[sess[x].id].here
    BY <1>1, <2>1 DEF SessionsAreHere
  <2>3. ASSUME NEW w \in Workers, Leaves(w, sess[x].user, sess[x].id) PROVE FALSE
    <3>1. who[x] \in Clients /\ sess[x] \in SeatsOf(who[x])
      BY <1>1 DEF SeatsOf, InPlace
    <3>2. w = x
      BY <2>3, <3>1, LeaversAreOneClients, OakAssumption DEF OneRequest
    <3> QED
      BY <2>3, <3>2 DEF Leaves
  <2> QED
    BY <1>1, <2>1, <2>2, <2>3, HereStep
<1>2. CASE NewSession(x)
  <2>1. PICK u \in Users, i \in Ids, e \in Entity :
          /\ sess'[x] = [user |-> u, id |-> i, entity |-> e]
          /\ NewUser(u, i, e) \/ SameUser(x, u, i, e)
    BY <1>2 DEF NewSession
  <2>2. sess'[x].user = u /\ sess'[x].id = i
    BY <2>1
  <2> QED
    BY <1>1, <2>1, <2>2 DEF NewUser, SameUser
<1>3. CASE who'[x] \in Clients /\ Free(who'[x]) /\ sess'[x] = cookie[who'[x]] /\ UNCHANGED store
  BY <1>3 DEF Free, Orderly, CookiesAreHere, store
<1> QED
  BY <1>1, <1>2, <1>3, SessionStep

LEMMA CookiesAreHereStep ==
  ASSUME CoreInv, SeatsAreTaken, Orderly, OneRequest, SessionsAreHere, CookiesAreHere,
         [Next]_vars
  PROVE  CookiesAreHere'
<1> USE StoredIsEntity DEF CoreInv, Control, AllInPlace
<1> SUFFICES ASSUME NEW c \in Clients, cookie'[c] # None, db'[cookie'[c].id] # None
             PROVE  \/ cookie'[c].user \in db'[cookie'[c].id].here
                    \/ \E w \in Workers : who'[w] = c /\ pc'[w] = "done" /\ saved'[w]
  BY DEF CookiesAreHere
<1>1. CASE \E w \in Workers : Deliver(w) /\ who[w] = c /\ saved[w] /\ cookie'[c] = sess[w]
  BY <1>1 DEF Deliver, Over, store, SessionsAreHere
<1>2. CASE cookie'[c] = cookie[c]
  <2>1. cookie[c].id \in issued /\ db[cookie[c].id] # None
    BY <1>2, HereStep DEF IdsAreIssued
  <2>2. CASE cookie[c].user \in db[cookie[c].id].here
    <3>1. ASSUME NEW w \in Workers, Leaves(w, cookie[c].user, cookie[c].id) PROVE who[w] = c
      BY <1>2, <3>1, LeaversAreOneClients DEF SeatsOf
    <3> QED
      BY <1>2, <2>1, <2>2, <3>1, HereStep DEF Leaves
  <2>3. ASSUME NEW w \in Workers, who[w] = c, pc[w] = "done", saved[w]
        PROVE  \/ Deliver(w) /\ cookie'[c] = sess[w]
               \/ who'[w] = c /\ pc'[w] = "done" /\ saved'[w]
    <3>1. ASSUME NEW v \in Workers, Serve(v) \/ \E d \in Clients : Arrive(v, d), v # w
          PROVE  who'[w] = c /\ pc'[w] = "done" /\ saved'[w]
      BY <2>3, <3>1, ServeTouchesOne DEF Untouched
    <3>2. ASSUME NEW d \in Clients PROVE ~Arrive(w, d)
      BY <2>3 DEF Arrive, SendCreate, SendLeave, SendAct, SendJoin, SendPoll, Send
    <3>3. CASE Serve(w)
      <4>1. Deliver(w)
        BY <2>3, <3>3
           DEF Orderly, Serve, CreateEngaged, CreateNew, CreateFault, ActNoSession,
               LeaveNoSession, Check, CheckFails, Fetch, FetchKicked, FetchFails, Found,
               KickSaved, KickRetry, KickFails, JoinSees, JoinSaved, JoinRefused, JoinFault,
               Registers, PollSame, PollChanged, ActSaved, LeaveSaved, NotSaved, Body, Lose
      <4> QED
        BY <2>3, <4>1 DEF Deliver, TypeOK
    <3>4. CASE Surroundings
      BY <2>3, <3>4 DEF Surroundings, Forget, ClearOut, request, vars
    <3> QED
      BY <3>1, <3>2, <3>3, <3>4, NextSteps
  <2>4. CASE \E w \in Workers : who[w] = c /\ pc[w] = "done" /\ saved[w]
    BY <1>1, <2>3, <2>4
  <2> QED
    BY <1>2, <2>1, <2>2, <2>4 DEF CookiesAreHere
<1> QED
  BY <1>1, <1>2, CookieStep

\* A client that has its answers, one after the other, and is engaged is a user of the
\* entity until it leaves, whatever the other clients do (oak.go:118-145, 223-258).
THEOREM EngagedStayRegistered == Orderly => (Spec => []EngagedIsRegistered)
<1> SUFFICES ASSUME Orderly PROVE Spec => []EngagedIsRegistered
  OBVIOUS
<1> DEFINE HereInv == SeatsAreTaken /\ OneRequest /\ SessionsAreHere /\ CookiesAreHere
<1>1. Init => HereInv
  BY DEF Init, SeatsAreTaken, SeatsOf, Seated, OneRequest, SessionsAreHere, CookiesAreHere
<1>2. CoreInv /\ HereInv /\ [Next]_vars => HereInv'
  BY SeatsAreTakenStep, OneRequestStep, SessionsAreHereStep, CookiesAreHereStep
<1>3. HereInv => EngagedIsRegistered
  BY DEF EngagedIsRegistered, CookiesAreHere
<1> HIDE DEF HereInv
<1> QED
  BY <1>1, <1>2, <1>3, CoreAlways, PTL DEF Spec

-----------------------------------------------------------------------------
(* The store as its callers see it.                                        *)

LEMMA LastingIs ==
  /\ Lasting(None) = None
  /\ \A e \in Entity :
       /\ Lasting(e) = [v |-> e.v, marks |-> e.done \cup (e.known \ e.here)]
       /\ Lasting(e) \in Abstract!Entity /\ Lasting(e) # None
<1>1. Lasting(None) = None
  BY DEF Lasting
<1>2. ASSUME NEW e \in Entity
      PROVE  /\ Lasting(e) = [v |-> e.v, marks |-> e.done \cup (e.known \ e.here)]
             /\ Lasting(e) \in Abstract!Entity
  <2>1. e # None
    BY OakAssumption
  <2>2. e.v \in Nat /\ e.done \cup (e.known \ e.here) \in SUBSET (Users \cup Acts)
    BY DEF Entity
  <2> QED
    BY <2>1, <2>2 DEF Lasting, Abstract!Entity
<1> QED
  BY <1>1, <1>2, OakAssumption DEF Abstract!Entity

LEMMA StoreMoves ==
  CoreInv /\ [Next]_vars => [Abstract!Next]_<<[i \in Ids |-> Lasting(db[i])], issued>>
<1> DEFINE seen == [i \in Ids |-> Lasting(db[i])]
<1> SUFFICES ASSUME CoreInv, [Next]_vars
             PROVE  \/ \E B \in SUBSET Ids :
                         Abstract!Create(B) \/ Abstract!Update(B) \/ Abstract!Delete(B)
                    \/ UNCHANGED <<seen, issued>>
  BY DEF Abstract!Next
<1>0. \A i \in Ids : db[i] \in Entity \cup {None} /\ db'[i] \in Entity \cup {None}
  BY CoreStep DEF CoreInv, Control, TypeOK
<1>1. \A i \in Ids : seen[i] = Lasting(db[i]) /\ seen'[i] = Lasting(db'[i])
  BY DEF Lasting
<1>2. ASSUME NEW w \in Workers, Creates(w)
      PROVE  \E B \in SUBSET Ids : Abstract!Create(B)
  <2>1. PICK i \in Ids \ issued, u \in Users :
          issued' = issued \cup {i} /\ db' = [db EXCEPT ![i] = NewEntity(u)]
    BY <1>2 DEF Creates
  <2>2. Lasting(NewEntity(u)) = [v |-> 0, marks |-> {}]
    <3>1. NewEntity(u).v = 0 /\ NewEntity(u).done \cup (NewEntity(u).known \ NewEntity(u).here) = {}
      BY DEF NewEntity
    <3> QED
      BY <3>1, LastingIs, NewIsEntity
  <2>3. /\ db'[i] = NewEntity(u)
        /\ \A j \in Ids \ {i} : db'[j] = db[j]
    BY <2>1 DEF CoreInv, Control, TypeOK
  <2>4. seen' = [j \in Ids |-> IF j \in {i} THEN [v |-> 0, marks |-> {}] ELSE seen[j]]
    BY <1>1, <2>2, <2>3
  <2>5. Abstract!Create({i})
    BY <2>1, <2>4 DEF Abstract!Create
  <2> QED
    BY <2>5
<1>3. ASSUME NEW w \in Workers, Changes(w)
      PROVE  \E B \in SUBSET Ids : Abstract!Update(B)
  <2> DEFINE i == id[w]
  <2>1. PICK f \in Entity :
          /\ i \in issued /\ db[i] # None /\ Advances(w, db[i], f)
          /\ issued' = issued /\ db' = [db EXCEPT ![i] = f]
    BY <1>3 DEF Changes
  <2>2. i \in Ids /\ db[i] \in Entity
    BY <1>0, <2>1 DEF CoreInv, Control, TypeOK
  <2>3. db'[i] = f /\ \A j \in Ids \ {i} : db'[j] = db[j]
    BY <2>1, <2>2 DEF CoreInv, Control, TypeOK
  <2>4. /\ f.v = db[i].v + 1
        /\ db[i].done \cup (db[i].known \ db[i].here) \subseteq f.done \cup (f.known \ f.here)
    BY <2>1 DEF Advances
  <2> HIDE DEF i, seen
  <2>5. /\ seen[i] # None /\ seen'[i] # None
        /\ seen'[i].v = seen[i].v + 1 /\ seen[i].marks \subseteq seen'[i].marks
    <3>1. /\ seen[i] = Lasting(db[i]) /\ seen'[i] = Lasting(f)
      BY <1>1, <2>2, <2>3
    <3>2. /\ Lasting(db[i]) = [v |-> db[i].v, marks |-> db[i].done \cup (db[i].known \ db[i].here)]
          /\ Lasting(f) = [v |-> f.v, marks |-> f.done \cup (f.known \ f.here)]
          /\ Lasting(db[i]) # None /\ Lasting(f) # None
      BY <2>2, LastingIs
    <3> QED
      BY <2>4, <3>1, <3>2
  <2>6. seen' \in [Ids -> Abstract!Entity \cup {None}]
    BY <1>0, LastingIs DEF seen
  <2>7. \A j \in Ids \ {i} : seen'[j] = seen[j]
    BY <1>1, <2>3
  <2>8. Abstract!Update({i})
    BY <2>1, <2>5, <2>6, <2>7 DEF Abstract!Update, seen
  <2> QED
    BY <2>2, <2>8
<1>4. ASSUME NEW i \in Ids, ClearOut(i)
      PROVE  \E B \in SUBSET Ids : Abstract!Delete(B)
  <2>1. db' = [db EXCEPT ![i] = None] /\ issued' = issued
    BY <1>4 DEF ClearOut
  <2>2. seen' = [j \in Ids |-> IF j \in {i} THEN None ELSE seen[j]]
    BY <1>1, <2>1, LastingIs DEF CoreInv, Control, TypeOK
  <2>3. Abstract!Delete({i})
    BY <2>1, <2>2 DEF Abstract!Delete
  <2> QED
    BY <2>3
<1>5. CASE UNCHANGED store
  BY <1>5 DEF store, Lasting
<1>6. ASSUME NEW w \in Workers, Serve(w) PROVE Creates(w) \/ Changes(w) \/ UNCHANGED store
  BY <1>6, ServeStores DEF CoreInv
<1>7. ASSUME NEW w \in Workers, NEW c \in Clients, Arrive(w, c) PROVE UNCHANGED store
  BY <1>7 DEF Arrive, SendCreate, SendLeave, SendAct, SendJoin, SendPoll, Send
<1>8. ASSUME NEW c \in Clients, Forget(c) PROVE UNCHANGED store
  BY <1>8 DEF Forget
<1>9. CASE UNCHANGED vars
  BY <1>9 DEF vars, store
<1> HIDE DEF seen
<1>10. ASSUME NEW w \in Workers, Serve(w)
       PROVE  \/ \E B \in SUBSET Ids :
                   Abstract!Create(B) \/ Abstract!Update(B) \/ Abstract!Delete(B)
              \/ UNCHANGED <<seen, issued>>
  BY <1>2, <1>3, <1>5, <1>6, <1>10
<1> QED
  BY <1>4, <1>5, <1>7, <1>8, <1>9, <1>10 DEF Next

\* The handlers of oak, each with its own copy of an entity, over an Update that compares
\* versions, are a store with atomic updates that lose nothing: for any number of requests
\* at a time, whatever fails and whatever is cleared out (oak.go:85-102, 134-138, 199-211).
THEOREM OakImplementsSequentialStore == Spec => ImplementsSequentialStore
<1>1. Init => Abstract!Init
  BY DEF Init, Abstract!Init, Lasting
<1> QED
  BY <1>1, StoreMoves, CoreAlways, PTL DEF Spec, ImplementsSequentialStore, Abstract!Spec

-----------------------------------------------------------------------------
(* The steps that a request takes.                                         *)

LEMMA LeftIs ==
  \A w \in Workers :
    /\ pc[w] = "idle" => Left(w) = 0
    /\ pc[w] \in {"done", "failed"} => Left(w) = 1
    /\ pc[w] \in {"create", "body"} => Left(w) = 2
    /\ pc[w] = "kick" => Left(w) = 5 - 2 * tries[w]
    /\ pc[w] = "fetch" => Left(w) = 6 - 2 * tries[w]
    /\ pc[w] = "check" => Left(w) = 7
  BY DEF Left

LEMMA LeftNext ==
  \A w \in Workers :
    /\ pc'[w] = "idle" => Left(w)' = 0
    /\ pc'[w] \in {"done", "failed"} => Left(w)' = 1
    /\ pc'[w] \in {"create", "body"} => Left(w)' = 2
    /\ pc'[w] = "kick" => Left(w)' = 5 - 2 * tries'[w]
    /\ pc'[w] = "fetch" => Left(w)' = 6 - 2 * tries'[w]
    /\ pc'[w] = "check" => Left(w)' = 7
  BY DEF Left

LEMMA ServeCounts ==
  ASSUME TypeOK, AllInPlace, NEW w \in Workers, Serve(w)
  PROVE  Left(w)' < Left(w)
<1>0. pc[w] \in PCs /\ tries[w] \in {0, 1}
  BY DEF TypeOK
<1>1. ASSUME NEW l \in {"done", "failed"}, NEW e, Answer(w, l, e), pc[w] \notin {"idle", "done", "failed"}
      PROVE  Left(w)' < Left(w)
  <2>1. pc'[w] = l
    BY <1>1 DEF Answer, Goto, TypeOK
  <2>2. Left(w)' = 1
    BY <2>1, LeftNext
  <2>3. Left(w) \in 2..7
    BY <1>0, <1>1, LeftIs DEF PCs
  <2> QED
    BY <2>2, <2>3
<1>2. CASE Deliver(w) \/ Lose(w)
  <2>1. pc[w] \in {"done", "failed"} /\ pc'[w] = "idle"
    BY <1>2 DEF Deliver, Lose, Answered, Over, Goto, TypeOK
  <2> QED
    BY <2>1, LeftIs, LeftNext
<1>3. CASE Check(w)
  <2>1. pc[w] = "check" /\ pc'[w] = "fetch" /\ tries'[w] \in {0, 1}
    BY <1>3 DEF Check, Goto, TypeOK
  <2> QED
    BY <2>1, LeftIs, LeftNext
<1>4. CASE Fetch(w) \/ FetchKicked(w)
  <2>1. pc[w] = "fetch" /\ (pc'[w] = "body" \/ (pc'[w] = "kick" /\ tries'[w] = tries[w]))
    BY <1>4 DEF Fetch, FetchKicked, Found, Goto, TypeOK
  <2> QED
    BY <1>0, <2>1, LeftIs, LeftNext
<1>5. CASE KickSaved(w)
  <2>1. pc[w] = "kick" /\ pc'[w] = "body"
    BY <1>5 DEF KickSaved, Goto, TypeOK
  <2> QED
    BY <1>0, <2>1, LeftIs, LeftNext
<1>6. CASE KickRetry(w)
  <2>1. pc[w] = "kick" /\ tries[w] = 0 /\ pc'[w] = "fetch" /\ tries'[w] = 1
    BY <1>6 DEF KickRetry, Goto, TypeOK
  <2> QED
    BY <2>1, LeftIs, LeftNext
<1>7. CASE CreateEngaged(w) \/ CreateNew(w) \/ LeaveNoSession(w) \/ JoinSees(w) \/ JoinSaved(w)
           \/ JoinRefused(w) \/ JoinFault(w) \/ PollSame(w) \/ PollChanged(w) \/ ActSaved(w)
           \/ LeaveSaved(w)
  <2>1. pc[w] \in {"create", "check", "body"} /\ \E e : Answer(w, "done", e)
    BY <1>7 DEF CreateEngaged, CreateNew, LeaveNoSession, JoinSees, JoinSaved, JoinRefused,
                JoinFault, PollSame, PollChanged, ActSaved, LeaveSaved, Registers, Body
  <2> QED
    BY <1>1, <2>1
<1>8. CASE CreateFault(w) \/ ActNoSession(w) \/ CheckFails(w) \/ FetchFails(w) \/ KickFails(w)
           \/ NotSaved(w)
  <2>1. pc[w] \in {"create", "check", "fetch", "kick", "body"} /\ Answer(w, "failed", None)
    BY <1>8 DEF CreateFault, ActNoSession, CheckFails, FetchFails, KickFails, NotSaved, Fail
  <2> QED
    BY <1>1, <2>1
<1> QED
  BY <1>2, <1>3, <1>4, <1>5, <1>6, <1>7, <1>8 DEF Serve

\* A request takes seven steps at most from its arrival to its answer and the end of it,
\* however many others there are and whatever they do to its entity: fetchEntity tries
\* twice, and no handler waits (oak.go:85-102).
THEOREM StepsAreCounted == Spec => EveryStepCounts
<1>1. ASSUME CoreInv, [Next]_vars, NEW w \in Workers, pc[w] # "idle", pc'[w] # pc[w]
      PROVE  Left(w)' < Left(w)
  <2>1. CASE Serve(w)
    BY <1>1, <2>1, ServeCounts DEF CoreInv, Control
  <2>2. ASSUME NEW x \in Workers \ {w}, Serve(x) \/ \E c \in Clients : Arrive(x, c) PROVE FALSE
    BY <1>1, <2>2, ServeTouchesOne DEF CoreInv, Control, Untouched
  <2>3. ASSUME NEW c \in Clients, Arrive(w, c) PROVE FALSE
    BY <1>1, <2>3 DEF Arrive, SendCreate, SendLeave, SendAct, SendJoin, SendPoll, Send
  <2>4. ASSUME Surroundings PROVE FALSE
    BY <1>1, <2>4 DEF Surroundings, Forget, ClearOut, vars
  <2> QED
    BY <1>1, <2>1, <2>2, <2>3, <2>4 DEF Next, Surroundings
<1>2. CoreInv /\ [Next]_vars =>
        [\A w \in Workers : pc[w] # "idle" /\ pc'[w] # pc[w] => Left(w)' < Left(w)]_vars
  BY <1>1
<1> QED
  BY <1>2, CoreAlways, PTL DEF Spec, EveryStepCounts
=============================================================================
