-------------------------------- MODULE Oak --------------------------------
(***************************************************************************)
(* Package oak: the five HTTP handlers that let clients create, join, poll,*)
(* act on and leave shared entities.  Each request is served by its own    *)
(* goroutine; the entity store is shared, and the session travels with the *)
(* client, in a cookie.  The store's Create, Read and Update are single    *)
(* steps here: SusStore implements them atomically.                        *)
(*                                                                         *)
(* The application's Entity is external.  Any of its methods may return an *)
(* error.  The model assumes that RegisterNewUser never returns the id of  *)
(* an earlier user of the entity, that UnregisterUser refuses a user who   *)
(* is not there, and that Kick may end the entity but registers and        *)
(* unregisters nobody.                                                     *)
(***************************************************************************)
EXTENDS Naturals

CONSTANTS Clients,     \* the browsers, each with its cookie
          Workers,     \* the goroutines that serve requests
          Ids,         \* the entity ids
          Users,       \* the user ids that entities hand out
          Acts,        \* the acts that clients send, each at most once
          None,        \* no entity, no session, no client, no id, no act
          OneAtATime,  \* TRUE: a client waits for an answer before it asks again
          Faults,      \* what may go wrong, of FaultKinds
          MaxVersion   \* bound: the Entity changes no entity of this version

FaultKinds == {"store",     \* the store reports an error and stores nothing
               "save",      \* sessions.Save fails (the cookie is too long)
               "lost",      \* a response does not reach its client
               "maxage",    \* a cookie reaches the end of its life
               "clearout"}  \* the store clears an entity out

Entity == [v : Nat,                 \* GetVersion
           known : SUBSET Users,    \* the users it has ever registered
           here : SUBSET Users,     \* those it has not unregistered
           done : SUBSET Acts,      \* the acts performed on it
           active : BOOLEAN]        \* IsActive

Session == [user : Users, id : Ids, entity : Entity]

ASSUME OakAssumption ==
  /\ None \notin Entity \cup Session \cup Clients \cup Ids \cup Acts
  /\ None \notin [v : Nat, marks : SUBSET (Users \cup Acts)]
  /\ Ids \cap {"unsent", "sent", "refused"} = {}
  /\ OneAtATime \in BOOLEAN
  /\ Faults \subseteq FaultKinds
  /\ MaxVersion \in Nat

VARIABLES
  db,      \* db[id]: the stored entity
  issued,  \* the ids that Create has returned
  cookie,  \* cookie[c]: the session that client c would send
  fate,    \* fate[a]: what its client knows of act a: the entity it was performed on, when
           \* the answer said so (history)
  pc,      \* pc[w]: where worker w is
  op,      \* op[w]: the handler
  who,     \* who[w]: the client
  act,     \* act[w]: the act in the request's body
  sess,    \* sess[w]: the handler's session struct
  saved,   \* saved[w]: the response sets the client's cookie to sess[w]
  id,      \* id[w]: the entity's id, of the request or of the session
  entity,  \* entity[w]: the handler's copy of the entity
  tries    \* tries[w]: fetchEntity's retryCount

vars == <<db, issued, cookie, fate, pc, op, who, act, sess, saved, id, entity, tries>>
store == <<db, issued>>
request == <<op, who, act>>

Handlers == {"create", "join", "poll", "act", "leave"}

\* "done" and "failed": the response is written, with status 200 or 500.
PCs == {"idle", "create", "check", "fetch", "kick", "body", "done", "failed"}

TypeOK ==
  /\ db \in [Ids -> Entity \cup {None}]
  /\ issued \subseteq Ids
  /\ cookie \in [Clients -> Session \cup {None}]
  /\ fate \in [Acts -> {"unsent", "sent", "refused"} \cup Ids]
  /\ pc \in [Workers -> PCs]
  /\ op \in [Workers -> Handlers \cup {"none"}]
  /\ who \in [Workers -> Clients \cup {None}]
  /\ act \in [Workers -> Acts \cup {None}]
  /\ sess \in [Workers -> Session \cup {None}]
  /\ saved \in [Workers -> BOOLEAN]
  /\ id \in [Workers -> Ids \cup {None}]
  /\ entity \in [Workers -> Entity \cup {None}]
  /\ tries \in [Workers -> {0, 1}]

Init ==
  /\ db = [i \in Ids |-> None]
  /\ issued = {}
  /\ cookie = [c \in Clients |-> None]
  /\ fate = [a \in Acts |-> "unsent"]
  /\ pc = [w \in Workers |-> "idle"]
  /\ op = [w \in Workers |-> "none"]
  /\ who = [w \in Workers |-> None]
  /\ act = [w \in Workers |-> None]
  /\ sess = [w \in Workers |-> None]
  /\ saved = [w \in Workers |-> FALSE]
  /\ id = [w \in Workers |-> None]
  /\ entity = [w \in Workers |-> None]
  /\ tries = [w \in Workers |-> 0]

Goto(w, l) == pc' = [pc EXCEPT ![w] = l]
Become(w, e) == entity' = [entity EXCEPT ![w] = e]

-----------------------------------------------------------------------------
(* The application's Entity.  Each method is the set of entities it may    *)
(* leave; the empty set is an error.                                       *)

Changeable(e) == e.v < MaxVersion

NewEntity(u) == [v |-> 0, known |-> {u}, here |-> {u}, done |-> {}, active |-> TRUE]

\* Kick returned true: the entity may have come to its end.
Kicked(e) == {[e EXCEPT !.active = b] : b \in {x \in {e.active, FALSE} : Changeable(e)}}

Registered(e, u) ==
  {[f EXCEPT !.known = @ \cup {u}, !.here = @ \cup {u}] :
     f \in {g \in {e} : Changeable(e) /\ u \notin e.known}}

Unregistered(e, u) ==
  {[f EXCEPT !.here = @ \ {u}] : f \in {g \in {e} : Changeable(e) /\ u \in e.here}}

Performed(e, a) ==
  {[e EXCEPT !.done = @ \cup {a}, !.active = b] :
     b \in {x \in {e.active, FALSE} : Changeable(e)}}

-----------------------------------------------------------------------------
(* Sessions.                                                               *)

\* The negation of isNotEngaged.
Engaged(w) == sess[w] # None /\ sess[w].entity.active

-----------------------------------------------------------------------------
(* Answers.  What a handler no longer needs of its variables is cleared.   *)

\* The response says nothing of the session.
NoCookie(w) ==
  /\ sess' = [sess EXCEPT ![w] = None]
  /\ saved' = [saved EXCEPT ![w] = FALSE]

\* session.set, and session.clear when s is None.  An error of sessions.Save is
\* not looked at: the handler goes on.
SetSession(w, s) ==
  \/ /\ sess' = [sess EXCEPT ![w] = s]
     /\ saved' = [saved EXCEPT ![w] = TRUE]
  \/ "save" \in Faults /\ NoCookie(w)

\* Status l, and the entity e in the answer, if any.
Answer(w, l, e) ==
  /\ Goto(w, l)
  /\ Become(w, e)
  /\ id' = [id EXCEPT ![w] = IF e = None THEN None ELSE @]
  /\ tries' = [tries EXCEPT ![w] = 0]
  /\ UNCHANGED <<cookie, fate, request>>

\* writeError.
Fail(w) == Answer(w, "failed", None) /\ NoCookie(w) /\ UNCHANGED store

-----------------------------------------------------------------------------
(* A request arrives: the cookie comes with it.                            *)

Free(c) == OneAtATime => \A w \in Workers : who[w] # c

Send(w, c, o, i, a) ==
  /\ pc[w] = "idle"
  /\ Free(c)
  /\ op' = [op EXCEPT ![w] = o]
  /\ who' = [who EXCEPT ![w] = c]
  /\ act' = [act EXCEPT ![w] = a]
  /\ sess' = [sess EXCEPT ![w] = cookie[c]]
  /\ id' = [id EXCEPT ![w] = i]
  /\ UNCHANGED <<store, cookie, saved, entity, tries>>

\* Bound: there is an id for every create under way.
Creating == {w \in Workers : pc[w] = "create"}

SendCreate(w, c) ==
  /\ \E f \in [Creating \cup {w} -> Ids \ issued] : \A x, y \in DOMAIN f : f[x] = f[y] => x = y
  /\ Send(w, c, "create", None, None)
  /\ Goto(w, "create")
  /\ UNCHANGED fate

SendJoin(w, c, i) ==
  /\ Send(w, c, "join", i, None)
  /\ Goto(w, "fetch")
  /\ UNCHANGED fate

SendPoll(w, c, i) ==
  /\ Send(w, c, "poll", i, None)
  /\ Goto(w, "fetch")
  /\ UNCHANGED fate

SendAct(w, c, a) ==
  /\ fate[a] = "unsent"
  /\ fate' = [fate EXCEPT ![a] = "sent"]
  /\ Send(w, c, "act", None, a)
  /\ Goto(w, "check")

SendLeave(w, c) ==
  /\ Send(w, c, "leave", None, None)
  /\ Goto(w, "check")
  /\ UNCHANGED fate

-----------------------------------------------------------------------------
(* create                                                                  *)

CreateEngaged(w) ==
  /\ pc[w] = "create"
  /\ Engaged(w)
  /\ Answer(w, "done", None)
  /\ NoCookie(w)
  /\ UNCHANGED store

CreateNew(w) ==
  /\ pc[w] = "create"
  /\ ~Engaged(w)
  /\ \E i \in Ids \ issued, u \in Users :
       /\ issued' = issued \cup {i}
       /\ db' = [db EXCEPT ![i] = NewEntity(u)]
       /\ SetSession(w, [user |-> u, id |-> i, entity |-> NewEntity(u)])
  /\ Answer(w, "done", None)

CreateFault(w) ==
  /\ "store" \in Faults
  /\ pc[w] = "create"
  /\ ~Engaged(w)
  /\ Fail(w)

-----------------------------------------------------------------------------
(* The first lines of act and leave: the session's own entity is asked.    *)

ActNoSession(w) ==
  /\ pc[w] = "check" /\ op[w] = "act"
  /\ sess[w] = None
  /\ Fail(w)

LeaveNoSession(w) ==
  /\ pc[w] = "check" /\ op[w] = "leave"
  /\ sess[w] = None
  /\ Answer(w, "done", None)
  /\ SetSession(w, None)
  /\ UNCHANGED store

\* The act or the leaving changes the session's entity too, but that change is never
\* saved: the session is set anew, cleared, or not saved at all.
Check(w) ==
  /\ pc[w] = "check"
  /\ sess[w] # None
  /\ op[w] = "leave" => sess[w].user \in sess[w].entity.here
  /\ id' = [id EXCEPT ![w] = sess[w].id]
  /\ Goto(w, "fetch")
  /\ UNCHANGED <<store, cookie, fate, request, sess, saved, entity, tries>>

\* performAct or UnregisterUser returns an error.
CheckFails(w) ==
  /\ pc[w] = "check"
  /\ sess[w] # None
  /\ Fail(w)

-----------------------------------------------------------------------------
(* fetchEntity, and leave's Read                                           *)

Found(w) == pc[w] = "fetch" /\ db[id[w]] # None

\* The entity is read; leave does not kick it.
Fetch(w) ==
  /\ Found(w)
  /\ Become(w, db[id[w]])
  /\ Goto(w, "body")
  /\ tries' = [tries EXCEPT ![w] = 0]
  /\ UNCHANGED <<store, cookie, fate, request, sess, saved, id>>

FetchKicked(w) ==
  /\ Found(w)
  /\ op[w] # "leave"
  /\ \E e \in Kicked(db[id[w]]) : Become(w, e)
  /\ Goto(w, "kick")
  /\ UNCHANGED <<store, cookie, fate, request, sess, saved, id, tries>>

\* There is no entity under the id, or the store fails.
FetchFails(w) ==
  /\ pc[w] = "fetch"
  /\ db[id[w]] = None \/ "store" \in Faults
  /\ Fail(w)

\* What Update compares: the stored version with the version of the handler's copy.
Sequential(w) == db[id[w]] # None /\ db[id[w]].v = entity[w].v
Nonsequential(w) == db[id[w]] # None /\ db[id[w]].v # entity[w].v
NoUpdate(w) == db[id[w]] = None \/ "store" \in Faults

Bumped(e) == [e EXCEPT !.v = @ + 1]

\* Update increments the version of the handler's copy e, and stores it.
Put(w, e) == db' = [db EXCEPT ![id[w]] = Bumped(e)] /\ UNCHANGED issued

\* Mutant: the version is not compared.
KickSavedAny(w) ==
  /\ pc[w] = "kick"
  /\ db[id[w]] # None
  /\ Put(w, entity[w])
  /\ Become(w, Bumped(entity[w]))
  /\ Goto(w, "body")
  /\ tries' = [tries EXCEPT ![w] = 0]
  /\ UNCHANGED <<cookie, fate, request, sess, saved, id>>

KickSaved(w) ==
  /\ pc[w] = "kick"
  /\ Sequential(w)
  /\ Put(w, entity[w])
  /\ Become(w, Bumped(entity[w]))
  /\ Goto(w, "body")
  /\ tries' = [tries EXCEPT ![w] = 0]
  /\ UNCHANGED <<cookie, fate, request, sess, saved, id>>

\* Mutant: any number of tries.
KickRetryAlways(w) ==
  /\ pc[w] = "kick"
  /\ Nonsequential(w)
  /\ tries' = [tries EXCEPT ![w] = @ + 1]
  /\ Goto(w, "fetch")
  /\ Become(w, None)
  /\ UNCHANGED <<store, cookie, fate, request, sess, saved, id>>

\* Somebody has updated the entity since it was read: one more try.
KickRetry(w) ==
  /\ pc[w] = "kick"
  /\ Nonsequential(w)
  /\ tries[w] = 0
  /\ tries' = [tries EXCEPT ![w] = 1]
  /\ Goto(w, "fetch")
  /\ Become(w, None)
  /\ UNCHANGED <<store, cookie, fate, request, sess, saved, id>>

\* Mutant: whatever the error, one more try.
KickFailsRetried(w) ==
  /\ pc[w] = "kick"
  /\ NoUpdate(w) \/ (Nonsequential(w) /\ tries[w] = 1)
  /\ Goto(w, "fetch")
  /\ Become(w, None)
  /\ UNCHANGED <<store, cookie, fate, request, sess, saved, id, tries>>

KickFails(w) ==
  /\ pc[w] = "kick"
  /\ NoUpdate(w) \/ (Nonsequential(w) /\ tries[w] = 1)
  /\ Fail(w)

-----------------------------------------------------------------------------
(* The rest of each handler, up to the Update it makes if it makes one.    *)

Body(w, o) == pc[w] = "body" /\ op[w] = o

\* The client is engaged, here or elsewhere, or the entity is over, or it
\* registers nobody any more: join answers with the entity as it is.
JoinSees(w) ==
  /\ Body(w, "join")
  /\ Answer(w, "done", entity[w])
  /\ NoCookie(w)
  /\ UNCHANGED store

\* RegisterNewUser is asked for a new user.
Registers(w) == Body(w, "join") /\ ~Engaged(w) /\ entity[w].active

JoinSaved(w) ==
  /\ Registers(w)
  /\ Sequential(w)
  /\ \E u \in Users : \E e \in Registered(entity[w], u) :
       /\ Put(w, e)
       /\ Answer(w, "done", Bumped(e))
       /\ SetSession(w, [user |-> u, id |-> id[w], entity |-> Bumped(e)])

\* Mutant: the session is set although the update was refused.
JoinRefusedSet(w) ==
  /\ Registers(w)
  /\ ~Sequential(w)
  /\ \E u \in Users : \E e \in Registered(entity[w], u) :
       /\ Answer(w, "done", e)
       /\ SetSession(w, [user |-> u, id |-> id[w], entity |-> e])
  /\ UNCHANGED store

\* Mutant: the version stays incremented.
JoinRefusedBumped(w) ==
  /\ Registers(w)
  /\ ~Sequential(w)
  /\ \E u \in Users : \E e \in Registered(entity[w], u) : Answer(w, "done", Bumped(e))
  /\ NoCookie(w)
  /\ UNCHANGED store

\* The update is refused: the answer shows the handler's copy all the same, with
\* a user that the stored entity does not have.
JoinRefused(w) ==
  /\ Registers(w)
  /\ ~Sequential(w)
  /\ \E u \in Users : \E e \in Registered(entity[w], u) : Answer(w, "done", e)
  /\ NoCookie(w)
  /\ UNCHANGED store

\* The store fails: so does this answer, and with the next version when it was
\* the write that failed.
JoinFault(w) ==
  /\ "store" \in Faults
  /\ Registers(w)
  /\ \E u \in Users : \E e \in Registered(entity[w], u) :
       \E f \in {e, Bumped(e)} : Answer(w, "done", f)
  /\ NoCookie(w)
  /\ UNCHANGED store

\* The version in the request is any (a client may send what it likes): here it is
\* the one of the entity, and the answer is empty.
PollSame(w) ==
  /\ Body(w, "poll")
  /\ Answer(w, "done", None)
  /\ NoCookie(w)
  /\ UNCHANGED store

\* The user's session gets the entity, or is cleared when the entity is over.
Refresh(w, e) ==
  SetSession(w, IF e.active THEN [user |-> sess[w].user, id |-> id[w], entity |-> e] ELSE None)

\* The request has any other version; the session may be one of another entity.
PollChanged(w) ==
  /\ Body(w, "poll")
  /\ Answer(w, "done", entity[w])
  /\ IF sess[w] # None /\ sess[w].id = id[w] THEN Refresh(w, entity[w]) ELSE NoCookie(w)
  /\ UNCHANGED store

ActSaved(w) ==
  /\ Body(w, "act")
  /\ Sequential(w)
  /\ \E e \in Performed(entity[w], act[w]) :
       Put(w, e) /\ Answer(w, "done", Bumped(e)) /\ Refresh(w, Bumped(e))

\* Mutant: the session is kept.
LeaveSavedKept(w) ==
  /\ Body(w, "leave")
  /\ Sequential(w)
  /\ \E e \in Unregistered(entity[w], sess[w].user) : Put(w, e)
  /\ Answer(w, "done", None)
  /\ NoCookie(w)

LeaveSaved(w) ==
  /\ Body(w, "leave")
  /\ Sequential(w)
  /\ \E e \in Unregistered(entity[w], sess[w].user) : Put(w, e)
  /\ Answer(w, "done", None)
  /\ SetSession(w, None)

\* Mutant: an act whose update is refused is answered like any other.
NotSavedAnswered(w) ==
  /\ pc[w] = "body"
  /\ op[w] \in {"act", "leave"}
  /\ Answer(w, "done", entity[w])
  /\ NoCookie(w)
  /\ UNCHANGED store

\* performAct, UnregisterUser or Update returns an error.
NotSaved(w) ==
  /\ pc[w] = "body"
  /\ op[w] \in {"act", "leave"}
  /\ Fail(w)

-----------------------------------------------------------------------------
(* The response.                                                           *)

Answered(w) == pc[w] \in {"done", "failed"}

\* The request is over, and its goroutine's variables with it.
Over(w) ==
  /\ Goto(w, "idle")
  /\ op' = [op EXCEPT ![w] = "none"]
  /\ who' = [who EXCEPT ![w] = None]
  /\ act' = [act EXCEPT ![w] = None]
  /\ id' = [id EXCEPT ![w] = None]
  /\ Become(w, None)
  /\ NoCookie(w)
  /\ UNCHANGED <<store, tries>>

Deliver(w) ==
  /\ Answered(w)
  /\ cookie' = IF saved[w] THEN [cookie EXCEPT ![who[w]] = sess[w]] ELSE cookie
  /\ fate' = IF op[w] # "act" THEN fate
             ELSE [fate EXCEPT ![act[w]] = IF pc[w] = "done" THEN id[w] ELSE "refused"]
  /\ Over(w)

Lose(w) ==
  /\ "lost" \in Faults
  /\ Answered(w)
  /\ Over(w)
  /\ UNCHANGED <<cookie, fate>>

-----------------------------------------------------------------------------
(* The environment.                                                        *)

\* The cookie's Max-Age is over.
Forget(c) ==
  /\ "maxage" \in Faults
  /\ cookie[c] # None
  /\ cookie' = [cookie EXCEPT ![c] = None]
  /\ UNCHANGED <<store, fate, pc, request, sess, saved, id, entity, tries>>

\* Nobody has written the entity for longer than deleteAfter.
ClearOut(i) ==
  /\ "clearout" \in Faults
  /\ db[i] # None
  /\ db' = [db EXCEPT ![i] = None]
  /\ UNCHANGED <<issued, cookie, fate, pc, request, sess, saved, id, entity, tries>>

-----------------------------------------------------------------------------
Arrive(w, c) ==
  \/ SendCreate(w, c)
  \/ SendLeave(w, c)
  \/ \E a \in Acts : SendAct(w, c, a)
  \/ \E i \in Ids : SendJoin(w, c, i) \/ SendPoll(w, c, i)

Serve(w) ==
  \/ CreateEngaged(w) \/ CreateNew(w) \/ CreateFault(w)
  \/ ActNoSession(w) \/ LeaveNoSession(w) \/ Check(w) \/ CheckFails(w)
  \/ Fetch(w) \/ FetchKicked(w) \/ FetchFails(w)
  \/ KickSaved(w) \/ KickRetry(w) \/ KickFails(w)
  \/ JoinSees(w) \/ JoinSaved(w) \/ JoinRefused(w) \/ JoinFault(w)
  \/ PollSame(w) \/ PollChanged(w)
  \/ ActSaved(w) \/ LeaveSaved(w) \/ NotSaved(w)
  \/ Deliver(w) \/ Lose(w)

Next ==
  \/ \E w \in Workers : Serve(w) \/ \E c \in Clients : Arrive(w, c)
  \/ \E c \in Clients : Forget(c)
  \/ \E i \in Ids : ClearOut(i)

Spec == Init /\ [][Next]_vars
=============================================================================
