------------------------------ MODULE OakProps ------------------------------
(***************************************************************************)
(* What the handlers of package oak keep true of entities, sessions and    *)
(* answers.                                                                *)
(***************************************************************************)
EXTENDS Oak, Integers

\* A client that was told that its act succeeded finds it in the entity ever
\* after, whatever other clients do at the same time; an act that was answered
\* with an error is in no entity, then or later (oak.go:179-221).
AnsweredActs ==
  \A a \in Acts :
    /\ fate[a] \in Ids => db[fate[a]] = None \/ a \in db[fate[a]].done
    /\ fate[a] = "refused" => \A i \in Ids : db[i] # None => a \notin db[i].done

\* A user who has left an entity never comes back: no handler stores a copy of
\* the entity from before (oak.go:223-258, sus.go:135-149).
NobodyComesBack ==
  [][\A i \in Ids : db[i] # None /\ db'[i] # None =>
       (db[i].known \ db[i].here) \cap db'[i].here = {}]_vars

\* What may not be lost of an entity: the acts performed on it, and which users have left.
Lasting(e) ==
  IF e = None THEN None ELSE [v |-> e.v, marks |-> e.done \cup (e.known \ e.here)]

Abstract == INSTANCE SequentialStore WITH
  Callers <- Users \cup Acts,
  Absent <- None,
  db <- [i \in Ids |-> Lasting(db[i])]

\* To whoever looks at an entity, every request changes it in one step or not at all,
\* though a handler reads it, tries to kick it, works on its copy and writes it back, with
\* other handlers in between: the entity goes to its next version, and keeps what other
\* requests have done to it (oak.go:85-102, 134-138, 199-211, 247-251).
ImplementsSequentialStore == Abstract!Spec

\* The sessions that clients have, or are being sent.
Sessions == {cookie[c] : c \in Clients} \cup {sess[w] : w \in {x \in Workers : saved[x]}}

\* Two clients never hold the same user id of an entity, even when they join at
\* the same time and are given the same id (oak.go:134-138).
SeatsAreDistinct ==
  \A c, d \in Clients : c # d /\ cookie[c] # None /\ cookie[d] # None =>
    <<cookie[c].user, cookie[c].id>> # <<cookie[d].user, cookie[d].id>>

\* An entity that the store does not contradict: it is an earlier state of the
\* stored one or the stored one itself, by its version.
Genuine(e, i) == db[i] # None => e.v <= db[i].v /\ (e.v = db[i].v => e = db[i])

\* Every session, and every answer with status 200, shows a state of the entity
\* that is the stored one if it has its version: a client that polls with the
\* version it was told is never left with another state than the stored one
\* (oak.go:161-163), though join may answer with a copy that was never stored.
TellsTheStored ==
  /\ \A s \in Sessions \ {None} : Genuine(s.entity, s.id)
  /\ \A w \in Workers : pc[w] = "done" /\ op[w] # "leave" /\ entity[w] # None =>
       Genuine(entity[w], id[w])

\* A client that waits for its answers, none of which is lost, and that is
\* engaged in an entity is one of its users there, until it leaves.
EngagedIsRegistered ==
  \A c \in Clients :
    cookie[c] # None /\ (\A w \in Workers : who[w] # c) /\ db[cookie[c].id] # None =>
      cookie[c].user \in db[cookie[c].id].here

\* The steps that a request has still to take, at most: fetchEntity tries twice.
Left(w) ==
  CASE pc[w] = "idle" -> 0
    [] pc[w] \in {"done", "failed"} -> 1
    [] pc[w] \in {"create", "body"} -> 2
    [] pc[w] = "kick" -> 5 - 2 * tries[w]
    [] pc[w] = "fetch" -> 6 - 2 * tries[w]
    [] pc[w] = "check" -> 7

\* Each step of a request brings it nearer to its answer, and no step of another takes it
\* away from it, so that it takes no more than Left(w) says.
EveryStepCounts ==
  [][\A w \in Workers : pc[w] # "idle" /\ pc'[w] # pc[w] => Left(w)' < Left(w)]_vars

\* Every request is answered, however often its entity is updated by others while
\* fetchEntity tries to kick it: whatever the others do, it can take a step, and each
\* step brings it nearer to its answer (oak.go:85-102).
EveryRequestIsAnswered ==
  /\ [](\A w \in Workers : pc[w] # "idle" => ENABLED Serve(w))
  /\ EveryStepCounts

-----------------------------------------------------------------------------
(* The inductive invariants behind these properties (OakProofs).           *)

\* What a handler holds at each place: its request, its session and its copy.
InPlace(w) ==
  /\ pc[w] = "idle" <=> who[w] = None
  /\ pc[w] = "idle" => op[w] = "none" /\ entity[w] = None /\ sess[w] = None
  /\ pc[w] = "create" => op[w] = "create"
  /\ pc[w] = "check" => op[w] \in {"act", "leave"}
  /\ pc[w] \in {"fetch", "kick", "body"} => op[w] \in Handlers \ {"create"} /\ id[w] # None
  /\ pc[w] \in {"fetch", "kick", "body"} /\ op[w] \in {"act", "leave"} =>
       sess[w] # None /\ sess[w].id = id[w]
  /\ pc[w] = "kick" => op[w] # "leave"
  /\ entity[w] = None <=> pc[w] \in {"idle", "create", "check", "fetch"}
                          \/ (Answered(w) /\ id[w] = None)
  /\ saved[w] => Answered(w)
  /\ pc[w] = "done" /\ op[w] = "act" => id[w] # None
  /\ act[w] # None <=> op[w] = "act"

AllInPlace == \A w \in Workers : InPlace(w)

\* An id that Create has not returned is nowhere but in requests.
IdsAreIssued ==
  /\ \A i \in Ids : db[i] # None => i \in issued
  /\ \A c \in Clients : cookie[c] # None => cookie[c].id \in issued
  /\ \A w \in Workers : sess[w] # None => sess[w].id \in issued
  /\ \A w \in Workers : entity[w] # None => id[w] \in issued

\* The entity e has the users and the acts of the stored one, if it has its version.
Derived(e, i) ==
  db[i] # None =>
    /\ e.v <= db[i].v
    /\ e.v = db[i].v => e.known = db[i].known /\ e.here = db[i].here /\ e.done = db[i].done

\* No copy contradicts the store; one that was kicked may have come to its end.
CopiesAreGenuine ==
  /\ \A c \in Clients : cookie[c] # None => Genuine(cookie[c].entity, cookie[c].id)
  /\ \A w \in Workers : sess[w] # None => Genuine(sess[w].entity, sess[w].id)
  /\ \A w \in Workers : pc[w] = "body" => Genuine(entity[w], id[w])
  /\ \A w \in Workers : pc[w] = "kick" => Derived(entity[w], id[w])

\* A user with a session was registered there.
Seated(s) == s # None /\ db[s.id] # None => s.user \in db[s.id].known

\* The sessions of a client: its cookie, and what its requests have come with and made
\* of it.  None of them has the user of another client.
SeatsOf(c) == ({cookie[c]} \cup {sess[w] : w \in {x \in Workers : who[x] = c}}) \ {None}

SeatsAreTaken ==
  /\ \A c \in Clients : Seated(cookie[c])
  /\ \A w \in Workers : Seated(sess[w])
  /\ \A c, d \in Clients : c # d =>
       \A s \in SeatsOf(c), t \in SeatsOf(d) : s.user # t.user \/ s.id # t.id

\* An act is of one request, and is in an entity only when that one has saved it.
ActsAreSaved ==
  /\ \A v, w \in Workers : act[v] # None /\ act[v] = act[w] => v = w
  /\ \A w \in Workers : act[w] # None => fate[act[w]] = "sent"
  /\ \A w \in Workers : act[w] # None /\ pc[w] = "done" =>
       id[w] \in issued /\ (db[id[w]] # None => act[w] \in db[id[w]].done)
  /\ \A i \in Ids : db[i] # None =>
       /\ \A w \in Workers : pc[w] # "done" => act[w] \notin db[i].done
       /\ \A a \in db[i].done : fate[a] \notin {"unsent", "refused"}
  /\ \A a \in Acts : fate[a] \in Ids =>
       fate[a] \in issued /\ (db[fate[a]] # None => a \in db[fate[a]].done)

\* One request of a client at a time.
OneRequest == \A v, w \in Workers : who[v] # None /\ who[v] = who[w] => v = w

\* The session of a request is of a user of the entity, and so is a client's, unless it
\* is about to hear that it has left.
SessionsAreHere ==
  \A w \in Workers : sess[w] # None /\ db[sess[w].id] # None =>
    sess[w].user \in db[sess[w].id].here

CookiesAreHere ==
  \A c \in Clients : cookie[c] # None /\ db[cookie[c].id] # None =>
    \/ cookie[c].user \in db[cookie[c].id].here
    \/ \E w \in Workers : who[w] = c /\ pc[w] = "done" /\ saved[w]
=============================================================================
