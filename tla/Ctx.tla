-------------------------------- MODULE Ctx --------------------------------
(***************************************************************************)
(* Package golang.org/x/net/context, whose contexts carry the deadline of  *)
(* every App Engine call (internal/api.go:404): the tree of cancelCtx      *)
(* and timerCtx that WithCancel and WithDeadline build, and the cancel     *)
(* that goes down it with the lock of every context above it held.         *)
(*                                                                         *)
(* A step runs from one lock to the next.  A goroutine that cancels a      *)
(* context works on one context at a time; where it goes when it has done  *)
(* with a child is where the child is registered, so a stack is not        *)
(* needed.  WithValue is looked through by parentCancelCtx and changes     *)
(* nothing; a Context type that the package does not know ("foreign")      *)
(* wraps one of the package's, as the otherContext of its tests.           *)
(***************************************************************************)
EXTENDS Integers, FiniteSets

CONSTANTS NumCtx,   \* bound: how many contexts are made
          Callers,  \* the goroutines that make and cancel contexts
          Makers,   \* bound: those of them that make contexts
          Free,     \* a mutex is not held
          MaxTime,  \* bound: where the clock stops
          MaxOdd    \* bound: how many contexts have a deadline or a foreign parent

Ctxs == 1..NumCtx
Background == 0
Never == MaxTime + 1              \* no deadline
Goroutines == Callers \cup ({"timer", "watch"} \X Ctxs)
Timer(c) == <<"timer", c>>        \* runs the function given to AfterFunc
Watcher(c) == <<"watch", c>>      \* waits for c and the foreign parent of c

NoErr == "none"
Errs == {"Canceled", "DeadlineExceeded"}

ASSUME CtxAssumption ==
  /\ Makers \subseteq Callers
  /\ NumCtx \in Nat /\ MaxTime \in Nat /\ MaxOdd \in Nat
  /\ Callers \cap ({"timer", "watch"} \X Ctxs) = {}
  /\ Free \notin Goroutines

VARIABLES
  now,       \* the time
  ready,     \* the contexts that WithCancel and WithDeadline have returned
  parent,    \* parent[c]: the context given for c, c itself before c is made
  foreign,   \* the contexts whose parent is of a type the package does not know
  timed,     \* the contexts that are a timerCtx
  deadline,  \* deadline[c]: what c.Deadline() returns
  mu,        \* mu[c]: the goroutine that holds c.mu, or Free
  err,       \* err[c]: c.err; c.done is closed when it is set
  children,  \* children[c]: c.children, less those that cancel has been to
  armed,     \* the contexts with a timer that has neither fired nor been stopped
  called,    \* the contexts whose CancelFunc has been called (history)
  run        \* run[t]: what goroutine t is doing

tree == <<ready, parent, foreign, timed, deadline>>
vars == <<now, tree, mu, err, children, armed, called, run>>

\* at: the context it works on, which it has come to from the one it began with
\* (root); why: the error; up: whether root is to be removed from its parent.
Idle == [pc |-> "idle", at |-> Background, root |-> Background, why |-> NoErr, up |-> FALSE]
Activity ==
  [pc : {"idle", "register", "arm", "watch", "cancel", "loop", "remove", "stop"},
   at : Ctxs \cup {Background}, root : Ctxs \cup {Background},
   why : Errs \cup {NoErr}, up : BOOLEAN]

Made == {c \in Ctxs : parent[c] # c}

\* parentCancelCtx: where c is registered, or Background for nowhere.
Registrar(c) == IF c \in foreign THEN Background ELSE parent[c]

TypeOK ==
  /\ now \in 0..MaxTime
  /\ ready \subseteq Made
  /\ \A c \in Ctxs : parent[c] \in {Background} \cup ready \cup {c}
  /\ parent \in [Ctxs -> Ctxs \cup {Background}]
  /\ foreign \subseteq Made /\ timed \subseteq Made
  /\ deadline \in [Ctxs -> 0..Never]
  /\ mu \in [Ctxs -> Goroutines \cup {Free}]
  /\ err \in [Ctxs -> Errs \cup {NoErr}]
  /\ children \in [Ctxs -> SUBSET Ctxs]
  /\ armed \subseteq timed
  /\ called \subseteq ready
  /\ run \in [Goroutines -> Activity]

Init ==
  /\ now = 0
  /\ ready = {} /\ foreign = {} /\ timed = {} /\ armed = {} /\ called = {}
  /\ parent = [c \in Ctxs |-> c]
  /\ deadline = [c \in Ctxs |-> Never]
  /\ mu = [c \in Ctxs |-> Free]
  /\ err = [c \in Ctxs |-> NoErr]
  /\ children = [c \in Ctxs |-> {}]
  /\ run = [t \in Goroutines |-> Idle]

-----------------------------------------------------------------------------
(* Making a context.                                                       *)

Task(pc, c, e, up) == [pc |-> pc, at |-> c, root |-> c, why |-> e, up |-> up]
Goto(t, pc, c) ==
  run' = [run EXCEPT ![t] =
    [pc |-> pc, at |-> c, root |-> @.root, why |-> @.why, up |-> @.up]]

\* Bound: contexts are numbered in the order they are made in.
NextCtx(c) == c \notin Made /\ \A d \in Ctxs : d < c => d \in Made

DeadlineOf(p) == IF p = Background THEN Never ELSE deadline[p]

\* Mutant: a context has the deadline that was asked for.
NewOwnDeadline(t, c, p, f, d) ==
  /\ run[t] = Idle
  /\ NextCtx(c) /\ (f => p # Background)
  /\ f \/ d # Never => Cardinality(foreign \cup timed) < MaxOdd
  /\ parent' = [parent EXCEPT ![c] = p]
  /\ foreign' = IF f THEN foreign \cup {c} ELSE foreign
  /\ timed' = IF d # Never /\ DeadlineOf(p) >= d THEN timed \cup {c} ELSE timed
  /\ deadline' = [deadline EXCEPT ![c] = d]
  /\ run' = [run EXCEPT ![t] = Task("register", c, NoErr, FALSE)]
  /\ UNCHANGED <<now, ready, mu, err, children, armed, called>>

\* newCancelCtx, with d = Never for WithCancel.  Under a parent whose deadline
\* is before d, WithDeadline is WithCancel.
New(t, c, p, f, d) ==
  /\ run[t] = Idle
  /\ NextCtx(c) /\ (f => p # Background)
  /\ f \/ d # Never => Cardinality(foreign \cup timed) < MaxOdd
  /\ parent' = [parent EXCEPT ![c] = p]
  /\ foreign' = IF f THEN foreign \cup {c} ELSE foreign
  /\ timed' = IF d # Never /\ DeadlineOf(p) >= d THEN timed \cup {c} ELSE timed
  /\ deadline' = [deadline EXCEPT ![c] = IF DeadlineOf(p) < d THEN DeadlineOf(p) ELSE d]
  /\ run' = [run EXCEPT ![t] = Task("register", c, NoErr, FALSE)]
  /\ UNCHANGED <<now, ready, mu, err, children, armed, called>>

\* Mutant: a timer for every context.
RegisteredArmed(t) ==
  [run EXCEPT ![t] = Task("arm", run[t].at, NoErr, FALSE)]

\* A cancelCtx is returned when it has been registered; a timerCtx needs its timer.
Registered(t) ==
  LET c == run[t].at IN
  [run EXCEPT ![t] = IF c \in timed THEN Task("arm", c, NoErr, FALSE) ELSE Idle]
Returned(t) == ready' = IF run[t].at \in timed THEN ready ELSE ready \cup {run[t].at}

\* propagateCancel: the parent is never canceled.
RegisterNowhere(t) ==
  /\ run[t].pc = "register" /\ parent[run[t].at] = Background
  /\ run' = Registered(t)
  /\ Returned(t)
  /\ UNCHANGED <<now, parent, foreign, timed, deadline, mu, err, children, armed, called>>

\* Mutant: the parent's err is not looked at.
RegisterBlindly(t) ==
  LET c == run[t].at  p == Registrar(c) IN
  /\ run[t].pc = "register" /\ p # Background
  /\ mu[p] = Free
  /\ children' = [children EXCEPT ![p] = @ \cup {c}]
  /\ run' = Registered(t)
  /\ Returned(t)
  /\ UNCHANGED <<now, parent, foreign, timed, deadline, mu, err, armed, called>>

\* The parent is live and will cancel the new context, or it has been canceled,
\* and so is the new one, which has no children yet and nobody else has seen.
Register(t) ==
  LET c == run[t].at  p == Registrar(c) IN
  /\ run[t].pc = "register" /\ p # Background
  /\ mu[p] = Free
  /\ IF err[p] = NoErr
     THEN children' = [children EXCEPT ![p] = @ \cup {c}] /\ UNCHANGED err
     ELSE err' = [err EXCEPT ![c] = err[p]] /\ UNCHANGED children
  /\ run' = Registered(t)
  /\ Returned(t)
  /\ UNCHANGED <<now, parent, foreign, timed, deadline, mu, armed, called>>

\* Mutant: nobody waits for a parent of a foreign type.
RegisterForeignUnwatched(t) ==
  LET c == run[t].at IN
  /\ run[t].pc = "register" /\ c \in foreign /\ parent[c] # Background
  /\ run' = Registered(t)
  /\ Returned(t)
  /\ UNCHANGED <<now, parent, foreign, timed, deadline, mu, err, children, armed, called>>

\* A goroutine waits for a parent that the package does not know.
RegisterForeign(t) ==
  LET c == run[t].at IN
  /\ run[t].pc = "register" /\ c \in foreign /\ parent[c] # Background
  /\ run' = [Registered(t) EXCEPT ![Watcher(c)] = Task("watch", c, NoErr, FALSE)]
  /\ Returned(t)
  /\ UNCHANGED <<now, parent, foreign, timed, deadline, mu, err, children, armed, called>>

\* WithDeadline: the deadline has passed already.
ArmLate(t) ==
  LET c == run[t].at IN
  /\ run[t].pc = "arm"
  /\ deadline[c] <= now
  /\ run' = [run EXCEPT ![t] = Task("cancel", c, "DeadlineExceeded", TRUE)]
  /\ UNCHANGED <<now, tree, mu, err, children, armed, called>>

\* Mutant: the timer is started in any case.
ArmAlways(t) ==
  LET c == run[t].at IN
  /\ run[t].pc = "arm"
  /\ deadline[c] > now
  /\ mu[c] = Free
  /\ armed' = armed \cup {c}
  /\ ready' = ready \cup {c}
  /\ run' = [run EXCEPT ![t] = Idle]
  /\ UNCHANGED <<now, parent, foreign, timed, deadline, mu, err, children, called>>

\* The timer is started under the context's lock, unless it has been canceled
\* since it was registered.
Arm(t) ==
  LET c == run[t].at IN
  /\ run[t].pc = "arm"
  /\ deadline[c] > now
  /\ mu[c] = Free
  /\ armed' = IF err[c] = NoErr THEN armed \cup {c} ELSE armed
  /\ ready' = ready \cup {c}
  /\ run' = [run EXCEPT ![t] = Idle]
  /\ UNCHANGED <<now, parent, foreign, timed, deadline, mu, err, children, called>>

-----------------------------------------------------------------------------
(* Canceling.                                                              *)

\* A CancelFunc is called, for the first time or again.
CallCancel(t, c) ==
  /\ run[t] = Idle
  /\ c \in ready
  /\ called' = called \cup {c}
  /\ run' = [run EXCEPT ![t] = Task("cancel", c, "Canceled", TRUE)]
  /\ UNCHANGED <<now, tree, mu, err, children, armed>>

\* A timer fires, at its deadline or later.
Fire(c) ==
  /\ c \in armed /\ deadline[c] <= now
  /\ armed' = armed \ {c}
  /\ run' = [run EXCEPT ![Timer(c)] = Task("cancel", c, "DeadlineExceeded", TRUE)]
  /\ UNCHANGED <<now, tree, mu, err, children, called>>

\* The parent is done: its Err waits for its lock.
WatchParent(c) ==
  LET p == parent[c] IN
  /\ run[Watcher(c)].pc = "watch"
  /\ err[p] # NoErr /\ mu[p] = Free
  /\ run' = [run EXCEPT ![Watcher(c)] = Task("cancel", c, err[p], FALSE)]
  /\ UNCHANGED <<now, tree, mu, err, children, armed, called>>

\* The context itself is done.
WatchChild(c) ==
  /\ run[Watcher(c)].pc = "watch"
  /\ err[c] # NoErr
  /\ run' = [run EXCEPT ![Watcher(c)] = Idle]
  /\ UNCHANGED <<now, tree, mu, err, children, armed, called>>

\* The cancel of run[t].at is over: back to the loop over its parent's children,
\* or to whoever called it; an ArmLate returns its context.
Back(t) ==
  IF run[t].at = run[t].root
  THEN /\ run' = [run EXCEPT ![t] = Idle]
       /\ ready' = IF t \in Callers THEN ready \cup {run[t].at} ELSE ready
  ELSE Goto(t, "loop", Registrar(run[t].at)) /\ UNCHANGED ready

\* Mutant: a context that is canceled stays among its parent's children.
AfterCancelKept(t, again) ==
  IF run[t].at \in timed THEN Goto(t, "stop", run[t].at) /\ UNCHANGED ready ELSE Back(t)

\* What follows cancelCtx.cancel: it removes the context itself, unless it was
\* canceled before; timerCtx.cancel does in any case, and then stops the timer.
AfterCancel(t, again) ==
  LET r == run[t]
      remove == r.up /\ r.at = r.root /\ (r.at \in timed \/ ~again) IN
  IF remove \/ r.at \in timed
  THEN Goto(t, IF remove THEN "remove" ELSE "stop", r.at) /\ UNCHANGED ready
  ELSE Back(t)

\* It has been canceled before.
CancelAgain(t) ==
  LET c == run[t].at IN
  /\ run[t].pc = "cancel"
  /\ mu[c] = Free
  /\ err[c] # NoErr
  /\ AfterCancel(t, TRUE)
  /\ UNCHANGED <<now, parent, foreign, timed, deadline, mu, err, children, armed, called>>

\* The first cancel keeps the lock until the children are canceled.
CancelFirst(t) ==
  LET c == run[t].at IN
  /\ run[t].pc = "cancel"
  /\ mu[c] = Free
  /\ err[c] = NoErr
  /\ err' = [err EXCEPT ![c] = run[t].why]
  /\ mu' = [mu EXCEPT ![c] = t]
  /\ Goto(t, "loop", c)
  /\ UNCHANGED <<now, tree, children, armed, called>>

CancelChild(t) ==
  LET c == run[t].at IN
  /\ run[t].pc = "loop"
  /\ \E k \in children[c] :
       /\ children' = [children EXCEPT ![c] = @ \ {k}]
       /\ Goto(t, "cancel", k)
  /\ UNCHANGED <<now, tree, mu, err, armed, called>>

\* Mutant: the lock is kept while the context is removed from its parent.
CancelEndLocked(t) ==
  LET c == run[t].at IN
  /\ run[t].pc = "loop"
  /\ children[c] = {}
  /\ AfterCancel(t, FALSE)
  /\ UNCHANGED <<now, parent, foreign, timed, deadline, mu, err, children, armed, called>>

CancelEnd(t) ==
  LET c == run[t].at IN
  /\ run[t].pc = "loop"
  /\ children[c] = {}
  /\ mu' = [mu EXCEPT ![c] = Free]
  /\ AfterCancel(t, FALSE)
  /\ UNCHANGED <<now, parent, foreign, timed, deadline, err, children, armed, called>>

\* removeChild.
Remove(t) ==
  LET c == run[t].at  p == Registrar(c) IN
  /\ run[t].pc = "remove"
  /\ p # Background => mu[p] = Free
  /\ children' = [d \in Ctxs |-> IF d = p THEN children[d] \ {c} ELSE children[d]]
  /\ IF c \in timed THEN Goto(t, "stop", c) /\ UNCHANGED ready ELSE Back(t)
  /\ UNCHANGED <<now, parent, foreign, timed, deadline, mu, err, armed, called>>

\* timerCtx.cancel stops the timer; one that has fired runs on.
Stop(t) ==
  LET c == run[t].at IN
  /\ run[t].pc = "stop"
  /\ mu[c] = Free
  /\ armed' = armed \ {c}
  /\ Back(t)
  /\ UNCHANGED <<now, parent, foreign, timed, deadline, mu, err, children, called>>

-----------------------------------------------------------------------------
Tick ==
  /\ now < MaxTime
  /\ now' = now + 1
  /\ UNCHANGED <<tree, mu, err, children, armed, called, run>>

Cancel(t) ==
  CancelAgain(t) \/ CancelFirst(t) \/ CancelChild(t) \/ CancelEnd(t) \/ Remove(t) \/ Stop(t)

Make(t) ==
  RegisterNowhere(t) \/ Register(t) \/ RegisterForeign(t) \/ ArmLate(t) \/ Arm(t)

Next ==
  \/ \E t \in Makers, c \in Ctxs, p \in ready \cup {Background}, f \in BOOLEAN, d \in 0..Never :
       New(t, c, p, f, d)
  \/ \E t \in Callers : Make(t) \/ \E c \in Ctxs : CallCancel(t, c)
  \/ \E c \in Ctxs : Fire(c) \/ WatchParent(c) \/ WatchChild(c)
  \/ \E t \in Goroutines : Cancel(t)
  \/ Tick

Spec == Init /\ [][Next]_vars

\* The runtime runs every goroutine and every timer.  Only the one cancel
\* that finishes a context keeps its lock from step to step, so that weak fairness is
\* enough to get it.
Fairness ==
  /\ \A t \in Callers : WF_vars(Make(t))
  /\ \A c \in Ctxs : WF_vars(Fire(c)) /\ WF_vars(WatchParent(c) \/ WatchChild(c))
  /\ \A t \in Goroutines : WF_vars(Cancel(t))

FairSpec == Spec /\ Fairness
=============================================================================
