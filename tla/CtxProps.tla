------------------------------ MODULE CtxProps ------------------------------
(***************************************************************************)
(* What the tree of contexts must guarantee, and its refinement of         *)
(* CtxTree.                                                                *)
(***************************************************************************)
EXTENDS Ctx

\* Contexts that are in the tree: made, and past propagateCancel.
Derived == {c \in Made : \A t \in Callers : run[t].pc = "register" => run[t].at # c}

Promise == INSTANCE CtxTree WITH
  Ctx <- Ctxs,
  above <- [c \in Ctxs |-> IF c \in Derived THEN Registrar(c) ELSE c],
  seen <- [c \in Ctxs |-> IF mu[c] = Free THEN err[c] ELSE NoErr]

\* Whoever is told by a context's Err that it is finished finds everything that
\* was derived from it finished, for good, and each for a reason that does not
\* change: Err waits for the lock that cancel keeps while it goes down the tree
\* (context.go:307-311, 319-340), and WithCancel for the same lock (226-241).
ImplementsCtxTree == Promise!Spec

\* A goroutine that is going to take c out of its parent's children.
WillRemove(t, c) ==
  run[t].root = c /\ run[t].up /\ ~(run[t].at = c /\ run[t].pc = "stop")

\* No live context is missing from the children of its parent, so that a cancel
\* reaches it, and no finished one stays in them for ever, which would keep it in
\* memory as long as its parent lives: by the time nobody is about to remove it,
\* it is gone (context.go:226-251, 272-282, 334-339, 396-399).
ChildrenAreTheLive ==
  \A c \in Derived :
    LET p == Registrar(c) IN
    p # Background /\ err[p] = NoErr =>
      /\ err[c] = NoErr => c \in children[p]
      /\ c \in children[p] /\ err[c] # NoErr => \E t \in Goroutines : WillRemove(t, c)

\* Goroutine t is canceling c or something below it, or stopping its timer.
AtWorkOn(t, c) ==
  mu[c] = t \/ (run[t].at = c /\ run[t].pc \in {"cancel", "remove", "stop"})

\* No timer outlives its context: one that is still armed when the context is
\* finished is about to be stopped (context.go:366-372, 400-405).
TimersAreStopped ==
  \A c \in armed : err[c] # NoErr => \E t \in Goroutines : AtWorkOn(t, c)

\* c and the contexts that it was made from: those that no set which has c, and with each
\* context its parent, can be without.
UpClosed(S) == \A d \in S : parent[d] = Background \/ parent[d] \in S
Line(c) == {a \in Ctxs : \A S \in SUBSET Ctxs : c \in S /\ UpClosed(S) => a \in S}

Reason(e, c) ==
  /\ e = "DeadlineExceeded" => deadline[c] <= now
  /\ e = "Canceled" => Line(c) \cap called # {}

\* The reason a context gives is one it has: it is past the deadline that it tells,
\* which may be its parent's (context.go:352-355), or its CancelFunc or that of a
\* context above it was called.
ReasonsAreTrue == \A c \in Ctxs : Reason(err[c], c)

\* What finishes a context finishes in the end those made from it, also through a
\* parent of a foreign type, which cancels nothing itself (context.go:243-249), and
\* a context whose deadline has passed is finished in the end, whichever context
\* has the timer (context.go:342-347, 352-355).
Doomed(c) ==
  \/ parent[c] \notin {c, Background} /\ err[parent[c]] # NoErr
  \/ c \in ready /\ deadline[c] <= now
TheDoomedFinish == \A c \in Ctxs : Doomed(c) ~> (err[c] # NoErr)

\* WithCancel, WithDeadline and every cancel return: the locks of the tree, of
\* which a goroutine holds as many as the tree is deep, are always taken from the
\* top down, and never kept while a context is removed from its parent
\* (context.go:329-337).
EveryCallReturns == \A t \in Callers : (run[t] # Idle) ~> (run[t] = Idle)

-----------------------------------------------------------------------------
(* The inductive invariants behind these properties (CtxProofs).           *)

Making(t) == run[t].pc \in {"register", "arm"}
Canceling(t) == run[t].pc \in {"cancel", "loop", "remove", "stop"}
Finished(c) == err[c] # NoErr /\ mu[c] = Free

\* What a goroutine works on at each place.
OnTask(t) ==
  /\ run[t].pc = "idle" => run[t] = Idle
  /\ Making(t) => t \in Callers /\ run[t].at \in Made \ ready /\ run[t].root = run[t].at
  /\ run[t].pc = "arm" => run[t].at \in Derived \cap timed
  /\ run[t].pc = "watch" =>
       \E c \in Derived \cap foreign : t = Watcher(c) /\ run[t].at = c /\ run[t].root = c
  /\ Canceling(t) =>
       /\ run[t].at \in Derived /\ run[t].root \in Derived /\ run[t].why \in Errs
       /\ run[t].up \/ run[t].root \in foreign
  /\ run[t].pc = "stop" => run[t].at \in timed
  /\ run[t].pc = "remove" => run[t].at = run[t].root

\* Nobody else works on a context that is being made.
Tasks ==
  /\ \A t \in Goroutines : OnTask(t)
  /\ \A s, t \in Callers :
       Making(s) /\ (Making(t) \/ Canceling(t)) /\ run[s].root = run[t].root => s = t

\* The tree is numbered downwards and without gaps, and nothing has happened to a context
\* before it is in the tree; its timer runs when it has been returned, and only once.
Grown ==
  /\ \A c \in Made : parent[c] < c
  /\ \A c \in Made, d \in Ctxs : d < c => d \in Made
  /\ \A c \in foreign : parent[c] # Background
  /\ \A c \in Ctxs \ Derived :
       mu[c] = Free /\ err[c] = NoErr /\ children[c] = {} /\ run[Watcher(c)] = Idle
  /\ armed \subseteq ready
  /\ \A c \in Ctxs : c \in armed \/ c \notin ready => run[Timer(c)] = Idle
  /\ \A p \in Ctxs : \A c \in children[p] : c \in Derived /\ Registrar(c) = p

\* The locks that a goroutine holds are those of the contexts from the one it began with
\* down to the one it works on, each registered with the one above it.
Path(t) ==
  /\ run[t].pc = "loop" => mu[run[t].at] = t
  /\ run[t].pc \in {"remove", "stop"} => Finished(run[t].at)
  /\ \A c \in Ctxs :
       /\ mu[c] = t =>
            /\ Canceling(t) /\ run[t].root <= c /\ c <= run[t].at
            /\ c = run[t].at => run[t].pc = "loop"
            /\ \A d \in Ctxs : (mu[d] = t \/ d = run[t].at) /\ c < d => c <= Registrar(d)
       /\ mu[c] = t \/ (Canceling(t) /\ c = run[t].at) =>
            c = run[t].root \/ (Registrar(c) # Background /\ mu[Registrar(c)] = t)
Locks ==
  /\ \A c \in Ctxs : mu[c] # Free => err[c] # NoErr
  /\ \A t \in Goroutines : Path(t)

\* A context in the tree is finished, or among the children of its parent, or is being
\* canceled by the goroutine that holds the parent's lock.
Reached ==
  /\ \A c \in Ctxs : Finished(c) => children[c] = {}
  /\ \A c \in Derived :
       LET p == Registrar(c) IN
       p # Background =>
         \/ Finished(c)
         \/ c \in children[p]
         \/ /\ mu[p] # Free
            /\ mu[c] = mu[p] \/ (run[mu[p]].at = c /\ run[mu[p]].pc = "cancel")

\* The goroutine that canceled a context first takes it out of its parent's children.
Kept ==
  \A p \in Ctxs : \A c \in children[p] :
    err[p] = NoErr /\ err[c] # NoErr =>
      \E t \in Goroutines :
        /\ Canceling(t) /\ run[t].root = c /\ run[t].up
        /\ ~(run[t].at = c /\ run[t].pc \in {"cancel", "stop"})

\* A goroutine that holds locks waits for one further down only, or for none: it does not
\* wait while it goes over the children, and has let go of its locks when it removes a
\* context from its parent.
LocksGoDown ==
  \A t \in Goroutines : \A c \in Ctxs :
    mu[c] = t =>
      \/ run[t].pc = "loop"
      \/ run[t].pc \in {"cancel", "stop"} /\ c < run[t].at

\* The lock that the next step of t takes, Background for none: the parent's to be put
\* among its children or taken out of them, and for a watcher to read its err; the
\* context's own otherwise.
Wanted(t) ==
  CASE run[t].pc \in {"register", "remove"} -> Registrar(run[t].at)
    [] run[t].pc \in {"arm", "cancel", "stop"} -> run[t].at
    [] run[t].pc = "watch" -> parent[run[t].at]
    [] OTHER -> Background

\* No goroutines wait in a circle, each for a lock that one of them holds: those that make
\* contexts, cancel them, fire or watch, in any number (context.go:226-251, 319-340).
NobodyWaitsInACircle ==
  \A S \in SUBSET Goroutines :
    S # {} => \E t \in S : Wanted(t) = Background \/ mu[Wanted(t)] \notin S

\* Once a cancel has begun to finish a context, the work that it has there only gets less:
\* nobody becomes its child any more, and its reason stays what the first cancel gave
\* (context.go:231-241, 324-340).
FinishedOnlyShrink ==
  [][\A c \in Ctxs :
       err[c] # NoErr => err'[c] = err[c] /\ children'[c] \subseteq children[c]]_vars

\* A cancel's reason is one for every context that it has begun to finish, and no context
\* has a later deadline than the one that it was made from.
Reasons ==
  /\ ReasonsAreTrue
  /\ \A t \in Goroutines : \A c \in Ctxs :
       mu[c] = t \/ (Canceling(t) /\ c = run[t].at) => Reason(run[t].why, c)
  /\ \A c \in Made : deadline[c] <= DeadlineOf(parent[c])
=============================================================================
