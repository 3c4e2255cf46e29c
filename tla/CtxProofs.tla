----------------------------- MODULE CtxProofs -----------------------------
(***************************************************************************)
(* Proofs that the tree of contexts keeps its promises, for any number of  *)
(* contexts, deadlines, foreign parents and goroutines that cancel them.   *)
(* The argument is about the locks: a goroutine that cancels holds those   *)
(* of a path of the tree, from where it began down to where it is, and as  *)
(* long as it holds one it still has every live child below it to go to.   *)
(***************************************************************************)
EXTENDS CtxProps, WellFoundedInduction, TLAPS

-----------------------------------------------------------------------------
(* Goroutines, contexts, and what moves a goroutine.                       *)

LEMMA Numbers ==
  /\ NumCtx \in Nat /\ MaxTime \in Nat
  /\ Background = 0 /\ Background \notin Ctxs
  /\ \A c \in Ctxs : c \in Nat /\ c # 0
  BY CtxAssumption DEF Ctxs, Background

LEMMA Threads ==
  /\ Callers \subseteq Goroutines /\ Free \notin Goroutines
  /\ \A c \in Ctxs : /\ Timer(c) \in Goroutines \ Callers
                     /\ Watcher(c) \in Goroutines \ Callers
  /\ \A c, d \in Ctxs : /\ Timer(c) # Watcher(d)
                        /\ Timer(c) = Timer(d) => c = d
                        /\ Watcher(c) = Watcher(d) => c = d
<1>1. \A c \in Ctxs : Timer(c) \in {"timer", "watch"} \X Ctxs
  BY DEF Timer
<1>2. \A c \in Ctxs : Watcher(c) \in {"timer", "watch"} \X Ctxs
  BY DEF Watcher
<1>3. \A c, d \in Ctxs : Timer(c) # Watcher(d)
  BY DEF Timer, Watcher
<1>4. \A c, d \in Ctxs : Timer(c) = Timer(d) => c = d
  BY DEF Timer
<1>5. \A c, d \in Ctxs : Watcher(c) = Watcher(d) => c = d
  BY DEF Watcher
<1> QED
  BY <1>1, <1>2, <1>3, <1>4, <1>5, CtxAssumption DEF Goroutines

\* Goroutine t begins or ends something; it goes on with the same, elsewhere.
Begins(t, r) ==
  /\ run' \in [Goroutines -> Activity] /\ run'[t] = r
  /\ \A u \in Goroutines \ {t} : run'[u] = run[u]

Moves(t, pc, c) ==
  /\ run' \in [Goroutines -> Activity]
  /\ run'[t].pc = pc /\ run'[t].at = c
  /\ run'[t].root = run[t].root /\ run'[t].why = run[t].why /\ run'[t].up = run[t].up
  /\ \A u \in Goroutines \ {t} : run'[u] = run[u]

Places == {"idle", "register", "arm", "watch", "cancel", "loop", "remove", "stop"}

LEMMA GotoMoves ==
  ASSUME TypeOK, NEW t \in Goroutines, NEW l \in Places, NEW c \in Ctxs \cup {Background},
         Goto(t, l, c)
  PROVE  Moves(t, l, c)
<1>1. run \in [Goroutines -> Activity]
  BY DEF TypeOK
<1>2. run[t].root \in Ctxs \cup {Background} /\ run[t].why \in Errs \cup {NoErr}
      /\ run[t].up \in BOOLEAN
  BY <1>1 DEF Activity
<1> DEFINE s == [pc |-> l, at |-> c, root |-> run[t].root, why |-> run[t].why, up |-> run[t].up]
<1>3. s \in Activity
  BY <1>2 DEF Activity, Places
<1>4. run' = [run EXCEPT ![t] = s]
  BY <1>1 DEF Goto
<1>5. run'[t] = s /\ run' \in [Goroutines -> Activity]
      /\ \A u \in Goroutines \ {t} : run'[u] = run[u]
  BY <1>1, <1>3, <1>4
<1> QED
  BY <1>5 DEF Moves

LEMMA Activities ==
  /\ Idle \in Activity /\ Idle.pc = "idle"
  /\ \A c \in Ctxs, e \in Errs \cup {NoErr}, up \in BOOLEAN :
       \A pc \in {"register", "arm", "watch", "cancel", "loop", "remove", "stop"} :
         /\ Task(pc, c, e, up) \in Activity
         /\ Task(pc, c, e, up).pc = pc /\ Task(pc, c, e, up).at = c
         /\ Task(pc, c, e, up).root = c /\ Task(pc, c, e, up).why = e
         /\ Task(pc, c, e, up).up = up
  BY DEF Activity, Idle, Task, Ctxs

LEMMA TaskBegins ==
  ASSUME TypeOK, NEW t \in Goroutines, NEW r \in Activity, run' = [run EXCEPT ![t] = r]
  PROVE  Begins(t, r)
  BY DEF TypeOK, Begins

\* What follows the cancel of a context, in each case.
Ends(t) ==
  \/ /\ run[t].at = run[t].root /\ Begins(t, Idle)
     /\ ready' = IF t \in Callers THEN ready \cup {run[t].at} ELSE ready
  \/ /\ run[t].at # run[t].root /\ Moves(t, "loop", Registrar(run[t].at))
     /\ UNCHANGED ready

LEMMA BackEnds ==
  ASSUME TypeOK, NEW t \in Goroutines, Back(t),
         Registrar(run[t].at) \in Ctxs \cup {Background}
  PROVE  Ends(t)
<1>1. CASE run[t].at = run[t].root
  BY <1>1, TaskBegins, Activities DEF Back, Ends
<1>2. CASE run[t].at # run[t].root
  BY <1>2, GotoMoves DEF Back, Ends, Places
<1> QED
  BY <1>1, <1>2

LEMMA AfterCancelEffect ==
  ASSUME TypeOK, NEW t \in Goroutines, NEW again \in BOOLEAN, AfterCancel(t, again),
         Registrar(run[t].at) \in Ctxs \cup {Background}
  PROVE  \/ /\ Moves(t, "remove", run[t].at) /\ UNCHANGED ready
            /\ run[t].up /\ run[t].at = run[t].root
         \/ /\ Moves(t, "stop", run[t].at) /\ UNCHANGED ready
            /\ run[t].at \in timed /\ (run[t].up => run[t].at # run[t].root)
         \/ /\ run[t].at \notin timed /\ Ends(t)
            /\ run[t].up /\ run[t].at = run[t].root => again
<1> DEFINE r == run[t]
           remove == r.up /\ r.at = r.root /\ (r.at \in timed \/ ~again)
<1>0. r.at \in Ctxs \cup {Background} /\ {"remove", "stop"} \subseteq Places
  BY DEF TypeOK, Activity, Places
<1>1. CASE remove
  <2>1. Goto(t, "remove", r.at) /\ UNCHANGED ready
    BY <1>1 DEF AfterCancel
  <2>2. Moves(t, "remove", r.at)
    BY <1>0, <2>1, GotoMoves
  <2> QED
    BY <1>1, <2>1, <2>2
<1>2. CASE ~remove /\ r.at \in timed
  <2>1. Goto(t, "stop", r.at) /\ UNCHANGED ready
    BY <1>2 DEF AfterCancel
  <2>2. Moves(t, "stop", r.at)
    BY <1>0, <2>1, GotoMoves
  <2> QED
    BY <1>2, <2>1, <2>2
<1>3. CASE ~remove /\ r.at \notin timed
  BY <1>3, BackEnds DEF AfterCancel
<1> QED
  BY <1>1, <1>2, <1>3

-----------------------------------------------------------------------------
(* Steps, with what they do to the goroutine that takes them.              *)

Control == TypeOK /\ Tasks /\ Grown

\* The other variables.
LEMMA Contexts ==
  ASSUME Control
  PROVE  /\ \A c \in Made : c \in Ctxs /\ parent[c] \in Ctxs \cup {Background} /\ parent[c] < c
         /\ \A c \in Made : parent[c] \in ready \cup {Background}
         /\ \A c \in Ctxs : Registrar(c) \in Ctxs \cup {Background}
         /\ Derived \subseteq Made /\ ready \subseteq Derived /\ foreign \subseteq Made
         /\ \A c \in Made : Registrar(c) \in ready \cup {Background} /\ Registrar(c) < c
         /\ \A c \in Ctxs \ Made : parent[c] = c
<1>1. \A c \in Made : c \in Ctxs /\ parent[c] \in ready \cup {Background} /\ parent[c] < c
  BY DEF Control, TypeOK, Grown, Made
<1>2. ready \subseteq Made /\ foreign \subseteq Made /\ \A c \in Ctxs \ Made : parent[c] = c
  BY DEF Control, TypeOK, Made
<1>3. Derived \subseteq Made /\ ready \subseteq Derived
  BY <1>2, Threads DEF Control, Tasks, OnTask, Derived, Making
<1>4. \A c \in Made : Registrar(c) \in ready \cup {Background} /\ Registrar(c) < c
  BY <1>1, Numbers DEF Registrar
<1> QED
  BY <1>1, <1>2, <1>3, <1>4 DEF Made, Registrar

\* What the other goroutines can rely on.
Grows ==
  /\ Made \subseteq Made' /\ Derived \subseteq Derived' /\ ready \subseteq ready'
  /\ foreign \subseteq foreign' /\ timed \subseteq timed'
  /\ \A c \in Derived : Registrar(c)' = Registrar(c)
  /\ \A c \in Ctxs : err[c] # NoErr => err'[c] = err[c]

LEMMA OnTaskStays ==
  ASSUME Control, Grows, NEW u \in Goroutines, OnTask(u), run'[u] = run[u],
         Making(u) => run[u].at \notin ready'
  PROVE  OnTask(u)'
  BY DEF OnTask, Grows, Making, Canceling, Watcher

LEMMA PathStays ==
  ASSUME Control, Grows, NEW u \in Goroutines, Path(u), run'[u] = run[u],
         \A c \in Ctxs : mu'[c] = u <=> mu[c] = u,
         \A c \in Ctxs : Finished(c) => mu'[c] = Free,
         \A c \in Ctxs : mu[c] # Free => c \in Derived
  PROVE  Path(u)'
<1>1. \A c \in Ctxs : mu[c] = u => c \in Derived
  BY Threads
<1>2. Canceling(u) => run[u].at \in Derived
  BY DEF Control, Tasks, OnTask
<1>3. \A c \in Ctxs : Finished(c) => Finished(c)'
  BY DEF Grows, Finished
<1>4. (run[u].pc = "loop" \/ run[u].pc \in {"remove", "stop"}) => run[u].at \in Ctxs
  BY <1>2, Contexts DEF Canceling, Made
<1>5. \A c \in Ctxs : mu'[c] = u =>
        /\ Canceling(u)' /\ run'[u].root <= c /\ c <= run'[u].at
        /\ c = run'[u].at => run'[u].pc = "loop"
        /\ \A d \in Ctxs : (mu'[d] = u \/ d = run'[u].at) /\ c < d => c <= Registrar(d)'
  <2> SUFFICES ASSUME NEW c \in Ctxs, mu'[c] = u
               PROVE  /\ Canceling(u)' /\ run'[u].root <= c /\ c <= run'[u].at
                      /\ c = run'[u].at => run'[u].pc = "loop"
                      /\ \A d \in Ctxs :
                           (mu'[d] = u \/ d = run'[u].at) /\ c < d => c <= Registrar(d)'
    OBVIOUS
  <2>1. mu[c] = u /\ Canceling(u)
    BY DEF Path
  <2>2. ASSUME NEW d \in Ctxs, mu'[d] = u \/ d = run'[u].at, c < d
        PROVE  c <= Registrar(d)'
    <3>1. d \in Derived /\ c <= Registrar(d)
      BY <2>1, <2>2, <1>1, <1>2 DEF Path
    <3> QED
      BY <3>1 DEF Grows
  <2> QED
    BY <2>1, <2>2 DEF Path, Canceling
<1>6. \A c \in Ctxs : mu'[c] = u \/ (Canceling(u)' /\ c = run'[u].at) =>
        c = run'[u].root \/ (Registrar(c)' # Background /\ mu'[Registrar(c)'] = u)
  <2> SUFFICES ASSUME NEW c \in Ctxs, mu'[c] = u \/ (Canceling(u)' /\ c = run'[u].at),
                      c # run'[u].root
               PROVE  Registrar(c)' # Background /\ mu'[Registrar(c)'] = u
    OBVIOUS
  <2>1. c \in Derived /\ Registrar(c)' = Registrar(c)
    BY <1>1, <1>2 DEF Canceling, Grows
  <2>2. Registrar(c) # Background /\ mu[Registrar(c)] = u
    BY DEF Path, Canceling
  <2> QED
    BY <2>1, <2>2, Contexts
<1>7. run'[u].pc = "loop" => mu'[run'[u].at] = u
  BY <1>4 DEF Path
<1>8. run'[u].pc \in {"remove", "stop"} => Finished(run[u].at)'
  BY <1>4, <1>3 DEF Path
<1> QED
  BY <1>5, <1>6, <1>7, <1>8 DEF Path, Finished

LEMMA Still ==
  ASSUME TypeOK, NEW t \in Goroutines, \A u \in Goroutines \ {t} : run'[u] = run[u],
         UNCHANGED <<parent, foreign, timed>>,
         run[t].pc # "register" /\ run'[t].pc # "register"
  PROVE  /\ Made' = Made /\ Derived' = Derived
         /\ \A c \in Ctxs : Registrar(c)' = Registrar(c)
<1>1. Made' = Made
  BY DEF Made
<1>2. \A c \in Ctxs : Registrar(c)' = Registrar(c)
  BY DEF Registrar
<1>3. \A u \in Callers, c \in Ctxs : (run'[u].pc = "register" => run'[u].at # c)
                                 <=> (run[u].pc = "register" => run[u].at # c)
  BY Threads
<1>4. Derived' = Derived
  BY <1>1, <1>3 DEF Derived, Made
<1> QED
  BY <1>1, <1>2, <1>4

-----------------------------------------------------------------------------
(* A goroutine is done with the cancel of a context, or with a part of     *)
(* what follows it: CancelAgain, CancelEnd, Remove and Stop.               *)

Inv == Control /\ Locks /\ Reached /\ Kept /\ TimersAreStopped

SameShape == Derived' = Derived /\ \A c \in Derived : Registrar(c)' = Registrar(c)

Leaves(t) ==
  /\ Canceling(t)
  /\ \/ /\ Moves(t, "remove", run[t].at) /\ UNCHANGED ready
        /\ run[t].at = run[t].root
     \/ Moves(t, "stop", run[t].at) /\ UNCHANGED ready /\ run[t].at \in timed
     \/ Ends(t)
  /\ UNCHANGED <<parent, foreign, timed, err>>
  /\ err[run[t].at] # NoErr /\ mu'[run[t].at] = Free /\ mu[run[t].at] \in {t, Free}
  /\ \A c \in Ctxs \ {run[t].at} : mu'[c] = mu[c]
  /\ armed' \subseteq armed
  /\ \A c \in Ctxs : children'[c] \subseteq children[c]

\* A goroutine that goes back to the parent holds the parent's lock.
LEMMA BackUp ==
  ASSUME Control, Locks, NEW t \in Goroutines, Canceling(t)
  PROVE  /\ run[t].at \in Derived /\ run[t].at \in Ctxs /\ run[t].root \in Derived
         /\ run[t].at # run[t].root =>
              /\ Registrar(run[t].at) # Background /\ mu[Registrar(run[t].at)] = t
              /\ Registrar(run[t].at) \in Derived /\ Registrar(run[t].at) \in Ctxs
         /\ Registrar(run[t].at) < run[t].at
<1>1. run[t].at \in Derived /\ run[t].at \in Ctxs /\ run[t].root \in Derived
  BY Contexts DEF Control, Tasks, OnTask
<1>2. Registrar(run[t].at) \in ready \cup {Background} /\ Registrar(run[t].at) < run[t].at
  BY <1>1, Contexts
<1>3. run[t].at # run[t].root =>
        Registrar(run[t].at) # Background /\ mu[Registrar(run[t].at)] = t
  BY <1>1 DEF Locks, Path
<1> QED
  BY <1>1, <1>2, <1>3, Contexts

LEMMA LeavesGrow ==
  ASSUME Control, Locks, NEW t \in Goroutines, Leaves(t)
  PROVE  /\ run' \in [Goroutines -> Activity]
         /\ \A u \in Goroutines \ {t} : run'[u] = run[u]
         /\ Made' = Made /\ Derived' = Derived
         /\ \A c \in Ctxs : Registrar(c)' = Registrar(c)
         /\ Grows
         /\ ready' = ready \/ (t \in Callers /\ ready' = ready \cup {run[t].root})
         /\ ready' \subseteq Derived
<1>1. /\ run' \in [Goroutines -> Activity]
      /\ \A u \in Goroutines \ {t} : run'[u] = run[u]
      /\ run'[t].pc \in {"idle", "remove", "stop", "loop"}
      /\ ready' = ready \/ (t \in Callers /\ ready' = ready \cup {run[t].root})
  BY Activities DEF Leaves, Ends, Begins, Moves
<1>2. run[t].pc # "register"
  BY DEF Leaves, Canceling
<1>3. /\ Made' = Made /\ Derived' = Derived
      /\ \A c \in Ctxs : Registrar(c)' = Registrar(c)
  BY <1>1, <1>2, Still DEF Leaves, Control
<1>4. ready \subseteq ready' /\ ready' \subseteq Derived
  BY <1>1, Contexts, BackUp DEF Leaves
<1>5. Grows
  BY <1>3, <1>4, Contexts DEF Grows, Leaves, Made
<1> QED
  BY <1>1, <1>3, <1>4, <1>5

LEMMA LeavesTasks ==
  ASSUME Control, Locks, NEW t \in Goroutines, Leaves(t)
  PROVE  Tasks'
<1>1. Canceling(t) /\ OnTask(t)
  BY DEF Leaves, Control, Tasks
<1>2. ASSUME NEW u \in Goroutines \ {t} PROVE OnTask(u)'
  <2>1. Making(u) => run[u].at \notin ready'
    BY <1>1, LeavesGrow, Threads DEF Control, Tasks, OnTask
  <2> QED
    BY <2>1, LeavesGrow, OnTaskStays DEF Control, Tasks
<1>3. OnTask(t)'
  <2>1. CASE Moves(t, "remove", run[t].at) /\ run[t].at = run[t].root
    BY <2>1, <1>1, LeavesGrow DEF OnTask, Moves, Making, Canceling, Leaves
  <2>2. CASE Moves(t, "stop", run[t].at) /\ run[t].at \in timed
    BY <2>2, <1>1, LeavesGrow DEF OnTask, Moves, Making, Canceling, Leaves
  <2>3. CASE Ends(t)
    <3>1. CASE Begins(t, Idle)
      BY <3>1, Activities DEF OnTask, Begins, Making, Canceling, Idle
    <3>2. CASE run[t].at # run[t].root /\ Moves(t, "loop", Registrar(run[t].at))
      BY <3>2, <1>1, LeavesGrow, BackUp DEF OnTask, Moves, Making, Canceling, Leaves
    <3> QED
      BY <2>3, <3>1, <3>2 DEF Ends
  <2> QED
    BY <2>1, <2>2, <2>3 DEF Leaves
<1>4. run'[t] = Idle \/ (run'[t].root = run[t].root /\ ~Making(t)')
  BY DEF Leaves, Ends, Begins, Moves, Making
<1>5. ASSUME NEW u \in Callers, NEW v \in Callers,
             Making(u)', (Making(v) \/ Canceling(v))', run'[u].root = run'[v].root
      PROVE  u = v
  <2>1. u # t /\ ~(run'[t] = Idle /\ v = t)
    BY <1>4, <1>5, Activities DEF Making, Canceling
  <2>2. Making(u) /\ (Making(v) \/ Canceling(v)) /\ run[u].root = run[v].root
    BY <2>1, <1>1, <1>4, <1>5, LeavesGrow, Threads DEF Making, Canceling
  <2> QED
    BY <2>2 DEF Control, Tasks
<1> QED
  BY <1>2, <1>3, <1>5 DEF Tasks

LEMMA LeavesGrown ==
  ASSUME Control, Locks, NEW t \in Goroutines, Leaves(t)
  PROVE  Grown'
<1>1. Canceling(t) /\ run[t].at \in Derived
  BY BackUp DEF Leaves
<1>2. \A c \in Made' : parent'[c] < c
  BY LeavesGrow DEF Leaves, Control, Grown
<1>3. \A c \in foreign' : parent'[c] # Background
  BY DEF Leaves, Control, Grown
<1>4. ASSUME NEW c \in Ctxs \ Derived'
      PROVE  mu'[c] = Free /\ err'[c] = NoErr /\ children'[c] = {} /\ run'[Watcher(c)] = Idle
  <2>1. c \in Ctxs \ Derived /\ c # run[t].at
    BY <1>1, LeavesGrow
  <2>2. mu[c] = Free /\ err[c] = NoErr /\ children[c] = {} /\ run[Watcher(c)] = Idle
    BY <2>1 DEF Control, Grown
  <2>3. Watcher(c) # t
    BY <1>1, <2>2, Activities DEF Canceling
  <2> QED
    BY <2>1, <2>2, <2>3, LeavesGrow, Threads DEF Leaves
<1>5. armed' \subseteq ready'
  BY LeavesGrow DEF Control, Grown, Grows, Leaves
<1>6. ASSUME NEW c \in Ctxs, c \in armed' \/ c \notin ready' PROVE run'[Timer(c)] = Idle
  <2>1. run[Timer(c)] = Idle
    BY <1>6, LeavesGrow DEF Control, Grown, Grows, Leaves
  <2> QED
    BY <1>1, <2>1, LeavesGrow, Threads, Activities DEF Canceling
<1>7. \A p \in Ctxs : \A c \in children'[p] : c \in Derived' /\ Registrar(c)' = p
  BY LeavesGrow, Contexts DEF Leaves, Control, Grown, Made
<1> QED
  BY <1>2, <1>3, <1>4, <1>5, <1>6, <1>7, LeavesGrow DEF Grown, Control

LEMMA LeavesLocks ==
  ASSUME Control, Locks, NEW t \in Goroutines, Leaves(t)
  PROVE  Locks'
<1> DEFINE a == run[t].at
<1>1. /\ Canceling(t) /\ a \in Derived /\ a \in Ctxs
      /\ a # run[t].root =>
           /\ Registrar(a) # Background /\ mu[Registrar(a)] = t
           /\ Registrar(a) \in Derived /\ Registrar(a) \in Ctxs
      /\ Registrar(a) < a
  BY BackUp DEF Leaves
<1>2. \A c \in Ctxs : mu'[c] # Free => err'[c] # NoErr
  BY <1>1 DEF Locks, Leaves
<1>3. \A c \in Ctxs : mu[c] # Free => c \in Derived
  BY DEF Control, Grown
<1>4. \A c \in Ctxs : c \in Nat /\ (c \in Made => Registrar(c) < c)
  BY Numbers, Contexts
<1>5. \A c \in Ctxs : mu'[c] = t <=> mu[c] = t /\ c # a
  BY <1>1, Threads DEF Leaves
<1>6. ASSUME NEW u \in Goroutines \ {t} PROVE Path(u)'
  <2>1. \A c \in Ctxs : mu'[c] = u <=> mu[c] = u
    BY <1>1, Threads DEF Leaves
  <2>2. \A c \in Ctxs : Finished(c) => mu'[c] = Free
    BY <1>1 DEF Leaves, Finished
  <2> QED
    BY <1>3, <2>1, <2>2, LeavesGrow, PathStays DEF Locks
<1>7. \A c \in Ctxs : mu'[c] = t =>
        /\ c \in Derived /\ run[t].root <= c /\ c < a /\ c <= Registrar(a)
        /\ \A d \in Ctxs : (mu[d] = t \/ d = a) /\ c < d => c <= Registrar(d)
        /\ c = run[t].root \/ (Registrar(c) # Background /\ mu'[Registrar(c)] = t)
  <2> SUFFICES ASSUME NEW c \in Ctxs, mu'[c] = t
               PROVE  /\ c \in Derived /\ run[t].root <= c /\ c < a /\ c <= Registrar(a)
                      /\ \A d \in Ctxs : (mu[d] = t \/ d = a) /\ c < d => c <= Registrar(d)
                      /\ c = run[t].root \/ (Registrar(c) # Background /\ mu'[Registrar(c)] = t)
    OBVIOUS
  <2>1. mu[c] = t /\ c # a /\ c \in Derived
    BY <1>5, <1>3, Threads
  <2>2. /\ run[t].root <= c /\ c <= a
        /\ \A d \in Ctxs : (mu[d] = t \/ d = a) /\ c < d => c <= Registrar(d)
        /\ c = run[t].root \/ (Registrar(c) # Background /\ mu[Registrar(c)] = t)
    BY <2>1 DEF Locks, Path
  <2>3. c < a /\ c <= Registrar(a)
    BY <1>1, <1>4, <2>1, <2>2
  <2>4. Registrar(c) # a /\ Registrar(c) \in Ctxs \cup {Background}
    BY <1>1, <1>4, <2>1, <2>3, Contexts, Numbers
  <2> QED
    BY <1>5, <2>1, <2>2, <2>3, <2>4
<1>8. Path(t)'
  <2>1. CASE /\ Moves(t, "remove", a) \/ Moves(t, "stop", a)
    <3>1. run'[t].pc \in {"remove", "stop"} /\ run'[t].at = a /\ run'[t].root = run[t].root
      BY <2>1 DEF Moves
    <3>2. a = run[t].root \/ (Registrar(a) # Background /\ mu'[Registrar(a)] = t)
      BY <1>1, <1>4, <1>5, Contexts
    <3>3. Canceling(t)' /\ Finished(a)'
      BY <1>1, <3>1 DEF Canceling, Finished, Leaves
    <3>4. \A c \in Ctxs : mu'[c] = t => c # a /\ c <= a
      BY <1>1, <1>4, <1>7
    <3>5. \A c \in Ctxs : mu'[c] = t =>
            \A d \in Ctxs : (mu'[d] = t \/ d = a) /\ c < d => c <= Registrar(d)'
      BY <1>5, <1>7, LeavesGrow
    <3>6. \A c \in Ctxs : mu'[c] = t \/ c = a =>
            c = run[t].root \/ (Registrar(c)' # Background /\ mu'[Registrar(c)'] = t)
      BY <1>7, <3>2, LeavesGrow
    <3> QED
      BY <1>7, <3>1, <3>3, <3>4, <3>5, <3>6 DEF Path
  <2>2. CASE a = run[t].root /\ Begins(t, Idle)
    <3>1. \A c \in Ctxs : mu'[c] # t
      BY <1>4, <1>7, <1>1, <2>2
    <3> QED
      BY <2>2, <3>1, Activities DEF Path, Begins, Canceling
  <2>3. CASE a # run[t].root /\ Moves(t, "loop", Registrar(a))
    <3>1. /\ run'[t].pc = "loop" /\ run'[t].at = Registrar(a) /\ run'[t].root = run[t].root
          /\ mu'[Registrar(a)] = t /\ Registrar(a) \in Ctxs
      BY <1>1, <1>4, <1>5, <2>3 DEF Moves
    <3>2. Canceling(t)'
      BY <3>1 DEF Canceling
    <3> QED
      BY <1>5, <1>7, <3>1, <3>2, LeavesGrow DEF Path
  <2> QED
    BY <2>1, <2>2, <2>3 DEF Leaves, Ends
<1> QED
  BY <1>2, <1>6, <1>8 DEF Locks

LEMMA LeavesReached ==
  ASSUME Control, Locks, Reached, NEW t \in Goroutines, Leaves(t),
         children[run[t].at] = {},
         \A c, d \in Ctxs : c \in children[d] /\ c \notin children'[d] => c = run[t].at
  PROVE  Reached'
<1> DEFINE a == run[t].at
<1>1. a \in Derived /\ a \in Ctxs
  BY BackUp DEF Leaves
<1>2. \A c \in Ctxs : c = a \/ Finished(c) => Finished(c)'
  BY <1>1 DEF Leaves, Finished
<1>3. ASSUME NEW c \in Ctxs, Finished(c)' PROVE children'[c] = {}
  <2>1. c = a \/ Finished(c)
    BY <1>3 DEF Leaves, Finished
  <2>2. children[c] = {}
    BY <2>1 DEF Reached
  <2> QED
    BY <2>2 DEF Leaves
<1>4. ASSUME NEW c \in Derived', Registrar(c)' # Background
      PROVE  \/ Finished(c)'
             \/ c \in children'[Registrar(c)']
             \/ /\ mu'[Registrar(c)'] # Free
                /\ \/ mu'[c] = mu'[Registrar(c)']
                   \/ run'[mu'[Registrar(c)']].at = c /\ run'[mu'[Registrar(c)']].pc = "cancel"
  <2> DEFINE p == Registrar(c)
  <2>1. c \in Derived /\ c \in Ctxs /\ p \in Ctxs /\ Registrar(c)' = p /\ p # Background /\ p < c
    BY <1>4, LeavesGrow, Contexts DEF Made
  <2>2. CASE Finished(c) \/ c = a
    BY <2>2, <2>1, <1>2
  <2>3. CASE c # a /\ c \in children[p]
    BY <2>1, <2>3
  <2>4. CASE /\ ~Finished(c) /\ c # a /\ mu[p] # Free
             /\ mu[c] = mu[p] \/ (run[mu[p]].at = c /\ run[mu[p]].pc = "cancel")
    <3>1. mu'[c] = mu[c]
      BY <2>1, <2>4 DEF Leaves
    <3>2. p # a
      <4> SUFFICES ASSUME p = a PROVE FALSE
        OBVIOUS
      <4>1. mu[a] = t
        BY <2>4 DEF Leaves
      <4>2. mu[c] = t
        BY <2>4, <4>1
      <4>3. c <= a
        BY <2>1, <4>2 DEF Locks, Path
      <4> QED
        BY <2>1, <4>3, Numbers
    <3>3. mu'[p] = mu[p] /\ mu[p] \in Goroutines
      BY <2>1, <2>4, <3>2 DEF Leaves, Control, TypeOK
    <3>4. mu[p] = t => ~(run[mu[p]].at = c)
      BY <2>4
    <3>5. mu[p] # t => run'[mu[p]] = run[mu[p]]
      BY <3>3, LeavesGrow
    <3> QED
      BY <2>1, <2>4, <3>1, <3>3, <3>4, <3>5
  <2> QED
    BY <2>1, <2>2, <2>3, <2>4 DEF Reached
<1> QED
  BY <1>3, <1>4 DEF Reached

LEMMA LeavesKept ==
  ASSUME Control, Locks, Kept, NEW t \in Goroutines, Leaves(t),
         /\ run[t].at = run[t].root /\ run[t].up /\ run[t].pc \notin {"cancel", "stop"}
         => run'[t].pc = "remove" \/ \A p \in Ctxs : run[t].root \notin children'[p]
  PROVE  Kept'
<1> SUFFICES ASSUME NEW p \in Ctxs, NEW c \in children'[p], err'[p] = NoErr, err'[c] # NoErr
             PROVE  \E u \in Goroutines :
                      /\ Canceling(u)' /\ run'[u].root = c /\ run'[u].up
                      /\ ~(run'[u].at = c /\ run'[u].pc \in {"cancel", "stop"})
  BY DEF Kept
<1>1. c \in children[p] /\ Registrar(c) = p /\ err[p] = NoErr /\ err[c] # NoErr
  BY DEF Leaves, Control, Grown
<1>2. PICK u \in Goroutines :
        /\ Canceling(u) /\ run[u].root = c /\ run[u].up
        /\ ~(run[u].at = c /\ run[u].pc \in {"cancel", "stop"})
  BY <1>1 DEF Kept
<1>3. CASE u # t
  BY <1>2, <1>3, LeavesGrow DEF Canceling
<1>4. CASE u = t /\ run[t].at = run[t].root
  <2>1. run'[t].pc = "remove"
    BY <1>1, <1>2, <1>4
  <2>2. Moves(t, "remove", run[t].at)
    BY <2>1, <1>4, Activities DEF Leaves, Ends, Begins, Moves
  <2> QED
    BY <1>2, <1>4, <2>2 DEF Moves, Canceling
<1>5. CASE u = t /\ run[t].at # run[t].root
  <2>1. \/ Moves(t, "stop", run[t].at)
        \/ Moves(t, "loop", Registrar(run[t].at))
    BY <1>5 DEF Leaves, Ends
  <2> QED
    BY <1>2, <1>5, <2>1 DEF Moves, Canceling
<1> QED
  BY <1>3, <1>4, <1>5

LEMMA LeavesTimers ==
  ASSUME Control, Locks, TimersAreStopped, NEW t \in Goroutines, Leaves(t),
         run[t].at \in armed' => run'[t].pc \in {"remove", "stop"}
  PROVE  TimersAreStopped'
<1> SUFFICES ASSUME NEW c \in armed', err'[c] # NoErr
             PROVE  \E u \in Goroutines : AtWorkOn(u, c)'
  BY DEF TimersAreStopped
<1>1. c \in armed /\ err[c] # NoErr /\ c \in Ctxs
  BY Contexts DEF Leaves, Control, TypeOK, Made
<1>2. PICK u \in Goroutines : AtWorkOn(u, c)
  BY <1>1 DEF TimersAreStopped
<1>3. CASE c = run[t].at
  <2>1. run'[t].pc \in {"remove", "stop"}
    BY <1>3
  <2>2. run'[t].at = c
    BY <1>3, <2>1, Activities DEF Leaves, Ends, Begins, Moves
  <2> QED
    BY <2>1, <2>2 DEF AtWorkOn
<1>4. CASE c # run[t].at
  <2>1. mu'[c] = mu[c]
    BY <1>1, <1>4 DEF Leaves
  <2>2. u # t => run'[u] = run[u]
    BY LeavesGrow
  <2>3. u = t => mu[c] = t
    BY <1>2, <1>4 DEF AtWorkOn
  <2> QED
    BY <1>2, <2>1, <2>2, <2>3 DEF AtWorkOn
<1> QED
  BY <1>3, <1>4

LEMMA LeavesType ==
  ASSUME Control, Locks, NEW t \in Goroutines, Leaves(t),
         UNCHANGED <<now, deadline, called>>,
         mu' \in [Ctxs -> Goroutines \cup {Free}], children' \in [Ctxs -> SUBSET Ctxs]
  PROVE  TypeOK'
<1>1. ready' \subseteq Made' /\ ready \subseteq ready'
  BY LeavesGrow, Contexts DEF Grows
<1>2. \A c \in Ctxs : parent'[c] \in {Background} \cup ready' \cup {c}
  BY <1>1 DEF Control, TypeOK, Leaves
<1>3. foreign' \subseteq Made' /\ timed' \subseteq Made' /\ armed' \subseteq timed'
  BY LeavesGrow DEF Control, TypeOK, Leaves
<1> QED
  BY <1>1, <1>2, <1>3, LeavesGrow DEF Control, TypeOK, Leaves

LEMMA LeavesInv ==
  ASSUME Inv, NEW t \in Goroutines, Leaves(t),
         UNCHANGED <<now, deadline, called>>,
         mu' \in [Ctxs -> Goroutines \cup {Free}], children' \in [Ctxs -> SUBSET Ctxs],
         children[run[t].at] = {},
         \A c, d \in Ctxs : c \in children[d] /\ c \notin children'[d] => c = run[t].at,
         /\ run[t].at = run[t].root /\ run[t].up /\ run[t].pc \notin {"cancel", "stop"}
         => run'[t].pc = "remove" \/ \A p \in Ctxs : run[t].root \notin children'[p],
         run[t].at \in armed' => run'[t].pc \in {"remove", "stop"}
  PROVE  Inv' /\ SameShape
<1>1. SameShape
  BY LeavesGrow DEF SameShape, Grows, Inv
<1> QED
  BY <1>1, LeavesType, LeavesTasks, LeavesGrown, LeavesLocks, LeavesReached, LeavesKept, LeavesTimers
  DEF Inv, Control

-----------------------------------------------------------------------------
(* The actions, one by one.                                                *)

LEMMA CancelingAt ==
  ASSUME Inv, NEW t \in Goroutines, Canceling(t)
  PROVE  /\ run[t].at \in Ctxs /\ run[t].at \in Derived
         /\ Registrar(run[t].at) \in Ctxs \cup {Background}
         /\ run[t].up \in BOOLEAN
  BY BackUp, Contexts DEF Inv, Control, TypeOK, Activity

LEMMA CancelAgainInv ==
  ASSUME Inv, NEW t \in Goroutines, CancelAgain(t)
  PROVE  Inv' /\ SameShape /\ Leaves(t)
<1> DEFINE a == run[t].at
<1>1. /\ Canceling(t) /\ run[t].pc = "cancel" /\ mu[a] = Free /\ err[a] # NoErr
      /\ UNCHANGED <<now, parent, foreign, timed, deadline, mu, err, children, armed, called>>
  BY DEF CancelAgain, Canceling
<1>2. a \in Ctxs /\ Registrar(a) \in Ctxs \cup {Background}
  BY <1>1, CancelingAt
<1>3. \/ /\ Moves(t, "remove", a) /\ UNCHANGED ready
         /\ run[t].up /\ a = run[t].root
      \/ /\ Moves(t, "stop", a) /\ UNCHANGED ready /\ a \in timed
      \/ a \notin timed /\ Ends(t)
  BY <1>2, AfterCancelEffect DEF CancelAgain, Inv, Control
<1>4. Leaves(t)
  BY <1>1, <1>3 DEF Leaves
<1>5. children[a] = {}
  BY <1>1, <1>2 DEF Inv, Reached, Finished
<1>6. a \in armed' => run'[t].pc \in {"remove", "stop"}
  BY <1>1, <1>3 DEF Inv, Control, TypeOK, Moves
<1> QED
  BY <1>1, <1>4, <1>5, <1>6, LeavesInv DEF Inv, Control, TypeOK

LEMMA CancelEndInv ==
  ASSUME Inv, NEW t \in Goroutines, CancelEnd(t)
  PROVE  Inv' /\ SameShape /\ Leaves(t)
<1> DEFINE a == run[t].at
<1>1. /\ Canceling(t) /\ run[t].pc = "loop" /\ children[a] = {}
      /\ mu' = [mu EXCEPT ![a] = Free]
      /\ UNCHANGED <<now, parent, foreign, timed, deadline, err, children, armed, called>>
  BY DEF CancelEnd, Canceling
<1>2. a \in Ctxs /\ Registrar(a) \in Ctxs \cup {Background}
  BY <1>1, CancelingAt
<1>3. mu[a] = t /\ err[a] # NoErr
  BY <1>1, <1>2, Threads DEF Inv, Locks, Path
<1>4. \/ /\ Moves(t, "remove", a) /\ UNCHANGED ready
         /\ run[t].up /\ a = run[t].root
      \/ /\ Moves(t, "stop", a) /\ UNCHANGED ready
         /\ a \in timed /\ (run[t].up => a # run[t].root)
      \/ a \notin timed /\ Ends(t) /\ ~(run[t].up /\ a = run[t].root)
  BY <1>2, AfterCancelEffect DEF CancelEnd, Inv, Control
<1>5. mu' \in [Ctxs -> Goroutines \cup {Free}] /\ mu'[a] = Free
      /\ \A c \in Ctxs \ {a} : mu'[c] = mu[c]
  BY <1>1, <1>2 DEF Inv, Control, TypeOK
<1>6. Leaves(t)
  BY <1>1, <1>3, <1>4, <1>5 DEF Leaves
<1>7. a = run[t].root /\ run[t].up => run'[t].pc = "remove"
  BY <1>4 DEF Moves
<1>8. a \in armed' => run'[t].pc \in {"remove", "stop"}
  BY <1>1, <1>4 DEF Inv, Control, TypeOK, Moves
<1> QED
  BY <1>1, <1>5, <1>6, <1>7, <1>8, LeavesInv DEF Inv, Control, TypeOK

LEMMA RemoveInv ==
  ASSUME Inv, NEW t \in Goroutines, Remove(t)
  PROVE  Inv' /\ SameShape /\ Leaves(t)
<1> DEFINE a == run[t].at
           p == Registrar(a)
<1>1. /\ Canceling(t) /\ run[t].pc = "remove"
      /\ children' = [d \in Ctxs |-> IF d = p THEN children[d] \ {a} ELSE children[d]]
      /\ UNCHANGED <<now, parent, foreign, timed, deadline, mu, err, armed, called>>
  BY DEF Remove, Canceling
<1>2. a \in Ctxs /\ p \in Ctxs \cup {Background} /\ "stop" \in Places
  BY <1>1, CancelingAt DEF Places
<1>3. a = run[t].root /\ Finished(a)
  BY <1>1 DEF Inv, Control, Tasks, OnTask, Locks, Path
<1>4. \/ a \in timed /\ Moves(t, "stop", a) /\ UNCHANGED ready
      \/ a \notin timed /\ Ends(t)
  BY <1>2, GotoMoves, BackEnds DEF Remove, Inv, Control
<1>5. Leaves(t)
  BY <1>1, <1>3, <1>4 DEF Leaves, Finished
<1>6. children' \in [Ctxs -> SUBSET Ctxs]
  BY <1>1 DEF Inv, Control, TypeOK
<1>7. children[a] = {}
  BY <1>2, <1>3 DEF Inv, Reached
<1>8. \A d \in Ctxs : a \notin children'[d]
  BY <1>1 DEF Inv, Control, Grown
<1>9. a \in armed' => run'[t].pc \in {"remove", "stop"}
  BY <1>1, <1>4 DEF Inv, Control, TypeOK, Moves
<1> QED
  BY <1>1, <1>3, <1>5, <1>6, <1>7, <1>8, <1>9, LeavesInv DEF Inv, Control, TypeOK

LEMMA StopInv ==
  ASSUME Inv, NEW t \in Goroutines, Stop(t)
  PROVE  Inv' /\ SameShape /\ Leaves(t)
<1> DEFINE a == run[t].at
<1>1. /\ Canceling(t) /\ run[t].pc = "stop"
      /\ armed' = armed \ {a}
      /\ UNCHANGED <<now, parent, foreign, timed, deadline, mu, err, children, called>>
  BY DEF Stop, Canceling
<1>2. a \in Ctxs /\ Registrar(a) \in Ctxs \cup {Background}
  BY <1>1, CancelingAt
<1>3. Finished(a)
  BY <1>1 DEF Inv, Locks, Path
<1>4. Ends(t)
  BY <1>2, BackEnds DEF Stop, Inv, Control
<1>5. Leaves(t)
  BY <1>1, <1>3, <1>4 DEF Leaves, Finished
<1>6. children[a] = {}
  BY <1>2, <1>3 DEF Inv, Reached
<1> QED
  BY <1>1, <1>5, <1>6, LeavesInv DEF Inv, Control, TypeOK

\* What a step that only moves goroutines from a place where they cancel nothing leaves
\* as it is: a new cancel begins, a watcher stops, the clock goes on.
LEMMA LocksStay ==
  ASSUME Control, Locks, Grows, NEW t \in Goroutines, UNCHANGED mu,
         ~Canceling(t) /\ run'[t].pc \notin {"loop", "remove", "stop"},
         Canceling(t)' => run'[t].at = run'[t].root,
         \A u \in Goroutines \ {t} : run'[u] = run[u]
  PROVE  Locks'
<1>1. \A c \in Ctxs : mu'[c] # Free => err'[c] # NoErr
  BY DEF Locks, Grows
<1>2. \A c \in Ctxs : mu[c] # Free => c \in Derived
  BY DEF Control, Grown
<1>3. ASSUME NEW u \in Goroutines \ {t} PROVE Path(u)'
  BY <1>2, PathStays DEF Locks, Finished
<1>4. \A c \in Ctxs : mu[c] # t
  BY DEF Locks, Path
<1>5. Path(t)'
  BY <1>4 DEF Path
<1> QED
  BY <1>1, <1>3, <1>5 DEF Locks

LEMMA ReachedStays ==
  ASSUME Control, Locks, Reached, NEW t \in Goroutines, UNCHANGED <<mu, err, children>>,
         Derived' = Derived, \A c \in Derived : Registrar(c)' = Registrar(c),
         ~Canceling(t), \A u \in Goroutines \ {t} : run'[u] = run[u]
  PROVE  Reached'
<1>1. \A c \in Ctxs : mu[c] # t
  BY DEF Locks, Path
<1>2. \A c \in Ctxs : Finished(c)' <=> Finished(c)
  BY DEF Finished
<1>3. \A c \in Ctxs : mu[c] # Free => run'[mu[c]] = run[mu[c]]
  BY <1>1 DEF Control, TypeOK
<1>4. ASSUME NEW c \in Derived', Registrar(c)' # Background
      PROVE  \/ Finished(c)'
             \/ c \in children'[Registrar(c)']
             \/ /\ mu'[Registrar(c)'] # Free
                /\ \/ mu'[c] = mu'[Registrar(c)']
                   \/ run'[mu'[Registrar(c)']].at = c /\ run'[mu'[Registrar(c)']].pc = "cancel"
  <2>1. c \in Derived /\ c \in Ctxs /\ Registrar(c) \in Ctxs /\ Registrar(c)' = Registrar(c)
        /\ Registrar(c) # Background
    BY <1>4, Contexts DEF Made
  <2> QED
    BY <2>1, <1>2, <1>3 DEF Reached
<1> QED
  BY <1>2, <1>4 DEF Reached

LEMMA KeptStays ==
  ASSUME Kept, NEW t \in Goroutines, UNCHANGED <<err, children>>,
         ~Canceling(t), \A u \in Goroutines \ {t} : run'[u] = run[u]
  PROVE  Kept'
<1> SUFFICES ASSUME NEW p \in Ctxs, NEW c \in children[p], err[p] = NoErr, err[c] # NoErr
             PROVE  \E u \in Goroutines :
                      /\ Canceling(u)' /\ run'[u].root = c /\ run'[u].up
                      /\ ~(run'[u].at = c /\ run'[u].pc \in {"cancel", "stop"})
  BY DEF Kept
<1>1. PICK u \in Goroutines :
        /\ Canceling(u) /\ run[u].root = c /\ run[u].up
        /\ ~(run[u].at = c /\ run[u].pc \in {"cancel", "stop"})
  BY DEF Kept
<1> QED
  BY <1>1 DEF Canceling

LEMMA TimersStay ==
  ASSUME Control, Locks, TimersAreStopped, NEW t \in Goroutines, UNCHANGED <<mu, err>>,
         armed' \subseteq armed,
         ~Canceling(t), \A u \in Goroutines \ {t} : run'[u] = run[u]
  PROVE  TimersAreStopped'
<1> SUFFICES ASSUME NEW c \in armed', err[c] # NoErr
             PROVE  \E u \in Goroutines : AtWorkOn(u, c)'
  BY DEF TimersAreStopped
<1>1. c \in Ctxs
  BY Contexts DEF Control, TypeOK, Made
<1>2. PICK u \in Goroutines : AtWorkOn(u, c)
  BY DEF TimersAreStopped
<1>3. u # t
  BY <1>1, <1>2 DEF Locks, Path, AtWorkOn, Canceling
<1> QED
  BY <1>2, <1>3 DEF AtWorkOn

\* A goroutine that cancels nothing begins to cancel c, or becomes idle.
StartsOrStops(t, r) ==
  /\ run[t].pc \notin {"register", "cancel", "loop", "remove", "stop"}
  /\ run' = [run EXCEPT ![t] = r]
  /\ \/ r = Idle
     \/ \E c \in Derived, e \in Errs, up \in BOOLEAN :
          r = Task("cancel", c, e, up) /\ (up \/ c \in foreign)
  /\ UNCHANGED <<parent, foreign, timed, deadline, mu, err, children>>

LEMMA StartFacts ==
  ASSUME Inv, NEW t \in Goroutines, NEW r, StartsOrStops(t, r)
  PROVE  /\ Begins(t, r) /\ r \in Activity
         /\ r = Idle \/ (/\ r.pc = "cancel" /\ r.at = r.root /\ r.at \in Derived
                         /\ r.why \in Errs /\ (r.up \/ r.root \in foreign))
         /\ Made' = Made /\ Derived' = Derived
         /\ \A c \in Ctxs : Registrar(c)' = Registrar(c)
         /\ ~Canceling(t)
<1>1. r \in Activity /\ r.pc # "register"
      /\ (r = Idle \/ (/\ r.pc = "cancel" /\ r.at = r.root /\ r.at \in Derived
                       /\ r.why \in Errs /\ (r.up \/ r.root \in foreign)))
  BY Activities DEF StartsOrStops, Derived, Made
<1>2. Begins(t, r)
  BY <1>1, TaskBegins DEF StartsOrStops, Inv, Control
<1> QED
  BY <1>1, <1>2, Still DEF StartsOrStops, Begins, Inv, Control, Canceling

LEMMA StartInv ==
  ASSUME Inv, NEW t \in Goroutines, NEW r, StartsOrStops(t, r),
         armed' \subseteq armed, ready' = ready, called' \subseteq ready, now' \in 0..MaxTime,
         r # Idle /\ t \in Callers =>
           \A s \in Callers \ {t} : Making(s) => run[s].root # r.root,
         \A c \in Ctxs : t = Watcher(c) => c \in Derived,
         \A c \in Ctxs : t = Timer(c) => c \in ready \ armed'
  PROVE  Inv' /\ SameShape
<1>1. /\ Begins(t, r) /\ r \in Activity
      /\ r = Idle \/ (/\ r.pc = "cancel" /\ r.at = r.root /\ r.at \in Derived
                      /\ r.why \in Errs /\ (r.up \/ r.root \in foreign))
      /\ Made' = Made /\ Derived' = Derived
      /\ \A c \in Ctxs : Registrar(c)' = Registrar(c)
      /\ ~Canceling(t)
      /\ UNCHANGED <<parent, foreign, timed, deadline, mu, err, children>>
  BY StartFacts DEF StartsOrStops
<1>2. Grows
  BY <1>1, Contexts DEF Grows, Made, Inv
<1>3. /\ run' \in [Goroutines -> Activity] /\ run'[t] = r
      /\ \A u \in Goroutines \ {t} : run'[u] = run[u]
  BY <1>1 DEF Begins
<1>4. TypeOK'
  BY <1>1, <1>3 DEF TypeOK, Inv, Control
<1>5. Tasks'
  <2>1. ASSUME NEW u \in Goroutines \ {t} PROVE OnTask(u)'
    BY <1>2, <1>3, OnTaskStays DEF Inv, Control, Tasks, OnTask
  <2>2. OnTask(t)'
    BY <1>1, <1>3, Activities DEF OnTask, Making, Canceling, Idle
  <2>3. ASSUME NEW u \in Callers, NEW v \in Callers,
               Making(u)', (Making(v) \/ Canceling(v))', run'[u].root = run'[v].root
        PROVE  u = v
    <3>1. u # t /\ u \in Goroutines /\ v \in Goroutines
      BY <2>3, <1>1, <1>3, Threads, Activities DEF Making
    <3>2. CASE v = t
      BY <2>3, <3>1, <3>2, <1>1, <1>3, Activities DEF Making, Canceling
    <3>3. CASE v # t
      BY <2>3, <3>1, <3>3, <1>3 DEF Inv, Control, Tasks, Making, Canceling
    <3> QED
      BY <3>2, <3>3
  <2> QED
    BY <2>1, <2>2, <2>3 DEF Tasks
<1>6. Grown'
  <2>1. \A c \in Made' : parent'[c] < c
    BY <1>1 DEF Inv, Control, Grown
  <2>2. \A c \in Ctxs \ Derived' : run'[Watcher(c)] = Idle
    BY <1>1, <1>3, Threads DEF Inv, Control, Grown
  <2>3. \A c \in Ctxs : c \in armed' \/ c \notin ready' => run'[Timer(c)] = Idle
    BY <1>3, Threads DEF Inv, Control, Grown
  <2>4. \A q \in Ctxs : \A c \in children'[q] : c \in Derived' /\ Registrar(c)' = q
    BY <1>1, Contexts DEF Inv, Control, Grown, Made
  <2> QED
    BY <1>1, <2>1, <2>2, <2>3, <2>4 DEF Inv, Control, Grown
<1>7. Locks'
  <2>1. run'[t].pc \notin {"loop", "remove", "stop"} /\ (Canceling(t)' => run'[t].at = run'[t].root)
    BY <1>1, <1>3, Activities DEF Canceling
  <2> QED
    BY <1>1, <1>2, <1>3, <2>1, LocksStay DEF Inv
<1>8. Reached'
  <2>1. \A c \in Derived : Registrar(c)' = Registrar(c)
    BY <1>2 DEF Grows
  <2> QED
    BY <1>1, <1>3, <2>1, ReachedStays DEF Inv
<1>9. Kept'
  BY <1>1, <1>3, KeptStays DEF Inv
<1>10. TimersAreStopped'
  BY <1>1, <1>3, TimersStay DEF Inv
<1>11. SameShape
  BY <1>1, <1>2 DEF SameShape, Grows
<1> QED
  BY <1>11, <1>4, <1>5, <1>6, <1>7, <1>8, <1>9, <1>10 DEF Inv, Control

LEMMA ArmLateInv ==
  ASSUME Inv, NEW t \in Callers, ArmLate(t)
  PROVE  Inv' /\ SameShape
<1> DEFINE a == run[t].at
           r == Task("cancel", a, "DeadlineExceeded", TRUE)
<1>1. t \in Goroutines /\ Making(t) /\ a = run[t].root /\ a \in Derived
  BY Threads DEF ArmLate, Making, Inv, Control, Tasks, OnTask
<1>2. StartsOrStops(t, r)
  BY <1>1 DEF ArmLate, StartsOrStops, Errs, tree
<1>3. r.root = a
  BY DEF Task
<1>4. \A s \in Callers \ {t} : Making(s) => run[s].root # a
  BY <1>1 DEF Inv, Control, Tasks
<1>5. /\ armed' = armed /\ ready' = ready /\ called' \subseteq ready /\ now' \in 0..MaxTime
      /\ \A c \in Ctxs : t # Watcher(c) /\ t # Timer(c)
  BY Threads DEF ArmLate, tree, Inv, Control, TypeOK
<1> QED
  BY <1>1, <1>2, <1>3, <1>4, <1>5, StartInv

LEMMA CallCancelInv ==
  ASSUME Inv, NEW t \in Callers, NEW c \in Ctxs, CallCancel(t, c)
  PROVE  Inv' /\ SameShape
<1> DEFINE r == Task("cancel", c, "Canceled", TRUE)
<1>1. t \in Goroutines /\ c \in ready /\ c \in Derived
  BY Threads, Contexts DEF CallCancel, Inv
<1>2. StartsOrStops(t, r)
  BY <1>1, Activities DEF CallCancel, StartsOrStops, Errs, tree
<1>3. r.root = c
  BY DEF Task
<1>4. \A s \in Callers : Making(s) => run[s].root # c
  BY <1>1, Threads DEF Inv, Control, Tasks, OnTask
<1>5. /\ armed' = armed /\ ready' = ready /\ called' \subseteq ready /\ now' \in 0..MaxTime
      /\ \A d \in Ctxs : t # Watcher(d) /\ t # Timer(d)
  BY <1>1, Threads DEF CallCancel, tree, Inv, Control, TypeOK
<1> QED
  BY <1>1, <1>2, <1>3, <1>4, <1>5, StartInv

LEMMA FireInv ==
  ASSUME Inv, NEW c \in Ctxs, Fire(c)
  PROVE  Inv' /\ SameShape
<1> DEFINE r == Task("cancel", c, "DeadlineExceeded", TRUE)
<1>1. c \in armed /\ c \in ready /\ c \in Derived /\ run[Timer(c)] = Idle
  BY Contexts DEF Fire, Inv, Control, Grown
<1>2. StartsOrStops(Timer(c), r)
  BY <1>1, Activities DEF Fire, StartsOrStops, Errs, tree
<1>3. \A d \in Ctxs : Timer(c) = Timer(d) => d \in ready \ armed'
  BY <1>1, Threads DEF Fire
<1> QED
  BY <1>2, <1>3, Threads, StartInv DEF Fire, tree, Inv, Control, TypeOK

LEMMA WatchParentInv ==
  ASSUME Inv, NEW c \in Ctxs, WatchParent(c)
  PROVE  Inv' /\ SameShape
<1> DEFINE r == Task("cancel", c, err[parent[c]], FALSE)
<1>1. Watcher(c) \in Goroutines
  BY Threads
<1>2. c \in Derived \cap foreign
  <2>1. PICK d \in Derived \cap foreign : Watcher(c) = Watcher(d)
    BY <1>1 DEF WatchParent, Inv, Control, Tasks, OnTask
  <2> QED
    BY <2>1, Threads DEF Derived, Made
<1>3. err[parent[c]] \in Errs
  <2>1. parent[c] \in Ctxs
    BY <1>2, Contexts DEF Inv, Control, Grown
  <2> QED
    BY <2>1 DEF WatchParent, Inv, Control, TypeOK
<1>4. StartsOrStops(Watcher(c), r)
  BY <1>2, <1>3 DEF WatchParent, StartsOrStops, tree
<1>5. \A d \in Ctxs : Watcher(c) = Watcher(d) => d \in Derived
  BY <1>2, Threads
<1>6. /\ armed' = armed /\ ready' = ready /\ called' \subseteq ready /\ now' \in 0..MaxTime
      /\ \A d \in Ctxs : Watcher(c) # Timer(d)
      /\ Watcher(c) \notin Callers
  BY Threads DEF WatchParent, tree, Inv, Control, TypeOK
<1> QED
  BY <1>1, <1>4, <1>5, <1>6, StartInv

LEMMA WatchChildInv ==
  ASSUME Inv, NEW c \in Ctxs, WatchChild(c)
  PROVE  Inv' /\ SameShape
<1>1. Watcher(c) \in Goroutines
  BY Threads
<1>2. c \in Derived
  <2>1. PICK d \in Derived \cap foreign : Watcher(c) = Watcher(d)
    BY <1>1 DEF WatchChild, Inv, Control, Tasks, OnTask
  <2> QED
    BY <2>1, Threads DEF Derived, Made
<1>3. StartsOrStops(Watcher(c), Idle)
  BY DEF WatchChild, StartsOrStops, tree
<1>4. \A d \in Ctxs : Watcher(c) = Watcher(d) => d \in Derived
  BY <1>2, Threads
<1> QED
  BY <1>3, <1>4, Threads, StartInv DEF WatchChild, tree, Inv, Control, TypeOK

LEMMA StutterInv ==
  ASSUME Inv, UNCHANGED <<tree, mu, err, children, armed, called, run>>, now' \in 0..MaxTime
  PROVE  Inv' /\ SameShape
<1>1. UNCHANGED <<parent, foreign, timed, ready, deadline, mu, err, children, armed, called, run>>
  BY DEF tree
<1>2. Made' = Made /\ Derived' = Derived
  BY <1>1 DEF Made, Derived
<1>3. \A c \in Ctxs : Registrar(c)' = Registrar(c)
  BY <1>1 DEF Registrar
<1>4. TypeOK'
  BY <1>1, <1>2 DEF TypeOK, Inv, Control
<1>5. Tasks'
  BY <1>1, <1>2 DEF Tasks, OnTask, Making, Canceling, Watcher, Inv, Control
<1>6. Grown'
  <2>1. \A q \in Ctxs : \A c \in children'[q] : c \in Derived' /\ Registrar(c)' = q
    BY <1>1, <1>2, <1>3, Contexts DEF Inv, Control, Grown, Made
  <2> QED
    BY <1>1, <1>2, <2>1 DEF Grown, Inv, Control, Watcher, Timer
<1>7. Locks'
  BY <1>1, <1>3 DEF Locks, Path, Finished, Canceling, Inv
<1>8. Reached'
  BY <1>1, <1>2, <1>3, Contexts DEF Reached, Finished, Inv, Made
<1>9. Kept' /\ TimersAreStopped'
  BY <1>1 DEF Kept, TimersAreStopped, AtWorkOn, Canceling, Inv
<1>10. SameShape
  BY <1>2, <1>3, Contexts DEF SameShape, Inv, Made
<1> QED
  BY <1>10, <1>4, <1>5, <1>6, <1>7, <1>8, <1>9 DEF Inv, Control

LEMMA ArmInv ==
  ASSUME Inv, NEW t \in Callers, Arm(t)
  PROVE  Inv' /\ SameShape
<1> DEFINE a == run[t].at
<1>1. /\ t \in Goroutines /\ Making(t) /\ a = run[t].root /\ a \in Derived \cap timed
      /\ a \in Made \ ready /\ a \in Ctxs /\ run[t].pc = "arm"
  BY Threads, Contexts DEF Arm, Making, Inv, Control, Tasks, OnTask
<1>2. /\ ready' = ready \cup {a} /\ armed' = IF err[a] = NoErr THEN armed \cup {a} ELSE armed
      /\ UNCHANGED <<now, parent, foreign, timed, deadline, mu, err, children, called>>
  BY DEF Arm
<1>3. Begins(t, Idle)
  BY <1>1, TaskBegins, Activities DEF Arm, Inv, Control
<1>4. /\ run' \in [Goroutines -> Activity] /\ run'[t] = Idle
      /\ \A u \in Goroutines \ {t} : run'[u] = run[u]
  BY <1>3 DEF Begins
<1>5. Made' = Made /\ Derived' = Derived /\ \A c \in Ctxs : Registrar(c)' = Registrar(c)
  BY <1>1, <1>2, <1>4, Still, Activities DEF Inv, Control
<1>6. Grows
  BY <1>2, <1>5, Contexts DEF Grows, Made, Inv
<1>7. TypeOK'
  BY <1>1, <1>2, <1>4, <1>5 DEF TypeOK, Inv, Control
<1>8. Tasks'
  <2>1. ASSUME NEW u \in Goroutines \ {t} PROVE OnTask(u)'
    <3>1. Making(u) => run[u].at # a
      BY <1>1 DEF Inv, Control, Tasks, OnTask
    <3> QED
      BY <1>2, <1>4, <1>6, <3>1, OnTaskStays DEF Inv, Control, Tasks, OnTask
  <2>2. OnTask(t)'
    BY <1>4, Activities DEF OnTask, Making, Canceling
  <2>3. ASSUME NEW u \in Callers, NEW v \in Callers,
               Making(u)', (Making(v) \/ Canceling(v))', run'[u].root = run'[v].root
        PROVE  u = v
    BY <2>3, <1>4, Threads, Activities DEF Inv, Control, Tasks, Making, Canceling
  <2> QED
    BY <2>1, <2>2, <2>3 DEF Tasks
<1>9. Grown'
  <2>1. \A c \in Ctxs \ Derived' : run'[Watcher(c)] = Idle
    BY <1>1, <1>4, <1>5, Threads DEF Inv, Control, Grown
  <2>2. \A c \in Ctxs : c \in armed' \/ c \notin ready' => run'[Timer(c)] = Idle
    BY <1>1, <1>2, <1>4, Threads DEF Inv, Control, Grown
  <2>3. \A q \in Ctxs : \A c \in children'[q] : c \in Derived' /\ Registrar(c)' = q
    BY <1>2, <1>5, Contexts DEF Inv, Control, Grown, Made
  <2>4. \A c \in Made' : parent'[c] < c
    BY <1>2, <1>5 DEF Inv, Control, Grown
  <2> QED
    BY <1>2, <1>5, <2>1, <2>2, <2>3, <2>4 DEF Inv, Control, Grown
<1>10. ~Canceling(t) /\ ~Canceling(t)'
  BY <1>1, <1>4, Activities DEF Canceling
<1>11. Locks'
  BY <1>1, <1>2, <1>4, <1>6, <1>10, Activities, LocksStay DEF Inv
<1>12. Reached' /\ Kept'
  <2>1. \A c \in Derived : Registrar(c)' = Registrar(c)
    BY <1>6 DEF Grows
  <2> QED
    BY <1>1, <1>2, <1>4, <1>5, <1>10, <2>1, ReachedStays, KeptStays DEF Inv
<1>13. TimersAreStopped'
  <2> SUFFICES ASSUME NEW c \in armed', err'[c] # NoErr
               PROVE  \E u \in Goroutines : AtWorkOn(u, c)'
    BY DEF TimersAreStopped
  <2>1. c \in armed /\ c \in Ctxs /\ err[c] # NoErr
    BY <1>2, Contexts DEF Inv, Control, TypeOK, Made
  <2>2. PICK u \in Goroutines : AtWorkOn(u, c)
    BY <2>1 DEF Inv, TimersAreStopped
  <2>3. u # t
    BY <2>1, <2>2, <1>10 DEF Inv, Locks, Path, AtWorkOn, Canceling
  <2> QED
    BY <1>2, <1>4, <2>2, <2>3 DEF AtWorkOn
<1>14. SameShape
  BY <1>5, <1>6 DEF SameShape, Grows
<1> QED
  BY <1>14, <1>7, <1>8, <1>9, <1>11, <1>12, <1>13 DEF Inv, Control

LEMMA CancelFirstInv ==
  ASSUME Inv, NEW t \in Goroutines, CancelFirst(t)
  PROVE  Inv' /\ SameShape
<1> DEFINE a == run[t].at
<1>1. /\ Canceling(t) /\ run[t].pc = "cancel" /\ mu[a] = Free /\ err[a] = NoErr
      /\ err' = [err EXCEPT ![a] = run[t].why] /\ mu' = [mu EXCEPT ![a] = t]
      /\ UNCHANGED <<now, parent, foreign, timed, ready, deadline, children, armed, called>>
  BY DEF CancelFirst, Canceling, tree
<1>2. /\ a \in Ctxs /\ a \in Derived /\ run[t].root \in Derived /\ run[t].why \in Errs
      /\ run[t].up \/ run[t].root \in foreign
      /\ a # run[t].root =>
           /\ Registrar(a) # Background /\ mu[Registrar(a)] = t
           /\ Registrar(a) \in Derived /\ Registrar(a) \in Ctxs
      /\ Registrar(a) < a
  BY <1>1, BackUp DEF Inv, Control, Tasks, OnTask
<1>3. Moves(t, "loop", a)
  BY <1>2, GotoMoves DEF CancelFirst, Places, Inv, Control
<1>4. /\ run' \in [Goroutines -> Activity]
      /\ run'[t].pc = "loop" /\ run'[t].at = a /\ run'[t].root = run[t].root
      /\ run'[t].why = run[t].why /\ run'[t].up = run[t].up
      /\ \A u \in Goroutines \ {t} : run'[u] = run[u]
  BY <1>3 DEF Moves
<1>5. /\ err'[a] = run[t].why /\ err'[a] # NoErr /\ \A c \in Ctxs \ {a} : err'[c] = err[c]
      /\ mu'[a] = t /\ \A c \in Ctxs \ {a} : mu'[c] = mu[c]
  BY <1>1, <1>2 DEF Inv, Control, TypeOK, Errs, NoErr
<1>6. Made' = Made /\ Derived' = Derived /\ \A c \in Ctxs : Registrar(c)' = Registrar(c)
  BY <1>1, <1>4, Still DEF Inv, Control
<1>7. Grows
  BY <1>1, <1>5, <1>6, Contexts DEF Grows, Made, Inv
<1>8. TypeOK'
  BY <1>1, <1>2, <1>4, <1>6 DEF TypeOK, Inv, Control
<1>9. Tasks'
  <2>1. ASSUME NEW u \in Goroutines \ {t} PROVE OnTask(u)'
    BY <1>1, <1>4, <1>7, OnTaskStays DEF Inv, Control, Tasks, OnTask
  <2>2. OnTask(t)'
    BY <1>1, <1>2, <1>4, <1>6 DEF OnTask, Making, Canceling
  <2>3. ASSUME NEW u \in Callers, NEW v \in Callers,
               Making(u)', (Making(v) \/ Canceling(v))', run'[u].root = run'[v].root
        PROVE  u = v
    BY <2>3, <1>1, <1>4, Threads DEF Inv, Control, Tasks, Making, Canceling
  <2> QED
    BY <2>1, <2>2, <2>3 DEF Tasks
<1>10. Grown'
  <2>1. \A c \in Ctxs \ Derived' : run'[Watcher(c)] = Idle
    BY <1>1, <1>4, <1>6, Threads, Activities DEF Inv, Control, Grown
  <2>2. \A c \in Ctxs : c \in armed' \/ c \notin ready' => run'[Timer(c)] = Idle
    BY <1>1, <1>4, Threads, Activities DEF Inv, Control, Grown
  <2>3. \A q \in Ctxs : \A c \in children'[q] : c \in Derived' /\ Registrar(c)' = q
    BY <1>1, <1>6, Contexts DEF Inv, Control, Grown, Made
  <2>4. \A c \in Made' : parent'[c] < c
    BY <1>1, <1>6 DEF Inv, Control, Grown
  <2>5. \A c \in Ctxs \ Derived' : mu'[c] = Free /\ err'[c] = NoErr /\ children'[c] = {}
    BY <1>1, <1>2, <1>5, <1>6 DEF Inv, Control, Grown
  <2> QED
    BY <1>1, <1>6, <2>1, <2>2, <2>3, <2>4, <2>5 DEF Inv, Control, Grown
<1>11. Locks'
  <2>1. \A c \in Ctxs : mu'[c] # Free => err'[c] # NoErr
    BY <1>5 DEF Inv, Locks
  <2>2. \A c \in Ctxs : mu[c] # Free => c \in Derived
    BY DEF Inv, Control, Grown
  <2>3. ASSUME NEW u \in Goroutines \ {t} PROVE Path(u)'
    <3>1. \A c \in Ctxs : mu'[c] = u <=> mu[c] = u
      BY <1>1, <1>5, Threads
    <3>2. \A c \in Ctxs : Finished(c) => mu'[c] = Free
      BY <1>1, <1>5 DEF Finished
    <3> QED
      BY <1>4, <1>7, <2>2, <3>1, <3>2, PathStays DEF Inv, Locks
  <2>4. \A c \in Ctxs : c \in Nat /\ Registrar(a) \in Nat
    BY <1>2, Numbers, Contexts DEF Inv
  <2>5. run[t].root \in Nat /\ run[t].root <= a
    <3>1. CASE a = run[t].root
      BY <2>4, <1>2, <3>1
    <3>2. CASE a # run[t].root
      <4>1. run[t].root <= Registrar(a)
        BY <1>2, <3>2 DEF Inv, Locks, Path
      <4> QED
        BY <4>1, <1>2, <2>4, Contexts DEF Inv, Made
    <3> QED
      BY <3>1, <3>2
  <2>6. \A c \in Ctxs : mu'[c] = t <=> mu[c] = t \/ c = a
    BY <1>5
  <2>7. \A c \in Ctxs : mu'[c] = t =>
          /\ run[t].root <= c /\ c <= a
          /\ \A d \in Ctxs : (mu'[d] = t \/ d = a) /\ c < d => c <= Registrar(d)
    <3>1. \A c \in Ctxs : mu[c] = t =>
            /\ run[t].root <= c /\ c <= a
            /\ \A d \in Ctxs : (mu[d] = t \/ d = a) /\ c < d => c <= Registrar(d)
      BY DEF Inv, Locks, Path
    <3>2. \A d \in Ctxs : (mu[d] = t \/ d = a) /\ a < d => FALSE
      BY <1>2, <2>4, <3>1
    <3> QED
      BY <2>4, <2>5, <2>6, <3>1, <3>2
  <2>8. \A c \in Ctxs : mu'[c] = t =>
          c = run[t].root \/ (Registrar(c) # Background /\ mu'[Registrar(c)] = t)
    <3> SUFFICES ASSUME NEW c \in Ctxs, mu'[c] = t, c # run[t].root
                 PROVE  Registrar(c) # Background /\ mu'[Registrar(c)] = t
      OBVIOUS
    <3>1. Registrar(c) # Background /\ mu[Registrar(c)] = t
      BY <1>2, <2>6 DEF Inv, Locks, Path
    <3>2. Registrar(c) \in Ctxs
      BY <3>1, Contexts DEF Inv
    <3> QED
      BY <3>1, <3>2, <2>6
  <2>9. Canceling(t)'
    BY <1>4 DEF Canceling
  <2>10. Path(t)'
    BY <1>2, <1>4, <1>5, <1>6, <2>6, <2>7, <2>8, <2>9 DEF Path
  <2> QED
    BY <2>1, <2>3, <2>10 DEF Locks
<1>12. Reached'
  <2>1. \A c \in Ctxs : Finished(c)' <=> Finished(c)
    BY <1>1, <1>5, Threads DEF Finished
  <2>2. ASSUME NEW c \in Derived', Registrar(c)' # Background
        PROVE  \/ Finished(c)'
               \/ c \in children'[Registrar(c)']
               \/ /\ mu'[Registrar(c)'] # Free
                  /\ \/ mu'[c] = mu'[Registrar(c)']
                     \/ /\ run'[mu'[Registrar(c)']].at = c
                        /\ run'[mu'[Registrar(c)']].pc = "cancel"
    <3> DEFINE p == Registrar(c)
    <3>1. c \in Derived /\ c \in Ctxs /\ p \in Ctxs /\ Registrar(c)' = p /\ p # Background
      BY <2>2, <1>6, Contexts DEF Made, Inv
    <3>2. CASE Finished(c) \/ c \in children[p]
      BY <2>1, <3>1, <3>2, <1>1
    <3>3. CASE /\ mu[p] # Free
               /\ mu[c] = mu[p] \/ (run[mu[p]].at = c /\ run[mu[p]].pc = "cancel")
      <4>1. p # a /\ mu'[p] = mu[p] /\ mu[p] \in Goroutines
        BY <1>1, <1>5, <3>1, <3>3 DEF Inv, Control, TypeOK
      <4>2. CASE mu[c] = mu[p]
        BY <4>1, <4>2, <1>1, <1>5, <3>1, <3>3
      <4>3. CASE mu[p] # t /\ run[mu[p]].at = c /\ run[mu[p]].pc = "cancel"
        BY <4>1, <4>3, <1>4, <3>1, <3>3
      <4>4. CASE mu[p] = t /\ run[mu[p]].at = c
        BY <4>1, <4>4, <1>5, <3>1, <3>3
      <4> QED
        BY <3>3, <4>2, <4>3, <4>4
    <3> QED
      BY <3>1, <3>2, <3>3 DEF Inv, Reached
  <2> QED
    BY <1>1, <2>1, <2>2 DEF Inv, Reached
<1>13. Kept'
  <2> SUFFICES ASSUME NEW p \in Ctxs, NEW c \in children[p], err'[p] = NoErr, err'[c] # NoErr
               PROVE  \E u \in Goroutines :
                        /\ Canceling(u)' /\ run'[u].root = c /\ run'[u].up
                        /\ ~(run'[u].at = c /\ run'[u].pc \in {"cancel", "stop"})
    BY <1>1 DEF Kept
  <2>1. c \in Derived /\ Registrar(c) = p /\ c \in Ctxs /\ p # a /\ err[p] = NoErr
    BY <1>5, Contexts DEF Inv, Control, Grown, Made
  <2>2. CASE c = a
    <3>1. a = run[t].root
      BY <1>2, <2>1, <2>2, Threads DEF Inv, Locks
    <3>2. c \notin foreign
      BY <2>1, Numbers DEF Registrar
    <3> QED
      BY <1>2, <1>4, <2>2, <3>1, <3>2 DEF Canceling
  <2>3. CASE c # a
    <3>1. PICK u \in Goroutines :
            /\ Canceling(u) /\ run[u].root = c /\ run[u].up
            /\ ~(run[u].at = c /\ run[u].pc \in {"cancel", "stop"})
      BY <1>5, <2>1, <2>3 DEF Inv, Kept
    <3> QED
      BY <1>4, <3>1 DEF Canceling
  <2> QED
    BY <2>2, <2>3
<1>14. TimersAreStopped'
  <2> SUFFICES ASSUME NEW c \in armed', err'[c] # NoErr
               PROVE  \E u \in Goroutines : AtWorkOn(u, c)'
    BY DEF TimersAreStopped
  <2>1. c \in armed /\ c \in Ctxs
    BY <1>1, Contexts DEF Inv, Control, TypeOK, Made
  <2>2. CASE c = a
    BY <1>5, <2>2 DEF AtWorkOn
  <2>3. CASE c # a
    <3>1. PICK u \in Goroutines : AtWorkOn(u, c)
      BY <1>5, <2>1, <2>3 DEF Inv, TimersAreStopped
    <3> QED
      BY <1>4, <1>5, <2>1, <2>3, <3>1 DEF AtWorkOn
  <2> QED
    BY <2>2, <2>3
<1>15. SameShape
  BY <1>6, <1>7 DEF SameShape, Grows
<1> QED
  BY <1>15, <1>8, <1>9, <1>10, <1>11, <1>12, <1>13, <1>14 DEF Inv, Control

LEMMA CancelChildInv ==
  ASSUME Inv, NEW t \in Goroutines, CancelChild(t)
  PROVE  Inv' /\ SameShape
<1> DEFINE a == run[t].at
<1>1. PICK k \in children[a] :
        /\ children' = [children EXCEPT ![a] = @ \ {k}] /\ Goto(t, "cancel", k)
        /\ Canceling(t) /\ run[t].pc = "loop"
        /\ UNCHANGED <<now, parent, foreign, timed, ready, deadline, mu, err, armed, called>>
  BY DEF CancelChild, Canceling, tree
<1>2. /\ a \in Ctxs /\ a \in Derived /\ mu[a] = t /\ err[a] # NoErr
      /\ run[t].root <= a
  BY <1>1, BackUp, Threads DEF Inv, Locks, Path
<1>3. k \in Derived /\ k \in Ctxs /\ Registrar(k) = a /\ a < k
  BY <1>2, Contexts DEF Inv, Control, Grown, Made
<1>4. run[t].root \in Nat /\ run[t].root \in Derived /\ run[t].root < k
      /\ a \in Nat /\ k \in Nat
  BY <1>1, <1>2, <1>3, Numbers, BackUp, Contexts DEF Inv, Made
<1>5. Moves(t, "cancel", k)
  BY <1>1, <1>3, GotoMoves DEF Places, Inv, Control
<1>6. /\ run' \in [Goroutines -> Activity]
      /\ run'[t].pc = "cancel" /\ run'[t].at = k /\ run'[t].root = run[t].root
      /\ run'[t].why = run[t].why /\ run'[t].up = run[t].up
      /\ \A u \in Goroutines \ {t} : run'[u] = run[u]
  BY <1>5 DEF Moves
<1>7. /\ children' \in [Ctxs -> SUBSET Ctxs] /\ children'[a] = children[a] \ {k}
      /\ \A c \in Ctxs \ {a} : children'[c] = children[c]
  BY <1>1, <1>2 DEF Inv, Control, TypeOK
<1>8. Made' = Made /\ Derived' = Derived /\ \A c \in Ctxs : Registrar(c)' = Registrar(c)
  BY <1>1, <1>6, Still DEF Inv, Control
<1>9. Grows
  BY <1>1, <1>8, Contexts DEF Grows, Made, Inv
<1>10. TypeOK'
  BY <1>1, <1>6, <1>7, <1>8 DEF TypeOK, Inv, Control
<1>11. Tasks'
  <2>1. ASSUME NEW u \in Goroutines \ {t} PROVE OnTask(u)'
    BY <1>1, <1>6, <1>9, OnTaskStays DEF Inv, Control, Tasks, OnTask
  <2>2. OnTask(t)'
    BY <1>1, <1>3, <1>6, <1>8 DEF OnTask, Making, Canceling, Inv, Control, Tasks
  <2>3. ASSUME NEW u \in Callers, NEW v \in Callers,
               Making(u)', (Making(v) \/ Canceling(v))', run'[u].root = run'[v].root
        PROVE  u = v
    BY <2>3, <1>1, <1>6, Threads DEF Inv, Control, Tasks, Making, Canceling
  <2> QED
    BY <2>1, <2>2, <2>3 DEF Tasks
<1>12. Grown'
  <2>1. \A c \in Ctxs \ Derived' : run'[Watcher(c)] = Idle
    BY <1>1, <1>6, <1>8, Threads, Activities DEF Inv, Control, Grown
  <2>2. \A c \in Ctxs : c \in armed' \/ c \notin ready' => run'[Timer(c)] = Idle
    BY <1>1, <1>6, Threads, Activities DEF Inv, Control, Grown
  <2>3. \A q \in Ctxs : \A c \in children'[q] : c \in Derived' /\ Registrar(c)' = q
    BY <1>7, <1>8, Contexts DEF Inv, Control, Grown, Made
  <2>4. \A c \in Made' : parent'[c] < c
    BY <1>1, <1>8 DEF Inv, Control, Grown
  <2>5. \A c \in Ctxs \ Derived' : mu'[c] = Free /\ err'[c] = NoErr /\ children'[c] = {}
    BY <1>1, <1>2, <1>7, <1>8 DEF Inv, Control, Grown
  <2> QED
    BY <1>1, <1>8, <2>1, <2>2, <2>3, <2>4, <2>5 DEF Inv, Control, Grown
<1>13. Locks'
  <2>1. \A c \in Ctxs : mu'[c] # Free => err'[c] # NoErr
    BY <1>1 DEF Inv, Locks
  <2>2. \A c \in Ctxs : mu[c] # Free => c \in Derived
    BY DEF Inv, Control, Grown
  <2>3. ASSUME NEW u \in Goroutines \ {t} PROVE Path(u)'
    BY <1>1, <1>6, <1>9, <2>2, PathStays DEF Inv, Locks, Finished
  <2>4. \A c \in Ctxs : mu[c] = t => run[t].root <= c /\ c <= a /\ c < k
    <3>1. \A c \in Ctxs : mu[c] = t => run[t].root <= c /\ c <= a
      BY DEF Inv, Locks, Path
    <3> QED
      BY <1>3, <1>4, <3>1, Numbers
  <2>5. \A c \in Ctxs : mu[c] = t =>
          \A d \in Ctxs : (mu[d] = t \/ d = k) /\ c < d => c <= Registrar(d)
    BY <1>3, <2>4 DEF Inv, Locks, Path
  <2>6. \A c \in Ctxs : mu[c] = t \/ c = k =>
          c = run[t].root \/ (Registrar(c) # Background /\ mu[Registrar(c)] = t)
    BY <1>2, <1>3, Numbers DEF Inv, Locks, Path
  <2>7. Canceling(t)' /\ \A c \in Ctxs : mu[c] = t => c # k /\ c <= k
    BY <1>4, <1>6, <2>4, Numbers DEF Canceling
  <2>8. Path(t)'
    BY <1>1, <1>6, <1>8, <2>4, <2>5, <2>6, <2>7 DEF Path
  <2> QED
    BY <2>1, <2>3, <2>8 DEF Locks
<1>14. Reached'
  <2>1. \A c \in Ctxs : Finished(c)' <=> Finished(c)
    BY <1>1 DEF Finished
  <2>2. ASSUME NEW c \in Derived', Registrar(c)' # Background
        PROVE  \/ Finished(c)'
               \/ c \in children'[Registrar(c)']
               \/ /\ mu'[Registrar(c)'] # Free
                  /\ \/ mu'[c] = mu'[Registrar(c)']
                     \/ /\ run'[mu'[Registrar(c)']].at = c
                        /\ run'[mu'[Registrar(c)']].pc = "cancel"
    <3> DEFINE p == Registrar(c)
    <3>1. c \in Derived /\ c \in Ctxs /\ p \in Ctxs /\ Registrar(c)' = p /\ p # Background
      BY <2>2, <1>8, Contexts DEF Made, Inv
    <3>2. CASE Finished(c) \/ (c \in children[p] /\ c # k)
      BY <2>1, <3>1, <3>2, <1>7
    <3>3. CASE c = k
      BY <1>1, <1>2, <1>3, <1>6, <3>1, <3>3, Threads
    <3>4. CASE mu[p] # Free /\ mu[c] = mu[p]
      BY <1>1, <3>1, <3>4
    <3>5. CASE mu[p] # Free /\ run[mu[p]].at = c /\ run[mu[p]].pc = "cancel"
      <4>1. mu[p] # t /\ mu[p] \in Goroutines
        BY <1>1, <3>1, <3>5 DEF Inv, Control, TypeOK
      <4> QED
        BY <4>1, <1>1, <1>6, <3>1, <3>5
    <3> QED
      BY <3>1, <3>2, <3>3, <3>4, <3>5 DEF Inv, Reached
  <2>3. \A c \in Ctxs : Finished(c)' => children'[c] = {}
    BY <1>7, <2>1 DEF Inv, Reached
  <2> QED
    BY <2>2, <2>3 DEF Reached
<1>15. Kept'
  <2> SUFFICES ASSUME NEW p \in Ctxs, NEW c \in children'[p], err'[p] = NoErr, err'[c] # NoErr
               PROVE  \E u \in Goroutines :
                        /\ Canceling(u)' /\ run'[u].root = c /\ run'[u].up
                        /\ ~(run'[u].at = c /\ run'[u].pc \in {"cancel", "stop"})
    BY DEF Kept
  <2>1. c \in children[p] /\ err[p] = NoErr /\ err[c] # NoErr
    BY <1>1, <1>7
  <2>2. PICK u \in Goroutines :
          /\ Canceling(u) /\ run[u].root = c /\ run[u].up
          /\ ~(run[u].at = c /\ run[u].pc \in {"cancel", "stop"})
    BY <2>1 DEF Inv, Kept
  <2>3. CASE u = t
    BY <1>4, <1>6, <2>2, <2>3 DEF Canceling
  <2>4. CASE u # t
    BY <1>6, <2>2, <2>4 DEF Canceling
  <2> QED
    BY <2>3, <2>4
<1>16. TimersAreStopped'
  <2> SUFFICES ASSUME NEW c \in armed', err'[c] # NoErr
               PROVE  \E u \in Goroutines : AtWorkOn(u, c)'
    BY DEF TimersAreStopped
  <2>1. PICK u \in Goroutines : AtWorkOn(u, c)
    BY <1>1 DEF Inv, TimersAreStopped
  <2>2. u = t => mu[c] = t
    BY <1>1, <2>1 DEF AtWorkOn
  <2> QED
    BY <1>1, <1>6, <2>1, <2>2 DEF AtWorkOn
<1>17. SameShape
  BY <1>8, <1>9 DEF SameShape, Grows
<1> QED
  BY <1>17, <1>10, <1>11, <1>12, <1>13, <1>14, <1>15, <1>16 DEF Inv, Control

\* A new context is registered with its parent, or it is found canceled.
Joins(t, c) ==
  /\ t \in Callers /\ run[t].pc = "register" /\ c = run[t].at
  /\ run' \in [Goroutines -> Activity]
  /\ \A u \in Goroutines \ {t, Watcher(c)} : run'[u] = run[u]
  /\ \/ c \in timed /\ run'[t] = Task("arm", c, NoErr, FALSE) /\ ready' = ready
     \/ c \notin timed /\ run'[t] = Idle /\ ready' = ready \cup {c}
  /\ \/ run'[Watcher(c)] = run[Watcher(c)]
     \/ c \in foreign /\ run'[Watcher(c)] = Task("watch", c, NoErr, FALSE)
  /\ UNCHANGED <<now, parent, foreign, timed, deadline, mu, armed, called>>
  /\ LET p == Registrar(c) IN
     \/ p = Background /\ UNCHANGED <<err, children>>
     \/ /\ p # Background /\ mu[p] = Free /\ err[p] = NoErr
        /\ children' = [children EXCEPT ![p] = @ \cup {c}] /\ UNCHANGED err
     \/ /\ p # Background /\ mu[p] = Free /\ err[p] # NoErr
        /\ err' = [err EXCEPT ![c] = err[p]] /\ UNCHANGED children

LEMMA RegisterJoins ==
  ASSUME Inv, NEW t \in Callers, RegisterNowhere(t) \/ Register(t) \/ RegisterForeign(t)
  PROVE  Joins(t, run[t].at)
<1> DEFINE c == run[t].at
           r == IF c \in timed THEN Task("arm", c, NoErr, FALSE) ELSE Idle
<1>1. /\ t \in Goroutines /\ run[t].pc = "register" /\ c \in Made \ ready /\ c \in Ctxs
      /\ Returned(t)
  BY Threads DEF RegisterNowhere, Register, RegisterForeign, Inv, Control, Tasks, OnTask,
                 Making, Made
<1>2. r \in Activity /\ run \in [Goroutines -> Activity] /\ Watcher(c) \in Goroutines \ {t}
  <2>1. Task("arm", c, NoErr, FALSE) \in Activity /\ Idle \in Activity
    BY <1>1, Activities
  <2>2. r \in Activity
    BY <2>1
  <2>3. run \in [Goroutines -> Activity] /\ Watcher(c) \in Goroutines \ {t}
    BY <1>1, Threads DEF Inv, Control, TypeOK
  <2> QED
    BY <2>2, <2>3
<1>3. /\ c \in timed => r = Task("arm", c, NoErr, FALSE) /\ ready' = ready
      /\ c \notin timed => r = Idle /\ ready' = ready \cup {c}
  BY <1>1 DEF Returned
<1>4. CASE RegisterNowhere(t) \/ Register(t)
  <2>1. run' = [run EXCEPT ![t] = r]
    BY <1>4 DEF RegisterNowhere, Register, Registered
  <2>2. /\ run' \in [Goroutines -> Activity] /\ run'[t] = r
        /\ \A u \in Goroutines \ {t} : run'[u] = run[u]
    BY <1>1, <1>2, <2>1
  <2>3. CASE RegisterNowhere(t)
    <3>1. Registrar(c) = Background
      BY <2>3 DEF RegisterNowhere, Registrar
    <3> QED
      BY <1>1, <1>2, <1>3, <2>2, <2>3, <3>1 DEF RegisterNowhere, Joins
  <2>4. CASE Register(t)
    <3>1. CASE err[Registrar(c)] = NoErr
      BY <1>1, <1>2, <1>3, <2>2, <2>4, <3>1 DEF Register, Joins
    <3>2. CASE err[Registrar(c)] # NoErr
      BY <1>1, <1>2, <1>3, <2>2, <2>4, <3>2 DEF Register, Joins
    <3> QED
      BY <3>1, <3>2
  <2> QED
    BY <1>4, <2>3, <2>4
<1>5. CASE RegisterForeign(t)
  <2> DEFINE w == Task("watch", c, NoErr, FALSE)
  <2>1. run' = [[run EXCEPT ![t] = r] EXCEPT ![Watcher(c)] = w]
    BY <1>5 DEF RegisterForeign, Registered
  <2>2. w \in Activity
    BY <1>1, Activities
  <2>3. [run EXCEPT ![t] = r] \in [Goroutines -> Activity]
    BY <1>1, <1>2
  <2>4. /\ run' \in [Goroutines -> Activity] /\ run'[t] = r /\ run'[Watcher(c)] = w
        /\ \A u \in Goroutines \ {t, Watcher(c)} : run'[u] = run[u]
    BY <1>1, <1>2, <2>1, <2>2, <2>3
  <2>5. c \in foreign /\ Registrar(c) = Background
    BY <1>5 DEF RegisterForeign, Registrar
  <2> QED
    BY <1>1, <1>3, <1>5, <2>4, <2>5 DEF RegisterForeign, Joins
<1> QED
  BY <1>4, <1>5

LEMMA JoinsFacts ==
  ASSUME Inv, NEW t, NEW c, Joins(t, c)
  PROVE  /\ t \in Goroutines /\ c \in Ctxs /\ c \in Made \ ready /\ c \notin Derived /\ c \notin armed
         /\ ~Canceling(t) /\ Making(t) /\ run[t].root = c
         /\ mu[c] = Free /\ err[c] = NoErr /\ children[c] = {}
         /\ Watcher(c) \in Goroutines \ Callers /\ run[Watcher(c)] = Idle
         /\ Made' = Made /\ Derived' = Derived \cup {c}
         /\ \A d \in Ctxs : Registrar(d)' = Registrar(d)
         /\ Registrar(c) \in ready \cup {Background}
         /\ err' \in [Ctxs -> Errs \cup {NoErr}] /\ children' \in [Ctxs -> SUBSET Ctxs]
         /\ \A d \in Ctxs \ {c} : err'[d] = err[d]
         /\ Grows
         /\ \A u \in Goroutines : Canceling(u) => run'[u] = run[u]
<1>1. /\ t \in Goroutines /\ Making(t) /\ c \in Made \ ready /\ run[t].root = c /\ c \in Ctxs
      /\ ~Canceling(t) /\ t \in Callers /\ run[t].pc = "register" /\ c = run[t].at
  BY Threads, Contexts DEF Joins, Inv, Control, Tasks, OnTask, Making, Canceling
<1>2. c \notin Derived
  BY <1>1 DEF Derived
<1>3. /\ mu[c] = Free /\ err[c] = NoErr /\ children[c] = {} /\ run[Watcher(c)] = Idle
      /\ Watcher(c) \in Goroutines \ Callers /\ c \notin armed
  BY <1>1, <1>2, Threads DEF Inv, Control, Grown
<1>4. Made' = Made /\ \A d \in Ctxs : Registrar(d)' = Registrar(d)
  BY DEF Joins, Made, Registrar
<1>5. \A u \in Callers \ {t} : run'[u] = run[u] /\ (Making(u) => run[u].at # c)
  BY <1>1, <1>3, Threads DEF Joins, Inv, Control, Tasks, OnTask
<1>6. run'[t].pc # "register"
  <2>1. Task("arm", c, NoErr, FALSE).pc = "arm" /\ Idle.pc = "idle"
    BY DEF Task, Idle
  <2> QED
    BY <2>1 DEF Joins
<1>7. ASSUME NEW d \in Made PROVE d \in Derived' <=> d \in Derived \/ d = c
  <2>1. CASE d = c
    BY <1>1, <1>4, <1>5, <1>6, <2>1 DEF Derived, Making
  <2>2. CASE d # c
    <3>1. \A u \in Callers : (run'[u].pc = "register" => run'[u].at # d)
                         <=> (run[u].pc = "register" => run[u].at # d)
      BY <1>1, <1>5, <1>6, <2>2
    <3> QED
      BY <1>4, <2>2, <3>1 DEF Derived
  <2> QED
    BY <2>1, <2>2
<1>8. Derived' = Derived \cup {c}
  BY <1>1, <1>4, <1>7 DEF Derived
<1>9. Registrar(c) \in ready \cup {Background}
  BY <1>1, Contexts DEF Inv
<1>10. Registrar(c) # Background => Registrar(c) \in Ctxs
  BY <1>9, Contexts DEF Inv, Made
<1>11. /\ err' \in [Ctxs -> Errs \cup {NoErr}] /\ children' \in [Ctxs -> SUBSET Ctxs]
       /\ \A d \in Ctxs \ {c} : err'[d] = err[d]
  BY <1>1, <1>10 DEF Joins, Inv, Control, TypeOK
<1>12. Grows
  BY <1>1, <1>3, <1>4, <1>8, <1>11, Contexts DEF Grows, Joins, Made, Inv
<1>13. \A u \in Goroutines : Canceling(u) => run'[u] = run[u]
  BY <1>1, <1>3, Activities DEF Joins, Canceling
<1> QED
  BY <1>1, <1>2, <1>3, <1>4, <1>8, <1>9, <1>11, <1>12, <1>13

LEMMA JoinsInv ==
  ASSUME Inv, NEW t, NEW c, Joins(t, c)
  PROVE  Inv'
<1>1. /\ t \in Goroutines /\ c \in Ctxs /\ c \in Made \ ready /\ c \notin Derived /\ c \notin armed
      /\ ~Canceling(t) /\ Making(t) /\ run[t].root = c
      /\ mu[c] = Free /\ err[c] = NoErr /\ children[c] = {}
      /\ Watcher(c) \in Goroutines \ Callers /\ run[Watcher(c)] = Idle
      /\ Made' = Made /\ Derived' = Derived \cup {c}
      /\ \A d \in Ctxs : Registrar(d)' = Registrar(d)
      /\ Registrar(c) \in ready \cup {Background}
      /\ err' \in [Ctxs -> Errs \cup {NoErr}] /\ children' \in [Ctxs -> SUBSET Ctxs]
      /\ \A d \in Ctxs \ {c} : err'[d] = err[d]
      /\ Grows
      /\ \A u \in Goroutines : Canceling(u) => run'[u] = run[u]
  BY JoinsFacts
<1>2. /\ t \in Callers /\ run' \in [Goroutines -> Activity]
      /\ \A u \in Goroutines \ {t, Watcher(c)} : run'[u] = run[u]
      /\ UNCHANGED <<now, parent, foreign, timed, deadline, mu, armed, called>>
      /\ ready' \subseteq ready \cup {c} /\ ready \subseteq ready'
  BY DEF Joins
<1>3. \A u \in Goroutines \ {t} : Making(u) => run[u].at # c
  BY <1>1, <1>2 DEF Inv, Control, Tasks, OnTask
<1>4. \/ run'[Watcher(c)] = Idle
      \/ /\ c \in foreign /\ run'[Watcher(c)].pc = "watch"
         /\ run'[Watcher(c)].at = c /\ run'[Watcher(c)].root = c
  BY <1>1 DEF Joins, Task
<1>5. \/ /\ run'[t].pc = "arm" /\ run'[t].at = c /\ run'[t].root = c /\ c \in timed
         /\ ready' = ready
      \/ run'[t] = Idle
  BY <1>1 DEF Joins, Task
<1>6. ~Canceling(t)' /\ ~Canceling(Watcher(c)) /\ run'[Watcher(c)].pc \in {"idle", "watch"}
      /\ run'[t].pc \in {"idle", "arm"}
  BY <1>1, <1>4, <1>5, Activities DEF Canceling
<1>7. TypeOK'
  BY <1>1, <1>2 DEF TypeOK, Inv, Control
<1>8. Tasks'
  <2>1. ASSUME NEW u \in Goroutines \ {t, Watcher(c)} PROVE OnTask(u)'
    BY <1>1, <1>2, <1>3, OnTaskStays DEF Inv, Control, Tasks, OnTask
  <2>2. OnTask(t)'
    BY <1>1, <1>2, <1>5, <1>6, Activities DEF OnTask, Making, Canceling
  <2>3. OnTask(Watcher(c))'
    <3>1. CASE run'[Watcher(c)] = Idle
      BY <3>1, Activities DEF OnTask, Making, Canceling
    <3>2. CASE /\ c \in foreign /\ run'[Watcher(c)].pc = "watch"
               /\ run'[Watcher(c)].at = c /\ run'[Watcher(c)].root = c
      BY <3>2, <1>1, <1>2 DEF OnTask, Making, Canceling, Watcher
    <3> QED
      BY <1>4, <3>1, <3>2
  <2>4. ASSUME NEW u \in Callers, NEW v \in Callers,
               Making(u)', (Making(v) \/ Canceling(v))', run'[u].root = run'[v].root
        PROVE  u = v
    <3>1. \A x \in Callers : x \in Goroutines /\ x # Watcher(c)
      BY <1>1, Threads
    <3>2. \A x \in Callers : (Making(x)' => Making(x)) /\ (Canceling(x)' => Canceling(x))
      BY <1>1, <1>2, <1>6, <3>1 DEF Making, Canceling
    <3>3. \A x \in Callers : (Making(x) \/ Canceling(x))' => run'[x].root = run[x].root
      BY <1>1, <1>2, <1>5, <3>1, Activities DEF Making, Canceling
    <3> QED
      BY <2>4, <3>2, <3>3 DEF Inv, Control, Tasks
  <2> QED
    BY <2>1, <2>2, <2>3, <2>4 DEF Tasks
<1>9. Grown'
  <2>1. \A d \in Ctxs \ Derived' : run'[Watcher(d)] = Idle
    BY <1>1, <1>2, Threads DEF Inv, Control, Grown
  <2>2. \A d \in Ctxs : d \in armed' \/ d \notin ready' => run'[Timer(d)] = Idle
    BY <1>1, <1>2, Threads DEF Inv, Control, Grown
  <2>3. \A q \in Ctxs : \A d \in children'[q] : d \in Derived' /\ Registrar(d)' = q
    <3> SUFFICES ASSUME NEW q \in Ctxs, NEW d \in children'[q]
                 PROVE  d \in Derived' /\ Registrar(d)' = q
      OBVIOUS
    <3>1. d \in children[q] \/ (d = c /\ q = Registrar(c))
      BY <1>1 DEF Joins, Inv, Control, TypeOK
    <3> QED
      BY <1>1, <3>1, Contexts DEF Inv, Control, Grown, Made
  <2>4. \A d \in Made' : parent'[d] < d
    BY <1>1, <1>2 DEF Inv, Control, Grown
  <2>5. ASSUME NEW d \in Ctxs \ Derived'
        PROVE  mu'[d] = Free /\ err'[d] = NoErr /\ children'[d] = {}
    <3>1. d # c /\ d \notin Derived /\ d # Registrar(c)
      BY <1>1, Contexts, Numbers DEF Inv
    <3>2. children'[d] = children[d]
      BY <3>1 DEF Joins, Inv, Control, TypeOK
    <3> QED
      BY <1>1, <1>2, <3>1, <3>2 DEF Inv, Control, Grown
  <2> QED
    BY <1>1, <1>2, <2>1, <2>2, <2>3, <2>4, <2>5 DEF Inv, Control, Grown
<1>10. Locks'
  <2>1. \A d \in Ctxs : mu'[d] # Free => err'[d] # NoErr
    BY <1>1, <1>2 DEF Inv, Locks
  <2>2. \A d \in Ctxs : mu[d] # Free => d \in Derived
    BY DEF Inv, Control, Grown
  <2>3. ASSUME NEW u \in Goroutines \ {t, Watcher(c)} PROVE Path(u)'
    BY <1>1, <1>2, <2>2, PathStays DEF Inv, Locks, Finished
  <2>4. \A d \in Ctxs : mu[d] # t /\ mu[d] # Watcher(c)
    BY <1>1, <1>6 DEF Inv, Locks, Path
  <2>5. Path(t)'
    BY <1>2, <1>6, <2>4 DEF Path
  <2>6. Path(Watcher(c))'
    BY <1>2, <1>6, <2>4 DEF Path, Canceling
  <2> QED
    BY <2>1, <2>3, <2>5, <2>6 DEF Locks
<1>11. Reached'
  <2>1. \A d \in Ctxs : Finished(d) => Finished(d)'
    BY <1>1, <1>2 DEF Finished
  <2>2. \A q \in Ctxs : children[q] \subseteq children'[q]
    BY DEF Joins, Inv, Control, TypeOK
  <2>3. ASSUME NEW d \in Ctxs, Finished(d)' PROVE children'[d] = {}
    <3>1. CASE d = c
      <4>1. c # Registrar(c)
        BY <1>1, Numbers
      <4> QED
        BY <1>1, <3>1, <4>1 DEF Joins, Inv, Control, TypeOK
    <3>2. CASE d # c
      <4>1. Finished(d) /\ err[d] # NoErr
        BY <1>1, <1>2, <2>3, <3>2 DEF Finished
      <4>2. children'[d] = children[d]
        BY <4>1 DEF Joins, Inv, Control, TypeOK
      <4> QED
        BY <4>1, <4>2 DEF Inv, Reached
    <3> QED
      BY <3>1, <3>2
  <2>4. ASSUME NEW d \in Derived', Registrar(d)' # Background
        PROVE  \/ Finished(d)'
               \/ d \in children'[Registrar(d)']
               \/ /\ mu'[Registrar(d)'] # Free
                  /\ \/ mu'[d] = mu'[Registrar(d)']
                     \/ /\ run'[mu'[Registrar(d)']].at = d
                        /\ run'[mu'[Registrar(d)']].pc = "cancel"
    <3> DEFINE p == Registrar(d)
    <3>1. d \in Ctxs /\ p \in Ctxs /\ Registrar(d)' = p /\ p # Background
      BY <2>4, <1>1, Contexts DEF Made, Inv
    <3>2. CASE d = c
      <4>1. CASE err[p] = NoErr
        <5>1. c \in children'[p]
          BY <3>1, <3>2, <4>1 DEF Joins, Inv, Control, TypeOK
        <5> QED
          BY <3>1, <3>2, <5>1
      <4>2. CASE err[p] # NoErr
        <5>1. err'[c] = err[p]
          BY <1>1, <3>1, <3>2, <4>2 DEF Joins, Inv, Control, TypeOK
        <5>2. Finished(c)'
          BY <1>1, <1>2, <4>2, <5>1 DEF Finished
        <5> QED
          BY <3>2, <5>2
      <4> QED
        BY <4>1, <4>2
    <3>3. CASE d # c
      <4>1. d \in Derived
        BY <1>1, <3>3
      <4>2. mu[p] # Free => mu[p] \in Goroutines /\ run'[mu[p]] = run[mu[p]]
        BY <1>1, <3>1 DEF Inv, Control, TypeOK, Locks, Path
      <4>3. \/ Finished(d)
            \/ d \in children[p]
            \/ /\ mu[p] # Free
               /\ mu[d] = mu[p] \/ (run[mu[p]].at = d /\ run[mu[p]].pc = "cancel")
        BY <3>1, <4>1 DEF Inv, Reached
      <4> QED
        BY <1>2, <2>1, <2>2, <3>1, <4>2, <4>3
    <3> QED
      BY <3>2, <3>3
  <2> QED
    BY <2>3, <2>4 DEF Reached
<1>12. Kept'
  <2> SUFFICES ASSUME NEW p \in Ctxs, NEW d \in children'[p], err'[p] = NoErr, err'[d] # NoErr
               PROVE  \E u \in Goroutines :
                        /\ Canceling(u)' /\ run'[u].root = d /\ run'[u].up
                        /\ ~(run'[u].at = d /\ run'[u].pc \in {"cancel", "stop"})
    BY DEF Kept
  <2>1. d \in children[p] \/ (d = c /\ p = Registrar(c) /\ UNCHANGED err)
    BY DEF Joins, Inv, Control, TypeOK
  <2>2. d \in children[p] /\ d \in Derived /\ d \in Ctxs /\ p # c
    BY <1>1, <2>1, Contexts DEF Inv, Control, Grown, Made
  <2>3. d # c
    BY <1>1, <2>2
  <2>4. PICK u \in Goroutines :
          /\ Canceling(u) /\ run[u].root = d /\ run[u].up
          /\ ~(run[u].at = d /\ run[u].pc \in {"cancel", "stop"})
    BY <1>1, <2>2, <2>3 DEF Inv, Kept
  <2> QED
    BY <1>1, <2>4 DEF Canceling
<1>13. TimersAreStopped'
  <2> SUFFICES ASSUME NEW d \in armed', err'[d] # NoErr
               PROVE  \E u \in Goroutines : AtWorkOn(u, d)'
    BY DEF TimersAreStopped
  <2>1. d \in armed /\ d \in Ctxs /\ d # c /\ err[d] # NoErr
    BY <1>1, <1>2, Contexts DEF Inv, Control, TypeOK, Made
  <2>2. PICK u \in Goroutines : AtWorkOn(u, d)
    BY <2>1 DEF Inv, TimersAreStopped
  <2>3. Canceling(u)
    BY <2>1, <2>2 DEF AtWorkOn, Canceling, Inv, Locks, Path
  <2> QED
    BY <1>1, <1>2, <2>2, <2>3 DEF AtWorkOn
<1> QED
  BY <1>7, <1>8, <1>9, <1>10, <1>11, <1>12, <1>13 DEF Inv, Control

LEMMA NewInv ==
  ASSUME Inv, NEW t \in Makers, NEW c \in Ctxs, NEW p \in ready \cup {Background},
         NEW f \in BOOLEAN, NEW d \in 0..Never, New(t, c, p, f, d)
  PROVE  Inv' /\ SameShape
<1>1. /\ t \in Callers /\ t \in Goroutines /\ run[t] = Idle /\ c \notin Made
      /\ \A x \in Ctxs : x < c => x \in Made
      /\ f => p # Background
  BY Threads, CtxAssumption DEF New, NextCtx
<1>2. /\ parent' = [parent EXCEPT ![c] = p]
      /\ foreign' = IF f THEN foreign \cup {c} ELSE foreign
      /\ UNCHANGED <<now, ready, mu, err, children, armed, called>>
      /\ timed \subseteq timed' /\ timed' \subseteq timed \cup {c}
  BY DEF New
<1>3. p # c /\ p \in Ctxs \cup {Background} /\ p < c
  <2>1. CASE p = Background
    BY <2>1, Numbers DEF Ctxs
  <2>2. CASE p \in ready
    <3>1. p \in Made /\ p \in Ctxs
      BY <2>2, Contexts DEF Inv, Made
    <3>2. ~(c < p)
      BY <1>1, <3>1 DEF Inv, Control, Grown
    <3> QED
      BY <1>1, <3>1, <3>2, Numbers
  <2> QED
    BY <2>1, <2>2
<1>4. /\ parent' \in [Ctxs -> Ctxs \cup {Background}] /\ parent'[c] = p
      /\ \A x \in Ctxs \ {c} : parent'[x] = parent[x]
  BY <1>2, <1>3 DEF Inv, Control, TypeOK
<1>5. Made' = Made \cup {c}
  BY <1>3, <1>4 DEF Made
<1>6. Task("register", c, NoErr, FALSE) \in Activity
  BY Activities
<1>7. Begins(t, Task("register", c, NoErr, FALSE))
  BY <1>1, <1>6, TaskBegins DEF New, Inv, Control
<1>8. /\ run' \in [Goroutines -> Activity]
      /\ run'[t].pc = "register" /\ run'[t].at = c /\ run'[t].root = c
      /\ \A u \in Goroutines \ {t} : run'[u] = run[u]
  BY <1>7 DEF Begins, Task
<1>9. Derived' = Derived
  <2>1. \A u \in Callers \ {t} : run'[u] = run[u]
    BY <1>8, Threads
  <2>2. \A x \in Made : (\A u \in Callers : run'[u].pc = "register" => run'[u].at # x)
                    <=> (\A u \in Callers : run[u].pc = "register" => run[u].at # x)
    BY <1>1, <1>8, <2>1, Activities
  <2>3. c \notin Derived' /\ c \notin Derived
    BY <1>1, <1>8 DEF Derived
  <2> QED
    BY <1>5, <2>2, <2>3 DEF Derived
<1>10. c \notin Derived /\ c \notin ready /\ Derived \subseteq Made /\ Made \subseteq Ctxs
       /\ ready \subseteq Derived
  BY <1>1, Contexts DEF Inv, Made
<1>11. \A x \in Ctxs \ {c} : Registrar(x)' = Registrar(x)
  BY <1>2, <1>4 DEF Registrar
<1>12. Grows
  BY <1>2, <1>5, <1>9, <1>10, <1>11 DEF Grows
<1>13. TypeOK'
  <2>1. DeadlineOf(p) \in 0..Never
    BY <1>3, Numbers DEF DeadlineOf, Never, Inv, Control, TypeOK
  <2>2. deadline' \in [Ctxs -> 0..Never]
    BY <2>1 DEF New, Inv, Control, TypeOK
  <2>3. foreign' \subseteq Made' /\ timed' \subseteq Made' /\ armed' \subseteq timed'
    BY <1>2, <1>5 DEF Inv, Control, TypeOK
  <2> QED
    BY <1>2, <1>4, <1>5, <1>8, <2>2, <2>3 DEF Inv, Control, TypeOK
<1>14. ~Canceling(t) /\ ~Making(t) /\ ~Canceling(t)' /\ Making(t)'
  BY <1>1, <1>8, Activities DEF Canceling, Making
<1>15. Tasks'
  <2>1. ASSUME NEW u \in Goroutines \ {t} PROVE OnTask(u)'
    BY <1>2, <1>8, <1>12, OnTaskStays DEF Inv, Control, Tasks, OnTask
  <2>2. OnTask(t)'
    BY <1>1, <1>2, <1>5, <1>8, <1>10, <1>14 DEF OnTask
  <2>3. \A u \in Callers \ {t} : Making(u) \/ Canceling(u) => run[u].root # c
    BY <1>1, <1>10, Threads DEF Inv, Control, Tasks, OnTask
  <2>4. ASSUME NEW u \in Callers, NEW v \in Callers,
               Making(u)', (Making(v) \/ Canceling(v))', run'[u].root = run'[v].root
        PROVE  u = v
    <3>1. \A x \in Callers \ {t} : /\ run'[x] = run[x]
                                   /\ Making(x)' <=> Making(x)
                                   /\ Canceling(x)' <=> Canceling(x)
      BY <1>8, Threads DEF Making, Canceling
    <3>2. CASE u = t
      BY <1>8, <2>3, <2>4, <3>1, <3>2
    <3>3. CASE u # t /\ v = t
      BY <1>8, <2>3, <2>4, <3>1, <3>3
    <3>4. CASE u # t /\ v # t
      BY <2>4, <3>1, <3>4 DEF Inv, Control, Tasks
    <3> QED
      BY <3>2, <3>3, <3>4
  <2> QED
    BY <2>1, <2>2, <2>4 DEF Tasks
<1>16. Grown'
  <2>1. \A x \in Ctxs \ Derived' : run'[Watcher(x)] = Idle
    BY <1>1, <1>8, <1>9, Threads DEF Inv, Control, Grown
  <2>2. \A x \in Ctxs : x \in armed' \/ x \notin ready' => run'[Timer(x)] = Idle
    BY <1>1, <1>2, <1>8, Threads DEF Inv, Control, Grown
  <2>3. \A q \in Ctxs : \A x \in children'[q] : x \in Derived' /\ Registrar(x)' = q
    BY <1>2, <1>9, <1>10, <1>11 DEF Inv, Control, Grown
  <2>4. \A x \in Made' : parent'[x] < x
    BY <1>3, <1>4, <1>5, <1>10 DEF Inv, Control, Grown
  <2>5. \A x \in Made', y \in Ctxs : y < x => y \in Made'
    BY <1>1, <1>5 DEF Inv, Control, Grown
  <2>6. \A x \in foreign' : parent'[x] # Background
    BY <1>1, <1>2, <1>4 DEF Inv, Control, Grown, TypeOK, Made
  <2> QED
    BY <1>2, <1>9, <2>1, <2>2, <2>3, <2>4, <2>5, <2>6 DEF Inv, Control, Grown
<1>17. Locks'
  BY <1>1, <1>2, <1>8, <1>12, <1>14, LocksStay DEF Inv
<1>18. Reached'
  BY <1>1, <1>2, <1>8, <1>9, <1>10, <1>11, <1>14, ReachedStays DEF Inv
<1>19. Kept' /\ TimersAreStopped'
  BY <1>1, <1>2, <1>8, <1>14, KeptStays, TimersStay DEF Inv
<1>20. SameShape
  BY <1>9, <1>10, <1>11, Contexts DEF SameShape
<1> QED
  BY <1>20, <1>13, <1>15, <1>16, <1>17, <1>18, <1>19 DEF Inv, Control

-----------------------------------------------------------------------------
(* The invariant, and what follows from it.                                *)

LEMMA InitInv == Init => Inv
<1> SUFFICES ASSUME Init PROVE Inv
  OBVIOUS
<1>1. /\ \A t \in Goroutines : run[t] = Idle
      /\ \A c \in Ctxs : /\ parent[c] = c /\ mu[c] = Free /\ err[c] = NoErr
                         /\ children[c] = {} /\ deadline[c] = Never
      /\ Made = {} /\ Derived = {} /\ foreign = {} /\ armed = {} /\ ready = {}
      /\ timed = {} /\ called = {} /\ now = 0
  BY DEF Init, Made, Derived
<1>2. TypeOK
  BY <1>1, Activities, Numbers DEF Init, TypeOK, Never
<1>3. Tasks
  BY <1>1, Threads, Activities DEF Tasks, OnTask, Making, Canceling
<1>4. Grown
  BY <1>1, Threads DEF Grown
<1>5. Locks
  BY <1>1, Threads, Activities DEF Locks, Path, Canceling
<1>6. Reached /\ Kept /\ TimersAreStopped
  BY <1>1 DEF Reached, Kept, TimersAreStopped, Finished
<1> QED
  BY <1>2, <1>3, <1>4, <1>5, <1>6 DEF Inv, Control

LEMMA NextInv == Inv /\ [Next]_vars => Inv'
<1> SUFFICES ASSUME Inv, [Next]_vars PROVE Inv'
  OBVIOUS
<1>1. CASE \E t \in Makers, c \in Ctxs, p \in ready \cup {Background}, f \in BOOLEAN,
              d \in 0..Never : New(t, c, p, f, d)
  BY <1>1, NewInv
<1>2. ASSUME NEW t \in Callers, Make(t) PROVE Inv'
  BY <1>2, RegisterJoins, JoinsInv, ArmLateInv, ArmInv DEF Make
<1>3. ASSUME NEW t \in Callers, NEW c \in Ctxs, CallCancel(t, c) PROVE Inv'
  BY <1>3, CallCancelInv
<1>4. ASSUME NEW c \in Ctxs, Fire(c) \/ WatchParent(c) \/ WatchChild(c) PROVE Inv'
  BY <1>4, FireInv, WatchParentInv, WatchChildInv
<1>5. ASSUME NEW t \in Goroutines, Cancel(t) PROVE Inv'
  BY <1>5, CancelAgainInv, CancelFirstInv, CancelChildInv, CancelEndInv, RemoveInv, StopInv
  DEF Cancel
<1>6. CASE Tick
  BY <1>6, StutterInv, Numbers DEF Tick, Inv, Control, TypeOK
<1>7. CASE UNCHANGED vars
  BY <1>7, StutterInv DEF vars, Inv, Control, TypeOK
<1> QED
  BY <1>1, <1>2, <1>3, <1>4, <1>5, <1>6, <1>7 DEF Next

\* Every variable keeps to its type (Ctx.TypeOK): what is canceled and timed has been
\* made, and nothing is derived from a context that has not been returned.
THEOREM CtxTypeCorrect == Spec => []TypeOK
<1>1. Inv => TypeOK
  BY DEF Inv, Control
<1> QED
  BY <1>1, InitInv, NextInv, PTL DEF Spec

\* In a tree of any size and shape, whoever cancels and whatever fires, a live context is
\* among the children of its live parent, so that a cancel reaches it, and a finished one
\* leaves them (context.go:226-251, 272-282, 334-339).
THEOREM ChildrenStayTheLive == Spec => []ChildrenAreTheLive
<1>1. Inv => ChildrenAreTheLive
  <2> SUFFICES ASSUME Inv, NEW c \in Derived, Registrar(c) # Background,
                      err[Registrar(c)] = NoErr
               PROVE  /\ err[c] = NoErr => c \in children[Registrar(c)]
                      /\ c \in children[Registrar(c)] /\ err[c] # NoErr
                         => \E t \in Goroutines : WillRemove(t, c)
    BY DEF ChildrenAreTheLive
  <2>1. Registrar(c) \in Ctxs /\ c \in Ctxs
    BY Contexts DEF Inv, Made
  <2>2. mu[Registrar(c)] = Free
    BY <2>1 DEF Inv, Locks
  <2>3. Finished(c) \/ c \in children[Registrar(c)]
    BY <2>1, <2>2 DEF Inv, Reached
  <2>4. ASSUME c \in children[Registrar(c)], err[c] # NoErr
        PROVE  \E t \in Goroutines : WillRemove(t, c)
    BY <2>1, <2>4 DEF Inv, Kept, WillRemove
  <2> QED
    BY <2>3, <2>4 DEF Finished
<1> QED
  BY <1>1, InitInv, NextInv, PTL DEF Spec

\* No timer is armed for a finished context unless somebody is about to stop it
\* (context.go:366-372, 400-405).
THEOREM TimersGetStopped == Spec => []TimersAreStopped
<1>1. Inv => TimersAreStopped
  BY DEF Inv
<1> QED
  BY <1>1, InitInv, NextInv, PTL DEF Spec

-----------------------------------------------------------------------------
(* The refinement.                                                         *)

Above == [c \in Ctxs |-> IF c \in Derived THEN Registrar(c) ELSE c]
Seen == [c \in Ctxs |-> IF mu[c] = Free THEN err[c] ELSE NoErr]

LEMMA PromiseIs ==
  /\ Promise!Init <=> /\ Above = [c \in Ctxs |-> c]
                      /\ Seen = [c \in Ctxs |-> NoErr]
  /\ \A c, p : Promise!Derive(c, p) <=>
       /\ Above[c] = c /\ (p = Background \/ Above[p] # p)
       /\ Above' = [Above EXCEPT ![c] = p]
       /\ Seen' = [Seen EXCEPT ![c] = IF p = Background THEN NoErr ELSE Seen[p]]
  /\ \A c, e : Promise!Finish(c, e) <=>
       /\ Above[c] # c /\ Seen[c] = NoErr
       /\ \A k \in Ctxs : Above[k] = c => Seen[k] # NoErr
       /\ Seen' = [Seen EXCEPT ![c] = e]
       /\ Above' = Above
  /\ Above' = Above /\ Seen' = Seen => UNCHANGED Promise!vars
  BY DEF Promise!Init, Promise!Derive, Promise!Finish, Promise!Known, Promise!vars, Above, Seen

\* A step that leaves the shape of the tree, and what Err returns, as they are.
LEMMA SameTree ==
  ASSUME Derived' = Derived, \A c \in Derived : Registrar(c)' = Registrar(c),
         Derived \subseteq Ctxs,
         \A c \in Ctxs : (IF mu'[c] = Free THEN err'[c] ELSE NoErr)
                       = (IF mu[c] = Free THEN err[c] ELSE NoErr)
  PROVE  UNCHANGED Promise!vars
<1>1. Above' = Above
  BY DEF Above
<1>2. Seen' = Seen
  BY DEF Seen
<1> QED
  BY <1>1, <1>2, PromiseIs

LEMMA DerivedAreMade == ASSUME Inv PROVE Derived \subseteq Ctxs
  BY DEF Derived, Made

LEMMA JoinsDerives ==
  ASSUME Inv, NEW t, NEW c, Joins(t, c)
  PROVE  Promise!Next
<1>0. /\ c \in Ctxs /\ c \in Made \ ready /\ c \notin Derived
      /\ mu[c] = Free /\ err[c] = NoErr
      /\ Derived' = Derived \cup {c}
      /\ \A d \in Ctxs : Registrar(d)' = Registrar(d)
      /\ Registrar(c) \in ready \cup {Background}
      /\ \A d \in Ctxs \ {c} : err'[d] = err[d]
  BY JoinsFacts
<1> PICK p \in ready \cup {Background} : p = Registrar(c)
  BY <1>0
<1>1. /\ c \in Ctxs /\ c \in Made \ ready /\ c \notin Derived
      /\ mu[c] = Free /\ err[c] = NoErr
      /\ Derived' = Derived \cup {c}
      /\ \A d \in Ctxs : Registrar(d)' = Registrar(d)
      /\ \A d \in Ctxs \ {c} : err'[d] = err[d]
      /\ err \in [Ctxs -> Errs \cup {NoErr}] /\ mu' = mu
  BY <1>0 DEF Joins, Inv, Control, TypeOK
<1>2. p # c /\ p \in Ctxs \cup {Background}
  BY <1>1, Contexts, Numbers DEF Inv, Made
<1>3. p = Background \/ Above[p] # p
  <2>1. ASSUME p # Background PROVE p \in Derived /\ p \in Ctxs /\ Registrar(p) # p
    <3>1. p \in Derived /\ p \in Made /\ p \in Ctxs
      BY <1>1, <1>2, <2>1, Contexts DEF Inv
    <3>2. Registrar(p) < p /\ p \in Nat
      BY <3>1, Contexts, Numbers DEF Inv
    <3> QED
      BY <3>1, <3>2
  <2> QED
    BY <2>1 DEF Above
<1>4. Above[c] = c /\ Above' = [Above EXCEPT ![c] = p]
  BY <1>1 DEF Above
<1>5. err'[c] = IF p = Background THEN NoErr ELSE err[p]
  <2>1. CASE p = Background \/ err[p] = NoErr
    BY <1>1, <2>1 DEF Joins
  <2>2. CASE p # Background /\ err[p] # NoErr
    BY <1>1, <2>2 DEF Joins
  <2> QED
    BY <2>1, <2>2
<1>6. p # Background => mu[p] = Free
  BY DEF Joins
<1>7. Seen' = [Seen EXCEPT ![c] = IF p = Background THEN NoErr ELSE Seen[p]]
  <2>1. p # Background => Seen[p] = err[p]
    BY <1>2, <1>6 DEF Seen
  <2>2. err'[c] = IF p = Background THEN NoErr ELSE Seen[p]
    BY <1>5, <2>1
  <2> QED
    BY <1>1, <2>2 DEF Seen
<1>8. Promise!Derive(c, p)
  BY <1>3, <1>4, <1>7, PromiseIs
<1> QED
  BY <1>1, <1>2, <1>8 DEF Promise!Next

LEMMA CancelEndFinishes ==
  ASSUME Inv, NEW t \in Goroutines, CancelEnd(t)
  PROVE  Promise!Next
<1> DEFINE a == run[t].at
<1>1. /\ Canceling(t) /\ run[t].pc = "loop" /\ children[a] = {}
      /\ mu' = [mu EXCEPT ![a] = Free]
      /\ UNCHANGED <<parent, foreign, timed, err>>
  BY DEF CancelEnd, Canceling
<1>2. a \in Ctxs /\ a \in Derived /\ a \in Nat
  BY <1>1, CancelingAt, Numbers
<1>3. mu[a] = t /\ t # Free /\ err[a] # NoErr
  BY <1>1, <1>2, Threads DEF Inv, Locks, Path
<1>4. Derived' = Derived /\ \A c \in Ctxs : Registrar(c)' = Registrar(c)
  BY CancelEndInv, LeavesGrow DEF Inv
<1>5. Above' = Above
  BY <1>4 DEF Above
<1>6. mu' \in [Ctxs -> Goroutines \cup {Free}] /\ mu'[a] = Free
      /\ \A c \in Ctxs \ {a} : mu'[c] = mu[c]
  BY <1>1, <1>2 DEF Inv, Control, TypeOK
<1>7. Seen[a] = NoErr /\ Seen' = [Seen EXCEPT ![a] = err[a]]
  BY <1>1, <1>2, <1>3, <1>6 DEF Seen
<1>8. Above[a] # a
  <2>1. Registrar(a) < a /\ Registrar(a) \in Ctxs \cup {Background}
    BY <1>2, Contexts DEF Inv
  <2> QED
    BY <1>2, <2>1, Numbers DEF Above
<1>9. ASSUME NEW k \in Ctxs, Above[k] = a PROVE Seen[k] # NoErr
  <2>1. k \in Derived /\ Registrar(k) = a /\ a < k
    <3>1. k # a
      BY <1>8, <1>9
    <3>2. k \in Derived /\ Registrar(k) = a
      BY <3>1, <1>9 DEF Above
    <3> QED
      BY <3>2, Contexts DEF Inv
  <2>2. a # Background
    BY <1>2, Numbers
  <2>3. Finished(k) \/ mu[k] = t \/ (run[t].at = k /\ run[t].pc = "cancel")
    BY <1>1, <1>3, <2>1, <2>2 DEF Inv, Reached
  <2>4. mu[k] # t
    <3> SUFFICES ASSUME mu[k] = t PROVE FALSE
      OBVIOUS
    <3>1. k <= a
      BY DEF Inv, Locks, Path
    <3> QED
      BY <1>2, <2>1, <3>1, Numbers
  <2>5. Finished(k)
    BY <1>1, <2>3, <2>4
  <2> QED
    BY <2>5 DEF Seen, Finished
<1>10. PICK c \in Ctxs, e \in Errs : c = a /\ e = err[a]
  <2>1. err[a] \in Errs
    BY <1>2, <1>3 DEF Inv, Control, TypeOK
  <2> QED
    BY <1>2, <2>1
<1>11. Promise!Finish(c, e)
  <2>1. /\ Above[c] # c /\ Seen[c] = NoErr
        /\ \A k \in Ctxs : Above[k] = c => Seen[k] # NoErr
        /\ Seen' = [Seen EXCEPT ![c] = e]
        /\ Above' = Above
    BY <1>5, <1>7, <1>8, <1>9, <1>10
  <2> QED
    BY <2>1, PromiseIs
<1> QED
  BY <1>11 DEF Promise!Next

LEMMA SameErr ==
  ASSUME Inv, SameShape, UNCHANGED <<mu, err>>
  PROVE  UNCHANGED Promise!vars
  BY SameTree, DerivedAreMade DEF SameShape

LEMMA CancelFirstHides ==
  ASSUME Inv, NEW t \in Goroutines, CancelFirst(t)
  PROVE  UNCHANGED Promise!vars
<1> DEFINE a == run[t].at
<1>1. a \in Ctxs /\ t # Free
  BY CancelingAt, Threads DEF CancelFirst, Canceling
<1>2. /\ mu[a] = Free /\ err[a] = NoErr /\ mu'[a] = t
      /\ \A c \in Ctxs \ {a} : mu'[c] = mu[c] /\ err'[c] = err[c]
  BY <1>1 DEF CancelFirst, Inv, Control, TypeOK
<1>3. \A c \in Ctxs : (IF mu'[c] = Free THEN err'[c] ELSE NoErr)
                    = (IF mu[c] = Free THEN err[c] ELSE NoErr)
  BY <1>1, <1>2
<1> QED
  BY <1>3, CancelFirstInv, SameTree, DerivedAreMade DEF SameShape

LEMMA StepKeepsPromise == Inv /\ [Next]_vars => [Promise!Next]_(Promise!vars)
<1> SUFFICES ASSUME Inv, [Next]_vars PROVE Promise!Next \/ UNCHANGED Promise!vars
  OBVIOUS
<1>1. ASSUME NEW t \in Makers, NEW c \in Ctxs, NEW p \in ready \cup {Background},
             NEW f \in BOOLEAN, NEW d \in 0..Never, New(t, c, p, f, d)
      PROVE  UNCHANGED Promise!vars
  BY <1>1, NewInv, SameErr DEF New
<1>2. ASSUME NEW t \in Callers, Make(t)
      PROVE  Promise!Next \/ UNCHANGED Promise!vars
  <2>1. CASE RegisterNowhere(t) \/ Register(t) \/ RegisterForeign(t)
    BY <2>1, RegisterJoins, JoinsDerives
  <2>2. CASE ArmLate(t)
    BY <2>2, ArmLateInv, SameErr DEF ArmLate
  <2>3. CASE Arm(t)
    BY <2>3, ArmInv, SameErr DEF Arm
  <2> QED
    BY <1>2, <2>1, <2>2, <2>3 DEF Make
<1>3. ASSUME NEW t \in Callers, NEW c \in Ctxs, CallCancel(t, c)
      PROVE  UNCHANGED Promise!vars
  BY <1>3, CallCancelInv, SameErr DEF CallCancel
<1>4. ASSUME NEW c \in Ctxs, Fire(c) \/ WatchParent(c) \/ WatchChild(c)
      PROVE  UNCHANGED Promise!vars
  <2>1. CASE Fire(c)
    BY <2>1, FireInv, SameErr DEF Fire
  <2>2. CASE WatchParent(c)
    BY <2>2, WatchParentInv, SameErr DEF WatchParent
  <2>3. CASE WatchChild(c)
    BY <2>3, WatchChildInv, SameErr DEF WatchChild
  <2> QED
    BY <1>4, <2>1, <2>2, <2>3
<1>5. ASSUME NEW t \in Goroutines, Cancel(t)
      PROVE  Promise!Next \/ UNCHANGED Promise!vars
  <2>1. CASE CancelAgain(t)
    BY <2>1, CancelAgainInv, SameErr DEF CancelAgain
  <2>2. CASE CancelFirst(t)
    BY <2>2, CancelFirstHides
  <2>3. CASE CancelChild(t)
    BY <2>3, CancelChildInv, SameErr DEF CancelChild
  <2>4. CASE CancelEnd(t)
    BY <2>4, CancelEndFinishes
  <2>5. CASE Remove(t)
    BY <2>5, RemoveInv, SameErr DEF Remove
  <2>6. CASE Stop(t)
    BY <2>6, StopInv, SameErr DEF Stop
  <2> QED
    BY <1>5, <2>1, <2>2, <2>3, <2>4, <2>5, <2>6 DEF Cancel
<1>6. CASE Tick
  BY <1>6, StutterInv, SameErr, Numbers DEF Tick, Inv, Control, TypeOK
<1>7. CASE UNCHANGED vars
  BY <1>7, StutterInv, SameErr DEF vars, Inv, Control, TypeOK
<1> QED
  BY <1>1, <1>2, <1>3, <1>4, <1>5, <1>6, <1>7 DEF Next

\* The locked walk down the tree keeps the promise of CtxTree: to whoever asks a context
\* for its Err, a finished context is finished for good and for one reason, and all that
\* was derived from it, before or since, is finished too (context.go:205-251, 307-340).
THEOREM CtxImplementsTree == Spec => ImplementsCtxTree
<1>1. Init => Promise!Init
  <2> SUFFICES ASSUME Init PROVE Promise!Init
    OBVIOUS
  <2>1. Derived = {} /\ \A c \in Ctxs : mu[c] = Free /\ err[c] = NoErr
    BY DEF Init, Derived, Made
  <2>2. Above = [c \in Ctxs |-> c] /\ Seen = [c \in Ctxs |-> NoErr]
    BY <2>1 DEF Above, Seen
  <2> QED
    BY <2>2, PromiseIs
<1> QED
  BY <1>1, InitInv, NextInv, StepKeepsPromise, PTL DEF Spec, ImplementsCtxTree, Promise!Spec

-----------------------------------------------------------------------------
(* The reasons that contexts give.  What they need of the tree is in Inv:  *)
(* a cancel comes to a context from its parent, which it has begun to      *)
(* finish for the same reason.                                             *)

\* A reason stays one when contexts are made and canceled and time goes on.
LEMMA ReasonStays ==
  ASSUME Control, Control', NEW c \in Made, NEW e, Reason(e, c),
         \A d \in Made : parent'[d] = parent[d], deadline'[c] = deadline[c],
         now <= now', called \subseteq called'
  PROVE  Reason(e, c)'
<1>1. \A d \in Made : d \in Ctxs /\ parent[d] \in ready \cup {Background} /\ parent[d] # d
  BY Contexts, Numbers DEF Made
<1>2. ready \subseteq Made
  BY DEF Control, TypeOK
<1>3. ASSUME NEW a \in Line(c) \cap Made PROVE a \in Line(c)'
  <2> SUFFICES ASSUME NEW S \in SUBSET Ctxs, c \in S, \A d \in S : parent'[d] = Background \/ parent'[d] \in S
               PROVE  a \in S
    BY <1>3 DEF Line, UpClosed
  <2> DEFINE T == (S \cap Made) \cup (Ctxs \ Made)
  <2>1. UpClosed(T)
    <3> SUFFICES ASSUME NEW d \in T PROVE parent[d] = Background \/ parent[d] \in T
      BY DEF UpClosed
    <3>1. CASE d \in Made
      BY <1>1, <1>2, <3>1
    <3>2. CASE d \notin Made
      BY <3>2 DEF Made
    <3> QED
      BY <3>1, <3>2
  <2>2. c \in T /\ T \in SUBSET Ctxs
    BY DEF Made
  <2>3. a \in T
    BY <1>3, <2>1, <2>2 DEF Line
  <2> QED
    BY <2>3
<1>4. called \subseteq Made
  BY <1>2 DEF Control, TypeOK
<1>5. e = "Canceled" => \E a \in called : a \in Line(c)'
  BY <1>3, <1>4 DEF Reason
<1>6. e = "DeadlineExceeded" => deadline'[c] <= now'
  <2>1. now \in Int /\ now' \in Int /\ deadline[c] \in Int
    BY <1>1, Numbers DEF Control, TypeOK, Never
  <2> QED
    BY <2>1 DEF Reason
<1> QED
  BY <1>5, <1>6 DEF Reason

\* A context has the reasons that its parent has.
LEMMA ReasonInherited ==
  ASSUME Control, Reasons, NEW c \in Made, NEW e, parent[c] # Background, Reason(e, parent[c])
  PROVE  Reason(e, c)
<1>1. c \in Ctxs /\ parent[c] \in Ctxs
  BY Contexts, Numbers
<1>2. Line(parent[c]) \subseteq Line(c)
  BY <1>1 DEF Line, UpClosed
<1>3. deadline[c] <= deadline[parent[c]] /\ deadline[c] \in Int /\ deadline[parent[c]] \in Int /\ now \in Int
  BY <1>1, Numbers DEF Reasons, DeadlineOf, Control, TypeOK, Never
<1> QED
  BY <1>1, <1>2, <1>3 DEF Reason

\* A step in which t alone goes on with a cancel or begins one, with a reason that holds.
LEMMA ReasonsKept ==
  ASSUME Inv, Inv', Reasons, NEW t \in Goroutines, NEW e,
         UNCHANGED <<parent, deadline>>, now <= now', called \subseteq called',
         \A u \in Goroutines \ {t} :
           /\ run'[u] = run[u] \/ ~Canceling(u)'
           /\ \A c \in Ctxs : mu'[c] = u => mu[c] = u,
         \A c \in Ctxs : err'[c] = err[c] \/ (err'[c] = e /\ Reason(e, c)'),
         Canceling(t)' => run'[t].why = e,
         \A c \in Ctxs : mu'[c] = t \/ (Canceling(t)' /\ c = run'[t].at) => Reason(e, c)'
  PROVE  Reasons'
<1>0. Made' = Made /\ Made \subseteq Ctxs
  BY DEF Made
<1>1. ASSUME NEW c \in Ctxs, NEW f, f = NoErr \/ c \in Made, Reason(f, c) PROVE Reason(f, c)'
  <2>1. CASE c \in Made
    BY <1>1, <2>1, ReasonStays DEF Inv
  <2>2. CASE c \notin Made
    BY <1>1, <2>2 DEF Reason, NoErr
  <2> QED
    BY <2>1, <2>2
<1>2. ReasonsAreTrue'
  <2> SUFFICES ASSUME NEW c \in Ctxs PROVE Reason(err[c], c)'
    BY DEF ReasonsAreTrue
  <2>1. CASE err'[c] = e /\ Reason(e, c)'
    BY <2>1 DEF Reason
  <2>2. CASE err'[c] = err[c]
    <3> PICK f : f = err[c]
      OBVIOUS
    <3>1. f = NoErr \/ c \in Made
      BY Contexts DEF Inv, Control, Grown
    <3>2. Reason(f, c)'
      BY <1>1, <3>1 DEF Reasons, ReasonsAreTrue
    <3> QED
      BY <2>2, <3>2 DEF Reason
  <2> QED
    BY <2>1, <2>2
<1>3. ASSUME NEW u \in Goroutines, NEW c \in Ctxs,
             mu'[c] = u \/ (Canceling(u)' /\ c = run'[u].at)
      PROVE  Reason(run[u].why, c)'
  <2>0. Canceling(u)'
    BY <1>3 DEF Inv, Locks, Path
  <2>1. CASE u = t
    BY <1>3, <2>0, <2>1 DEF Reason
  <2>2. CASE u # t
    <3> PICK f : f = run[u].why
      OBVIOUS
    <3>1. run'[u] = run[u] /\ Canceling(u)
      BY <2>0, <2>2 DEF Canceling
    <3>2. Reason(f, c)
      BY <1>3, <2>2, <3>1 DEF Reasons
    <3>3. c \in Made
      <4>1. mu[c] = u => c \in Derived
        BY Threads DEF Inv, Control, Grown
      <4>2. run[u].at \in Derived
        BY <3>1, BackUp DEF Inv
      <4> QED
        BY <1>3, <2>2, <3>1, <4>1, <4>2, Contexts DEF Inv
    <3>4. Reason(f, c)'
      BY <1>1, <3>2, <3>3
    <3> QED
      BY <3>1, <3>4 DEF Reason
  <2> QED
    BY <2>1, <2>2
<1>4. \A c \in Made' : deadline'[c] <= DeadlineOf(parent[c])'
  BY <1>0 DEF Reasons, DeadlineOf
<1> QED
  BY <1>2, <1>3, <1>4 DEF Reasons

\* What a goroutine cancels, or holds the lock of, is made.
LEMMA CanceledAreMade ==
  ASSUME Inv, NEW t \in Goroutines, NEW c \in Ctxs,
         mu[c] = t \/ (Canceling(t) /\ c = run[t].at)
  PROVE  c \in Made /\ Canceling(t)
<1>1. mu[c] = t => c \in Derived /\ Canceling(t)
  BY Threads DEF Inv, Control, Grown, Locks, Path
<1>2. Canceling(t) => run[t].at \in Derived
  BY BackUp DEF Inv
<1> QED
  BY <1>1, <1>2, Contexts DEF Inv

LEMMA LeavesReasons ==
  ASSUME Inv, Inv', Reasons, NEW t \in Goroutines, Leaves(t), UNCHANGED <<now, deadline, called>>
  PROVE  Reasons'
<1> PICK e : e = run[t].why
  OBVIOUS
<1>1. Canceling(t) /\ run[t].at \in Ctxs
  BY BackUp DEF Leaves, Inv
<1>2. \A c \in Ctxs : mu'[c] = t => mu[c] = t
  BY Threads DEF Leaves
<1>3. /\ \A u \in Goroutines \ {t} : run'[u] = run[u]
      /\ \A u \in Goroutines \ {t} : \A c \in Ctxs : mu'[c] = u => mu[c] = u
  BY <1>1, Threads, LeavesGrow DEF Leaves, Inv
<1>4. Canceling(t)' =>
        /\ run'[t].why = e
        /\ run'[t].at = run[t].at \/ mu[run'[t].at] = t
  <2>1. CASE Moves(t, "remove", run[t].at) \/ Moves(t, "stop", run[t].at)
    BY <2>1 DEF Moves
  <2>2. CASE Begins(t, Idle)
    BY <2>2, Activities DEF Begins, Canceling
  <2>3. CASE run[t].at # run[t].root /\ Moves(t, "loop", Registrar(run[t].at))
    BY <1>1, <2>3, BackUp DEF Moves, Inv
  <2> QED
    BY <2>1, <2>2, <2>3 DEF Leaves, Ends
<1>5. ASSUME NEW c \in Ctxs, mu'[c] = t \/ (Canceling(t)' /\ c = run'[t].at)
      PROVE  Reason(e, c)'
  <2>1. mu[c] = t \/ (Canceling(t) /\ c = run[t].at)
    BY <1>1, <1>2, <1>4, <1>5
  <2>2. Reason(e, c)
    BY <2>1 DEF Reasons
  <2>3. c \in Made
    BY <2>1, CanceledAreMade
  <2> QED
    BY <2>2, <2>3, ReasonStays DEF Leaves, Inv, Control, TypeOK
<1>6. UNCHANGED <<parent, deadline, now, called>> /\ \A c \in Ctxs : err'[c] = err[c]
  BY DEF Leaves
<1>7. now <= now'
  BY <1>6 DEF Inv, Control, TypeOK
<1> QED
  BY <1>3, <1>4, <1>5, <1>6, <1>7, ReasonsKept

\* A goroutine that begins to cancel c with a reason that c has.
LEMMA StartReasons ==
  ASSUME Inv, Inv', Reasons, NEW t \in Goroutines, NEW c \in Derived, NEW e, NEW up,
         StartsOrStops(t, Task("cancel", c, e, up)), Reason(e, c),
         now' = now, called \subseteq called'
  PROVE  Reasons'
<1> DEFINE r == Task("cancel", c, e, up)
<1>1. r.at = c /\ r.why = e
  BY DEF Task
<1>2. /\ Begins(t, r) /\ ~Canceling(t)
      /\ UNCHANGED <<parent, deadline, mu, err>>
  BY StartFacts DEF StartsOrStops
<1>3. run'[t] = r /\ \A u \in Goroutines \ {t} : run'[u] = run[u]
  BY <1>2 DEF Begins
<1>4. \A d \in Ctxs : mu[d] # t
  BY <1>2 DEF Inv, Locks, Path
<1>5. c \in Made
  BY Contexts DEF Inv
<1>6. now <= now'
  BY DEF Inv, Control, TypeOK
<1>7. Reason(e, c)'
  BY <1>2, <1>5, <1>6, ReasonStays DEF Inv
<1> HIDE DEF r
<1>8. /\ Canceling(t)' => run'[t].why = e
      /\ \A d \in Ctxs : mu'[d] = t \/ (Canceling(t)' /\ d = run'[t].at) => Reason(e, d)'
  BY <1>1, <1>2, <1>3, <1>4, <1>7
<1>9. \A u \in Goroutines \ {t} : \A d \in Ctxs : mu'[d] = u => mu[d] = u
  BY <1>2
<1> QED
  BY <1>2, <1>3, <1>6, <1>8, <1>9, ReasonsKept

\* A step in which nobody cancels anything that he did not cancel before.
LEMMA IdleReasons ==
  ASSUME Inv, Inv', Reasons, UNCHANGED <<parent, deadline, mu, err>>,
         now <= now', called \subseteq called',
         \A u \in Goroutines : run'[u] = run[u] \/ ~Canceling(u)'
  PROVE  Reasons'
<1> DEFINE G == Goroutines
<1>1. CASE \E t \in Goroutines : TRUE
  <2> PICK t \in Goroutines : TRUE
    BY <1>1
  <2> PICK e : e = run[t].why
    OBVIOUS
  <2>1. ASSUME NEW c \in Ctxs, mu'[c] = t \/ (Canceling(t)' /\ c = run'[t].at)
        PROVE  Reason(e, c)'
    <3>1. Canceling(t)'
      BY <2>1 DEF Inv, Locks, Path
    <3>2. run'[t] = run[t] /\ Canceling(t)
      BY <3>1 DEF Canceling
    <3>3. mu[c] = t \/ (Canceling(t) /\ c = run[t].at)
      BY <2>1, <3>2
    <3>4. c \in Made /\ Reason(e, c)
      BY <3>3, CanceledAreMade DEF Reasons
    <3> QED
      BY <3>4, ReasonStays DEF Inv
  <2>2. Canceling(t)' => run'[t].why = e
    BY DEF Canceling
  <2> QED
    BY <2>1, <2>2, ReasonsKept
<1>2. CASE Goroutines = {}
  <2>1. Ctxs = {}
    BY <1>2, Threads
  <2> QED
    BY <1>2, <2>1 DEF Reasons, ReasonsAreTrue, Made
<1> QED
  BY <1>1, <1>2

LEMMA CancelFirstReasons ==
  ASSUME Inv, Inv', Reasons, NEW t \in Goroutines, CancelFirst(t)
  PROVE  Reasons'
<1> DEFINE a == run[t].at
<1> PICK e : e = run[t].why
  OBVIOUS
<1>1. /\ Canceling(t) /\ mu[a] = Free
      /\ err' = [err EXCEPT ![a] = e] /\ mu' = [mu EXCEPT ![a] = t]
      /\ UNCHANGED <<now, parent, deadline, called>>
  BY DEF CancelFirst, Canceling, tree
<1>2. a \in Ctxs /\ a \in Made
  BY <1>1, CancelingAt, CanceledAreMade
<1>3. Moves(t, "loop", a)
  BY <1>2, GotoMoves DEF CancelFirst, Places, Inv, Control
<1>4. /\ mu'[a] = t /\ \A c \in Ctxs \ {a} : mu'[c] = mu[c] /\ err'[c] = err[c]
      /\ err'[a] = e
  BY <1>1, <1>2 DEF Inv, Control, TypeOK
<1>5. now <= now'
  BY <1>1 DEF Inv, Control, TypeOK
<1>6. ASSUME NEW c \in Ctxs, mu[c] = t \/ c = a PROVE Reason(e, c)'
  <2>1. Reason(e, c) /\ c \in Made
    BY <1>1, <1>6, CanceledAreMade DEF Reasons
  <2> QED
    BY <1>1, <1>5, <2>1, ReasonStays DEF Inv
<1>7. \A u \in Goroutines \ {t} : run'[u] = run[u] /\ \A c \in Ctxs : mu'[c] = u => mu[c] = u
  BY <1>3, <1>4, Threads DEF Moves
<1>8. run'[t].why = e /\ run'[t].at = a
  BY <1>3 DEF Moves
<1>9. \A c \in Ctxs : mu'[c] = t \/ (Canceling(t)' /\ c = run'[t].at) => Reason(e, c)'
  BY <1>4, <1>6, <1>8
<1>10. \A c \in Ctxs : err'[c] = err[c] \/ (err'[c] = e /\ Reason(e, c)')
  BY <1>2, <1>4, <1>6
<1> QED
  BY <1>1, <1>5, <1>7, <1>8, <1>9, <1>10, ReasonsKept

LEMMA CancelChildReasons ==
  ASSUME Inv, Inv', Reasons, NEW t \in Goroutines, CancelChild(t)
  PROVE  Reasons'
<1> DEFINE a == run[t].at
<1> PICK e : e = run[t].why
  OBVIOUS
<1>1. PICK k \in children[a] :
        /\ Goto(t, "cancel", k) /\ Canceling(t)
        /\ UNCHANGED <<now, parent, deadline, mu, err, called>>
  BY DEF CancelChild, Canceling, tree
<1>2. a \in Ctxs
  BY <1>1, CancelingAt
<1>3. k \in Derived /\ k \in Made /\ k \in Ctxs /\ Registrar(k) = a
  BY <1>2, Contexts DEF Inv, Control, Grown, Made
<1>4. parent[k] = a /\ a # Background
  BY <1>2, <1>3, Numbers DEF Registrar
<1>5. Moves(t, "cancel", k)
  BY <1>1, <1>3, GotoMoves DEF Places, Inv, Control
<1>6. Reason(e, k)
  <2>1. Reason(e, a)
    BY <1>1, <1>2 DEF Reasons
  <2> QED
    BY <1>3, <1>4, <2>1, ReasonInherited DEF Inv
<1>7. now <= now'
  BY <1>1 DEF Inv, Control, TypeOK
<1>8. ASSUME NEW c \in Ctxs, mu[c] = t \/ c = k PROVE Reason(e, c)'
  <2>1. Reason(e, c) /\ c \in Made
    BY <1>1, <1>3, <1>6, <1>8, CanceledAreMade DEF Reasons
  <2> QED
    BY <1>1, <1>7, <2>1, ReasonStays DEF Inv
<1>9. run'[t].why = e /\ run'[t].at = k /\ \A u \in Goroutines \ {t} : run'[u] = run[u]
  BY <1>5 DEF Moves
<1>10. \A c \in Ctxs : mu'[c] = t \/ (Canceling(t)' /\ c = run'[t].at) => Reason(e, c)'
  BY <1>1, <1>8, <1>9
<1>11. \A u \in Goroutines \ {t} : \A c \in Ctxs : mu'[c] = u => mu[c] = u
  BY <1>1
<1> QED
  BY <1>1, <1>7, <1>9, <1>10, <1>11, ReasonsKept

LEMMA JoinsReasons ==
  ASSUME Inv, Inv', Reasons, NEW t, NEW c, Joins(t, c)
  PROVE  Reasons'
<1>0. /\ t \in Goroutines /\ c \in Ctxs /\ c \in Made
      /\ \A d \in Ctxs \ {c} : err'[d] = err[d]
  BY JoinsFacts
<1>1. /\ t \in Goroutines /\ c \in Ctxs /\ c \in Made
      /\ \A d \in Ctxs \ {c} : err'[d] = err[d]
      /\ UNCHANGED <<now, parent, deadline, mu, called>>
  BY <1>0 DEF Joins
<1>2. \A u \in Goroutines : run'[u] = run[u] \/ ~Canceling(u)'
  <2>1. /\ Task("arm", c, NoErr, FALSE).pc = "arm" /\ Task("watch", c, NoErr, FALSE).pc = "watch"
        /\ Idle.pc = "idle"
    BY DEF Task, Idle
  <2> QED
    BY <2>1 DEF Joins, Canceling
<1>3. now <= now'
  BY <1>1 DEF Inv, Control, TypeOK
<1>4. CASE err' = err
  BY <1>1, <1>2, <1>3, <1>4, IdleReasons
<1>5. CASE err' # err
  <2> PICK p, e : p = Registrar(c) /\ e = err[p]
    OBVIOUS
  <2>1. p # Background /\ err' = [err EXCEPT ![c] = e]
    BY <1>5 DEF Joins
  <2>2. p = parent[c] /\ p \in Ctxs
    BY <1>1, <2>1, Contexts DEF Registrar, Inv, Made
  <2>3. Reason(e, c)
    <3>1. Reason(e, p)
      BY <2>2 DEF Reasons, ReasonsAreTrue
    <3> QED
      BY <1>1, <2>1, <2>2, <3>1, ReasonInherited DEF Inv
  <2>4. Reason(e, c)'
    BY <1>1, <1>3, <2>3, ReasonStays DEF Inv
  <2>5. err'[c] = e
    BY <1>1, <2>1 DEF Inv, Control, TypeOK
  <2>6. ~Canceling(t) /\ ~Canceling(t)'
    BY <1>1, <1>2, JoinsFacts DEF Joins, Canceling
  <2>7. \A d \in Ctxs : mu'[d] # t
    BY <1>1, <2>6 DEF Inv, Locks, Path
  <2> QED
    BY <1>1, <1>2, <1>3, <2>4, <2>5, <2>6, <2>7, ReasonsKept
<1> QED
  BY <1>4, <1>5

LEMMA NewReasons ==
  ASSUME Inv, Inv', Reasons, NEW t \in Makers, NEW c \in Ctxs, NEW p \in ready \cup {Background},
         NEW f \in BOOLEAN, NEW d \in 0..Never, New(t, c, p, f, d)
  PROVE  Reasons'
<1> DEFINE D == IF DeadlineOf(p) < d THEN DeadlineOf(p) ELSE d
<1>1. /\ c \notin Made /\ t \in Goroutines
      /\ parent' = [parent EXCEPT ![c] = p] /\ deadline' = [deadline EXCEPT ![c] = D]
      /\ run' = [run EXCEPT ![t] = Task("register", c, NoErr, FALSE)]
      /\ UNCHANGED <<now, mu, err, called>>
  BY Threads, CtxAssumption DEF New, NextCtx
<1>2. /\ \A x \in Ctxs \ {c} : parent'[x] = parent[x] /\ deadline'[x] = deadline[x]
      /\ parent'[c] = p /\ deadline'[c] = D
  BY <1>1 DEF Inv, Control, TypeOK
<1>3. p \in Ctxs \cup {Background} /\ p # c /\ ready \subseteq Made
  BY <1>1, Contexts, Numbers DEF Inv, Made
<1>4. \A x \in Made : /\ x \in Ctxs /\ x # c /\ parent[x] # c
                      /\ parent'[x] = parent[x] /\ deadline'[x] = deadline[x]
  BY <1>1, <1>2, <1>3, Contexts, Numbers DEF Inv, Made
<1>5. now <= now'
  BY <1>1 DEF Inv, Control, TypeOK
<1>6. \A x \in Ctxs : err[x] # NoErr => x \in Made
  BY Contexts DEF Inv, Control, Grown
<1>7. ReasonsAreTrue'
  <2> SUFFICES ASSUME NEW x \in Ctxs PROVE Reason(err[x], x)'
    BY DEF ReasonsAreTrue
  <2> PICK e : e = err[x]
    OBVIOUS
  <2>1. CASE e = NoErr
    BY <1>1, <2>1 DEF Reason, NoErr
  <2>2. CASE e # NoErr
    <3>1. x \in Made /\ Reason(e, x)
      BY <1>6, <2>2 DEF Reasons, ReasonsAreTrue
    <3>2. Reason(e, x)'
      BY <1>1, <1>4, <1>5, <3>1, ReasonStays DEF Inv
    <3> QED
      BY <1>1, <3>2 DEF Reason
  <2> QED
    BY <2>1, <2>2
<1>8. ASSUME NEW u \in Goroutines, NEW x \in Ctxs, mu'[x] = u \/ (Canceling(u)' /\ x = run'[u].at)
      PROVE  Reason(run[u].why, x)'
  <2> PICK e : e = run[u].why
    OBVIOUS
  <2>1. Canceling(u)'
    BY <1>8 DEF Inv, Locks, Path
  <2>2. u # t
    <3>0. Task("register", c, NoErr, FALSE) \in Activity
      BY Activities
    <3>1. Begins(t, Task("register", c, NoErr, FALSE))
      BY <1>1, <3>0, TaskBegins DEF Inv, Control
    <3>2. Task("register", c, NoErr, FALSE).pc = "register"
      BY DEF Task
    <3> QED
      BY <2>1, <3>1, <3>2 DEF Begins, Canceling
  <2>3. run'[u] = run[u] /\ Canceling(u)
    BY <1>1, <2>1, <2>2 DEF Inv, Control, TypeOK, Canceling
  <2>4. x \in Made /\ Reason(e, x)
    BY <1>1, <1>8, <2>3, CanceledAreMade DEF Reasons
  <2>5. Reason(e, x)'
    BY <1>1, <1>4, <1>5, <2>4, ReasonStays DEF Inv
  <2> QED
    BY <2>3, <2>5 DEF Reason
<1>9. ASSUME NEW x \in Made' PROVE deadline'[x] <= DeadlineOf(parent[x])'
  <2>1. CASE x = c
    <3>1. DeadlineOf(p)' = DeadlineOf(p)
      BY <1>2, <1>3 DEF DeadlineOf
    <3>2. DeadlineOf(p) \in Int
      BY <1>3, Numbers DEF DeadlineOf, Never, Inv, Control, TypeOK
    <3>3. d \in Int
      BY Numbers DEF Never
    <3>4. D <= DeadlineOf(p)
      BY <3>2, <3>3
    <3> QED
      BY <1>2, <2>1, <3>1, <3>4 DEF DeadlineOf
  <2>2. CASE x # c
    <3>1. x \in Made
      BY <1>2, <2>2 DEF Made
    <3>2. DeadlineOf(parent[x])' = DeadlineOf(parent[x])
      BY <1>2, <1>4, <3>1, Contexts DEF DeadlineOf, Inv
    <3> QED
      BY <1>4, <3>1, <3>2 DEF Reasons
  <2> QED
    BY <2>1, <2>2
<1> QED
  BY <1>7, <1>8, <1>9 DEF Reasons

LEMMA InitReasons == Init => Reasons
<1> SUFFICES ASSUME Init PROVE Reasons
  OBVIOUS
<1>1. /\ \A t \in Goroutines : run[t].pc = "idle"
      /\ \A c \in Ctxs : mu[c] = Free /\ err[c] = NoErr
      /\ Made = {}
  BY Activities DEF Init, Made
<1> QED
  BY <1>1, Threads DEF Reasons, ReasonsAreTrue, Reason, NoErr, Canceling

LEMMA NextReasons == Inv /\ Reasons /\ [Next]_vars => Reasons'
<1> SUFFICES ASSUME Inv, Reasons, [Next]_vars PROVE Reasons'
  OBVIOUS
<1>0. Inv'
  BY NextInv
<1>1. CASE \E t \in Makers, c \in Ctxs, p \in ready \cup {Background}, f \in BOOLEAN,
              d \in 0..Never : New(t, c, p, f, d)
  BY <1>0, <1>1, NewReasons
<1>2. ASSUME NEW t \in Callers, Make(t) PROVE Reasons'
  <2>0. t \in Goroutines
    BY Threads
  <2>1. CASE RegisterNowhere(t) \/ Register(t) \/ RegisterForeign(t)
    BY <1>0, <2>1, RegisterJoins, JoinsReasons
  <2>2. CASE ArmLate(t)
    <3> PICK c : c = run[t].at
      OBVIOUS
    <3>1. c \in Derived /\ run[t].pc = "arm"
      BY <2>0, <2>2 DEF ArmLate, Inv, Control, Tasks, OnTask
    <3>2. Reason("DeadlineExceeded", c)
      BY <2>2 DEF ArmLate, Reason
    <3>3. StartsOrStops(t, Task("cancel", c, "DeadlineExceeded", TRUE))
      BY <2>2, <3>1 DEF ArmLate, StartsOrStops, Errs, tree
    <3> QED
      BY <1>0, <2>0, <2>2, <3>1, <3>2, <3>3, StartReasons DEF ArmLate
  <2>3. CASE Arm(t)
    <3>1. Begins(t, Idle) /\ UNCHANGED <<parent, deadline, mu, err, now, called>>
      BY <2>0, <2>3, Activities, TaskBegins DEF Arm, Inv, Control
    <3>2. \A u \in Goroutines : run'[u] = run[u] \/ ~Canceling(u)'
      BY <3>1, Activities DEF Begins, Canceling
    <3>3. now <= now'
      BY <3>1 DEF Inv, Control, TypeOK
    <3> QED
      BY <1>0, <3>1, <3>2, <3>3, IdleReasons
  <2> QED
    BY <1>2, <2>1, <2>2, <2>3 DEF Make
<1>3. ASSUME NEW t \in Callers, NEW c \in Ctxs, CallCancel(t, c) PROVE Reasons'
  <2>1. t \in Goroutines /\ c \in Derived /\ c \in Made
    BY <1>3, Threads, Contexts DEF CallCancel, Inv
  <2>2. StartsOrStops(t, Task("cancel", c, "Canceled", TRUE))
    BY <1>3, <2>1, Activities DEF CallCancel, StartsOrStops, Errs, tree
  <2> DEFINE r == Task("cancel", c, "Canceled", TRUE)
  <2>3. /\ Begins(t, r) /\ ~Canceling(t)
        /\ UNCHANGED <<now, parent, deadline, mu, err>> /\ called' = called \cup {c}
    BY <1>3, <2>1, <2>2, StartFacts DEF StartsOrStops, CallCancel
  <2>4. r.at = c /\ r.why = "Canceled"
    BY DEF Task
  <2>5. run'[t] = r /\ \A u \in Goroutines \ {t} : run'[u] = run[u]
    BY <2>3 DEF Begins
  <2>6. Reason("Canceled", c)'
    <3>1. c \in Line(c)'
      BY DEF Line
    <3> QED
      BY <2>3, <3>1 DEF Reason
  <2>7. now <= now'
    BY <2>3 DEF Inv, Control, TypeOK
  <2>8. \A d \in Ctxs : mu'[d] # t
    BY <2>1, <2>3 DEF Inv, Locks, Path
  <2> HIDE DEF r
  <2>9. /\ Canceling(t)' => run'[t].why = "Canceled"
        /\ \A d \in Ctxs : mu'[d] = t \/ (Canceling(t)' /\ d = run'[t].at)
                             => Reason("Canceled", d)'
    BY <2>4, <2>5, <2>6, <2>8
  <2>10. \A u \in Goroutines \ {t} : \A d \in Ctxs : mu'[d] = u => mu[d] = u
    BY <2>3
  <2> QED
    BY <1>0, <2>1, <2>3, <2>5, <2>7, <2>9, <2>10, ReasonsKept
<1>4. ASSUME NEW c \in Ctxs, Fire(c) \/ WatchParent(c) \/ WatchChild(c) PROVE Reasons'
  <2>1. CASE Fire(c)
    <3>1. c \in Derived /\ Timer(c) \in Goroutines /\ run[Timer(c)] = Idle
      BY <2>1, Threads, Contexts DEF Fire, Inv, Control, Grown
    <3>2. Reason("DeadlineExceeded", c)
      BY <2>1 DEF Fire, Reason
    <3>3. StartsOrStops(Timer(c), Task("cancel", c, "DeadlineExceeded", TRUE))
      BY <2>1, <3>1, Activities DEF Fire, StartsOrStops, Errs, tree
    <3> QED
      BY <1>0, <2>1, <3>1, <3>2, <3>3, StartReasons DEF Fire
  <2>2. CASE WatchParent(c)
    <3> PICK p, e : p = parent[c] /\ e = err[p]
      OBVIOUS
    <3>1. Watcher(c) \in Goroutines /\ c \in Derived \cap foreign
      <4>1. PICK d \in Derived \cap foreign : Watcher(c) = Watcher(d)
        BY <2>2, Threads DEF WatchParent, Inv, Control, Tasks, OnTask
      <4> QED
        BY <4>1, Threads DEF Derived, Made
    <3>2. c \in Made /\ p \in Ctxs /\ p # Background
      BY <3>1, Contexts DEF Inv, Control, Grown
    <3>3. e \in Errs
      BY <2>2, <3>2 DEF WatchParent, Inv, Control, TypeOK
    <3>4. Reason(e, c)
      <4>1. Reason(e, p)
        BY <3>2 DEF Reasons, ReasonsAreTrue
      <4> QED
        BY <3>2, <4>1, ReasonInherited DEF Inv
    <3>5. StartsOrStops(Watcher(c), Task("cancel", c, e, FALSE))
      BY <2>2, <3>1, <3>3 DEF WatchParent, StartsOrStops, tree
    <3> QED
      BY <1>0, <2>2, <3>1, <3>4, <3>5, StartReasons DEF WatchParent
  <2>3. CASE WatchChild(c)
    <3>1. Watcher(c) \in Goroutines
      BY Threads
    <3>2. Begins(Watcher(c), Idle) /\ UNCHANGED <<parent, deadline, mu, err, now, called>>
      BY <2>3, <3>1, Activities, TaskBegins DEF WatchChild, tree, Inv, Control
    <3>3. \A u \in Goroutines : run'[u] = run[u] \/ ~Canceling(u)'
      BY <3>2, Activities DEF Begins, Canceling
    <3>4. now <= now'
      BY <3>2 DEF Inv, Control, TypeOK
    <3> QED
      BY <1>0, <3>2, <3>3, <3>4, IdleReasons
  <2> QED
    BY <1>4, <2>1, <2>2, <2>3
<1>5. ASSUME NEW t \in Goroutines, Cancel(t) PROVE Reasons'
  <2>1. CASE CancelAgain(t)
    BY <1>0, <2>1, CancelAgainInv, LeavesReasons DEF CancelAgain
  <2>2. CASE CancelFirst(t)
    BY <1>0, <2>2, CancelFirstReasons
  <2>3. CASE CancelChild(t)
    BY <1>0, <2>3, CancelChildReasons
  <2>4. CASE CancelEnd(t)
    BY <1>0, <2>4, CancelEndInv, LeavesReasons DEF CancelEnd
  <2>5. CASE Remove(t)
    BY <1>0, <2>5, RemoveInv, LeavesReasons DEF Remove
  <2>6. CASE Stop(t)
    BY <1>0, <2>6, StopInv, LeavesReasons DEF Stop
  <2> QED
    BY <1>5, <2>1, <2>2, <2>3, <2>4, <2>5, <2>6 DEF Cancel
<1>6. CASE Tick \/ UNCHANGED vars
  <2>1. UNCHANGED <<parent, deadline, mu, err, called, run>>
    BY <1>6 DEF Tick, vars, tree
  <2>2. now <= now'
    BY <1>6 DEF Tick, vars, Inv, Control, TypeOK
  <2> QED
    BY <1>0, <2>1, <2>2, IdleReasons
<1> QED
  BY <1>1, <1>2, <1>3, <1>4, <1>5, <1>6 DEF Next

\* Whoever reads a context's error reads what is true of it: DeadlineExceeded only past a
\* deadline of its own or of a context above it, Canceled only if its CancelFunc, or that of
\* a context above it, was called; through any depth of tree, also past parents of a
\* foreign type (context.go:205-251, 319-355).
THEOREM ReasonsStayTrue == Spec => []ReasonsAreTrue
<1>1. Reasons => ReasonsAreTrue
  BY DEF Reasons
<1>2. Init => Inv /\ Reasons
  BY InitInv, InitReasons
<1>3. Inv /\ Reasons /\ [Next]_vars => (Inv /\ Reasons)'
  BY NextInv, NextReasons
<1> QED
  BY <1>1, <1>2, <1>3, PTL DEF Spec

\* The locks that a goroutine holds are above where it is, which is where it wants one.
LEMMA PathsGoDown == Inv => LocksGoDown
<1> SUFFICES ASSUME Inv, NEW t \in Goroutines, NEW c \in Ctxs, mu[c] = t
             PROVE  \/ run[t].pc = "loop"
                    \/ run[t].pc \in {"cancel", "stop"} /\ c < run[t].at
  BY DEF LocksGoDown
<1>1. /\ Canceling(t) /\ c <= run[t].at /\ c \in Nat
      /\ c = run[t].at => run[t].pc = "loop"
  BY Numbers DEF Inv, Locks, Path
<1>2. run[t].at \in Ctxs /\ run[t].at \in Nat
  BY <1>1, CancelingAt, Numbers
<1>3. run[t].pc # "remove"
  <2> SUFFICES ASSUME run[t].pc = "remove" PROVE FALSE
    OBVIOUS
  <2>1. run[t].at = run[t].root /\ c # run[t].at
    BY <1>1 DEF Inv, Control, Tasks, OnTask
  <2> QED
    BY <1>1, <1>2, <2>1 DEF Inv, Locks, Path
<1> QED
  BY <1>1, <1>2, <1>3 DEF Canceling

\* Of the locks that are held, one is the furthest down.
LEMMA Largest ==
  ASSUME NEW T \in SUBSET Ctxs, T # {}
  PROVE  \E m \in T : \A c \in T : c <= m
<1> DEFINE D == {NumCtx - c : c \in T}
<1>1. \A c \in T : NumCtx - c \in Nat /\ c \in Nat /\ NumCtx \in Nat
  BY Numbers DEF Ctxs
<1>2. D \subseteq Nat /\ D # {}
  BY <1>1
<1>3. PICK d \in D : \A e \in D : ~ (<<e, d>> \in OpToRel(<, Nat))
  BY <1>2, WFMin, NatLessThanWellFounded
<1>4. \A e \in D : ~(e < d)
  BY <1>2, <1>3 DEF OpToRel
<1>5. PICK m \in T : d = NumCtx - m
  BY <1>3
<1>6. ASSUME NEW c \in T PROVE c <= m
  <2>1. ~(NumCtx - c < NumCtx - m)
    BY <1>4, <1>5
  <2> QED
    BY <2>1, <1>1
<1> QED
  BY <1>6

\* Of goroutines that wait for each other, the one that holds the lock furthest down wants
\* one that is further down still.
LEMMA NoCircle == Inv /\ LocksGoDown => NobodyWaitsInACircle
<1> SUFFICES ASSUME Inv, LocksGoDown, NEW S \in SUBSET Goroutines, S # {},
                    \A t \in S : Wanted(t) # Background /\ mu[Wanted(t)] \in S
             PROVE  FALSE
  BY DEF NobodyWaitsInACircle
<1> DEFINE Held == {c \in Ctxs : mu[c] \in S}
<1>1. \A t \in S : Wanted(t) \in Ctxs
  <2> SUFFICES ASSUME NEW t \in S PROVE Wanted(t) \in Ctxs
    OBVIOUS
  <2>1. run[t] \in Activity /\ t \in Goroutines
    BY DEF Inv, Control, TypeOK
  <2>2. run[t].at \in Ctxs \cup {Background}
    BY <2>1 DEF Activity
  <2>3. run[t].at = Background => run[t].pc \notin {"register", "remove", "watch"}
    BY <2>1, Numbers, CancelingAt DEF Inv, Control, Tasks, OnTask, Making, Made, Canceling, Derived
  <2>4. run[t].at \in Ctxs =>
          /\ Registrar(run[t].at) \in Ctxs \cup {Background}
          /\ parent[run[t].at] \in Ctxs \cup {Background}
    BY DEF Registrar, Inv, Control, TypeOK
  <2> QED
    BY <2>2, <2>3, <2>4 DEF Wanted
<1>2. Held \in SUBSET Ctxs /\ Held # {}
  BY <1>1
<1>3. PICK c \in Held : \A d \in Held : d <= c
  BY <1>2, Largest
<1>4. PICK t \in S : mu[c] = t
  BY <1>3
<1>5. Wanted(t) \in Held
  BY <1>1, <1>4
<1>6. run[t].pc # "loop"
  BY <1>4 DEF Wanted
<1>7. run[t].pc \in {"cancel", "stop"} /\ c < run[t].at
  BY <1>3, <1>4, <1>6 DEF LocksGoDown
<1>8. Wanted(t) = run[t].at
  BY <1>7 DEF Wanted
<1>9. c \in Nat /\ run[t].at \in Nat /\ run[t].at <= c
  BY <1>3, <1>5, <1>8, Numbers
<1> QED
  BY <1>7, <1>9

\* A goroutine of the tree waits for a lock only further down than those it holds, or
\* for any when it holds none (context.go:329-337).
THEOREM CtxLocksGoDown == Spec => []LocksGoDown
  BY PathsGoDown, InitInv, NextInv, PTL DEF Spec

\* The tree has no deadlock: of any goroutines, however many make, cancel and watch
\* contexts at once, one waits for nobody among them, so that a cancel that holds the locks
\* of a whole path is never waited for by what it waits for (context.go:226-251, 319-340).
THEOREM CtxHasNoDeadlock == Spec => []NobodyWaitsInACircle
  BY PathsGoDown, NoCircle, InitInv, NextInv, PTL DEF Spec

-----------------------------------------------------------------------------
(* What is finished only shrinks.                                          *)

\* Children come to live contexts, and errors to those that have none.
LEMMA ShrinkStep ==
  ASSUME Inv, [Next]_vars, NEW c \in Ctxs, err[c] # NoErr
  PROVE  err'[c] = err[c] /\ children'[c] \subseteq children[c]
<1>1. TypeOK /\ c \in Derived
  BY DEF Inv, Control, Grown
<1>2. ASSUME NEW t \in Callers, Register(t) PROVE err'[c] = err[c] /\ children'[c] \subseteq children[c]
  <2>1. run[t].at \in Made /\ run[t].at # c
    BY <1>1, <1>2, Threads DEF Register, Making, Derived, Inv, Control, Tasks, OnTask
  <2> QED
    BY <1>1, <1>2, <2>1 DEF Register, TypeOK, Made
<1>3. ASSUME NEW t \in Callers,
             RegisterNowhere(t) \/ RegisterForeign(t) \/ ArmLate(t) \/ Arm(t)
      PROVE  UNCHANGED <<err, children>>
  BY <1>3 DEF RegisterNowhere, RegisterForeign, ArmLate, Arm
<1>4. ASSUME NEW t \in Callers, Make(t) PROVE err'[c] = err[c] /\ children'[c] \subseteq children[c]
  BY <1>2, <1>3, <1>4 DEF Make
<1>5. ASSUME NEW t \in Goroutines, Cancel(t)
      PROVE  err'[c] = err[c] /\ children'[c] \subseteq children[c]
  <2>1. CASE CancelAgain(t) \/ CancelEnd(t) \/ Stop(t)
    BY <2>1 DEF CancelAgain, CancelEnd, Stop
  <2>2. CASE CancelFirst(t)
    BY <1>1, <2>2 DEF CancelFirst, TypeOK
  <2>3. CASE CancelChild(t) \/ Remove(t)
    BY <1>1, <2>3 DEF CancelChild, Remove, TypeOK
  <2> QED
    BY <1>5, <2>1, <2>2, <2>3 DEF Cancel
<1>6. ASSUME NEW t \in Callers, NEW d \in Ctxs, CallCancel(t, d) PROVE UNCHANGED <<err, children>>
  BY <1>6 DEF CallCancel
<1>7. ASSUME NEW d \in Ctxs, Fire(d) \/ WatchParent(d) \/ WatchChild(d)
      PROVE  UNCHANGED <<err, children>>
  BY <1>7 DEF Fire, WatchParent, WatchChild
<1>8. ASSUME \E t \in Makers, d \in Ctxs, p \in ready \cup {Background}, f \in BOOLEAN, u \in 0..Never :
                 New(t, d, p, f, u)
      PROVE  UNCHANGED <<err, children>>
  BY <1>8 DEF New
<1>9. CASE Tick \/ UNCHANGED vars
  BY <1>9 DEF Tick, vars
<1> QED
  BY <1>4, <1>5, <1>6, <1>7, <1>8, <1>9 DEF Next

\* A context that is being finished gets no more children, so that the walk over them ends,
\* and no second reason (context.go:231-241, 324-340).
THEOREM CancelsShrink == Spec => FinishedOnlyShrink
<1>1. Inv /\ [Next]_vars =>
        [\A c \in Ctxs :
           err[c] # NoErr => err'[c] = err[c] /\ children'[c] \subseteq children[c]]_vars
  BY ShrinkStep
<1> QED
  BY <1>1, InitInv, NextInv, PTL DEF Spec, FinishedOnlyShrink
=============================================================================
