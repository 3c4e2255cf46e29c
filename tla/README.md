# joak in TLA+

joak serves shared, short-lived entities (games, rooms) over HTTP: clients create an
entity, join it, poll it, act on it and leave it.  This directory has a TLA+ model of the
whole path of a request, from App Engine's own HTTP handler through oak's handlers down to
memcache, the runs in which TLC checks it, and theorems about it that TLAPS checks.

The repository vendors its own libraries below `Godeps/_workspace/src`; paths below are
shortened to their last parts (`oak.go`, `sus.go`, `get.go` of nds, `context.go` of
x/net/context, `api.go` and `net.go` of appengine/internal).

## The system

| component | state | operations | hard because |
|---|---|---|---|
| **oak** (`oak.go`) | none of its own: the session is in the client's cookie, the entity in the store | handlers create, join, poll, act, leave | each request has a goroutine; an entity is read in one store call and updated in another; cookies arrive late, not at all, or in another order; the answer of a failed join looks like that of a join |
| **joak** (`joak.go`) | the time of the last clear-out of each kind, under a mutex | entityStore's Create, Read, Update, each of which starts a clearOut | a clear-out queries, then deletes what it found a while ago |
| **sus** (`sus.go`, `mutex_byte.go`, `memory.go`, `file.go`) | entities as bytes, one mutex | CreateMulti, ReadMulti, UpdateMulti, DeleteMulti | several entities per call; failures half way through a loop; versions are incremented on the caller's own entities before they are stored |
| **gus** (`gus.go`) | none: entities are in the datastore | the primitives of sus over nds | the transaction's context is not used |
| **nds** (`get.go`, `put.go`, `delete.go`, `transaction.go`) | memcache items beside datastore entities | GetMulti, PutMulti, DeleteMulti, RunInTransaction | every RPC interleaves with those of other instances; locks expire; items are evicted; instances stop; writes are applied late |
| **x/net/context** (`context.go`) | a tree of contexts, each with a lock, an error, children and perhaps a timer | WithCancel, WithDeadline, WithTimeout, CancelFuncs | a cancel goes down the tree and keeps every lock above it, while others derive contexts, cancel them, and timers fire |
| **appengine/internal** (`api.go`, `net.go`) | for a request its pending log lines and flush count; a semaphore for connections | handleHTTP, logFlusher, flushLog, Call, post, limitDial | three goroutines share the lines of a request; answers come after the timer; connections are closed twice |
| **appengine/datastore** (`transaction.go`) | none | RunInTransaction | a commit that meets a conflict runs the caller's function again |
| **sid** | none | Uuid | |

oak calls an EntityStore, which is joak's entityStore.  For local tests
(`RouteLocalTest`) it wraps sus's memory store; on App Engine (`RouteGaeProd`) it wraps
gus, which is sus's `store` with primitives of nds.  nds calls the datastore and memcache.
Each of these calls is made with a context and sent by Call in appengine/internal, which
takes its timeout from the context's deadline; the same package serves the request itself
and collects what it logs.  Deadlines and cancels come from whoever derives a context with
x/net/context: the application, or urlfetch's transport.  The application also supplies
the entity itself (`oak.Entity`) and what an act does.

What makes each correct:

- **sus**: updates are sequential (an update replaces exactly the state it was made
  from), multi-entity operations are atomic, a refused update changes nothing, every call
  returns.
- **nds**: the cache never makes a read stale.
- **gus and joak**: what sus promises, and no entity is cleared out while clients use it.
- **oak**: an answered act is in the entity and a refused one is not, a seat belongs to
  one client, nobody who left comes back, what clients are told is what is stored, every
  request is answered.
- **x/net/context**: who sees a context finished sees everything below it finished, for
  good; nothing finished keeps a timer or a place in its parent; no lock is waited for for
  ever.
- **appengine/internal**: no log line is lost or overtaken, the response tells how many
  flushes to wait for, every place for a connection is given back once, every response is sent.

## Modules

    SequentialStore <--implements-- SusStore    (under NothingFailsHalfWay: theorem)
       ^     ^                         ^
       |     |                         | one step per call
       |     +---------implements---- Oak       (theorem)
       |
       +---implements-- GaeStore                (until puts overlap: theorem)
                           |
                           | one step per call
                          Nds

    CtxTree <--implements-- Ctx                 (theorem)

    Api                                         (beside them: serves the requests)

| module | what it is |
|---|---|
| `SequentialStore` | the abstract store of package sus: create, update and delete sets of entities atomically |
| `SusStore`, `SusProps`, `SusProofs` | sus over the mutex byte store, its properties, their proofs |
| `Nds`, `NdsProps`, `NdsProofs` | nds with memcache and the datastore, RPC by RPC; properties; proofs |
| `GaeStore`, `GaeProps`, `GaeProofs` | joak's entityStore and clearOut over gus and datastore.RunInTransaction; properties; proofs |
| `Oak`, `OakProps`, `OakProofs` | the five handlers, their clients and cookies, and an atomic store; properties, among them that the handlers change the store as `SequentialStore` does; proofs |
| `CtxTree` | the abstract tree of contexts: one is derived, or finished when all below it is |
| `Ctx`, `CtxProps`, `CtxProofs` | x/net/context, lock by lock; properties; proofs |
| `Api`, `ApiProps`, `ApiProofs` | an instance's requests with their log lines, flushers, API calls and connections; properties; proofs |
| `MCSus`, `MCNds`, `MCGae`, `MCOak`, `MCCtx`, `MCApi` | model values, symmetry and constants for TLC |

Definitions whose comment begins with "Mutant:" are in no specification.  Each is an
operator of the module with a plausible mistake, and shows that the property named for it
in `PROJECT.json` is able to fail.

### SusStore

`data` is the back end (memory.go's map, file.go's directory); `mtx` the mutex; for a
caller, `held` are the entities it has pointers to and that UpdateMulti changes in place,
`old` what getMulti read, `todo` the part of the batch the present loop has still to
visit.  An entity is its version and the set of callers whose change is in it (`marks`),
which is all that telling a lost update from a kept one takes.  One action is one round of
a loop: `Get`, `CheckMatch`, `CheckMismatch` (with the roll-back of the decrement loop),
`Put`, `Del`, and their failures; `Lock` and `Return` are runInTransaction.  A batch is a
set, so every loop takes its ids in any order, as the caller's slice may.

### Nds

One key.  `mc` is the item under it: nothing, a lock and its maker, or a cached read and
its value (the code's noneItem is a cached read of `Gone`).  A value is the call that
wrote it, and a CAS id is the call that stored the item, for a call stores and writes
once.  One action is one RPC: `LoadHit`/`LoadOther` (loadMemcache), `AddLock`,
`CheckHit`/`CheckOther` (lockMemcache's Add and second Get), `DsGet` (loadDatastore),
`Save` (saveMemcache); `SetLock`, `DsWrite`, `Unlock` (putMulti; a delete and a
transaction do not unlock).  `LateWrite` is a write that takes effect after its error,
which memcacheLockTime is there for.  `LockValue` has the lock bytes that each call draws.
`seen` is history: what the datastore held since the get was called.

### GaeStore

`db` is the datastore, read and written in single steps, `clock` the time, `last` the time
in kindToLastClearOutMap.  A request reads an entity (`Read`), changes its copy and calls
Update (`CallUpdate`, which sets DeleteAfter), which reads and compares (`Check`) and
writes (`Put`).  That `Check` and `Put` are two steps is what gus.go:52-56 makes of the
transaction, which is empty when it is committed (`Commit`).  A commit that meets a
conflict after all makes datastore.RunInTransaction call sus's function again, up to three
times (`Conflict`, `Attempts`), although its writes are stored: an update then finds the
version that it has stored itself and stores the next one, a create makes a second entity.

A sweeper is a goroutine in clearOut, which every Create, Read and Update starts beside
itself, so that nothing orders it with requests: `Enter` locks joak's mutex and compares
the times, `Sweep` sets the time and unlocks it, `Query` and `Delete` are the RPCs after
that.  A DeleteMulti that fails has deleted any part of the keys (`DeleteFails`).  When the
time has not come clearOut changes nothing.

Requests and clear-outs overlap in every way.  Histories say what became of it: `found[p]`
is the entity that the copy was compared with; `overlapped` are the ids of which a put has
replaced something else than that; `renewed[s]` are the keys of a clear-out that were put
after its query; `touched[i]` is when the stored state of an entity was asked for.

That each call of nds is a step here is justified by `Nds` only for the uses its runs and
theorems name; gets that answer in the middle of a write may be stale by that write.

### Oak

`db` is the entity store, whose Create, Read and Update are steps: for the memory store
this is `SusImplementsSequentialStore`.  `cookie[c]` is the session that client `c` would
send; `sess`, `id`, `entity` and `tries` are the locals of the handler that worker `w`
runs.  A handler's steps end where it calls the store: `Fetch`/`FetchKicked` is
fetchEntity's Read and Kick, `KickSaved`/`KickRetry`/`KickFails` its Update, and the body
of each handler ends with its own Update (`JoinSaved`, `JoinRefused`, `ActSaved`,
`LeaveSaved`, `NotSaved`).  `Deliver` brings the answer and its cookie to the client,
`Lose` loses them.  The application's Entity is external: it may refuse anything, may end
at a kick or an act, and hands out any user id that it has not handed out before.  The
model takes an entity to be its version, its users, those who are still there, the acts
performed and whether it is active.

### Ctx

A step runs from one lock to the next.  `mu`, `err`, `children` are the fields of
cancelCtx, `armed` the timers that have neither fired nor been stopped, `parent`,
`foreign`, `timed` and `deadline` what a context was made from.  `run[t]` is what a
goroutine does: the context it works on (`at`), the one it began with (`root`), the error
it brings (`why`), and whether the root is to be taken out of its parent (`up`).  cancel is
recursive in the code and needs no stack here: where it returns to from a child is where
the child is registered (`Registrar`).  `New`, `Register`, `RegisterNowhere`,
`RegisterForeign` and `Arm`/`ArmLate` are newCancelCtx, propagateCancel and WithDeadline;
`CancelFirst`, `CancelAgain`, `CancelChild`, `CancelEnd`, `Remove` and `Stop` are the two
cancel methods.  `Fire` is the timer's goroutine, `WatchParent`/`WatchChild` the goroutine
that waits for a parent of a type that the package does not know.  Values are looked
through by every operation and are left out.

### Api

`pc[g]` has three goroutines for a request: the handler (handleHTTP with the application in
it), the flusher (logFlusher), and the one that handleHTTP starts for the last flush.
`pending` and `flushes` are the fields of pendingLogs, `batch[g]` the lines that a flushLog
has taken and not yet sent, `received` what the log service has; lines are numbered in the
order they are logged.  `Grab`, `Marshal`, the call, and `Rescue` are the parts of flushLog
between which others run.  `Stop` is the unbuffered channel of handleHTTP, `Count` its
announcement of the number of flushes.  An API call, of a handler or a flush, gets an idle
connection (`Send`) or waits for one to be dialed; `Answer`, `NoAnswer` and `LateAnswer` end
it.  `sem` is limitSem and `link[k]` the state of a connection.  limitConn.Close is two steps:
`Close` (or `Release`, when the transport does not keep the connection of a call) gives the
place back and `Closed` closes the net.Conn (net.go:58-59); a second `Close` does nothing.  The service bridge, the log service and the transport's pool
of idle connections are external.  A transport may dial for a call that is over by the time
that it has the connection (`Dial`).

## Runs

| run | bounds | checks |
|---|---|---|
| `MCSus` | 2 callers, 2 entities, versions to 2, reads may fail | type, `VersionIdentifiesState`, `RefusedUpdateKeepsVersions`, `AcceptedUpdateIsStored`, `NoLostUpdate`, `ImplementsSequentialStore` |
| `MCSusFaults` | 2 callers, 1 entity, versions to 3, every primitive may fail, fair | `NoResurrection`, `EveryCallReturns` |
| `MCNdsPuts` | 4 calls, overlapping puts, evictions, failing reads and locks | type, `CacheCoherent`, `NoStaleRead` |
| `MCNdsSerial` | 4 calls, all kinds of write, one at a time, every failure but eviction | `CacheCoherent`, `FreshRead`, `NoStolenLock` |
| `MCOak` | 2 clients, 2 workers, 1 entity, 2 users, 1 act, versions to 2; lost answers, unsaved and expired cookies, cleared-out entities | type, `AnsweredActs`, `SeatsAreDistinct`, `TellsTheStored`, `NobodyComesBack`, `ImplementsSequentialStore` |
| `MCOakOrderly` | the same with 2 entities, clients that wait for answers, a failing store | `EngagedIsRegistered`, `EveryRequestIsAnswered` |
| `MCGae` | 2 requests, 2 sweepers, 2 entities, versions to 1, time to 2, every RPC may fail and every commit meet a conflict, all of them overlap | type, `EntityLivesItsTime`, `ClearOutsAreApart`, `ImplementsSequentialStore` |
| `MCCtx` | 2 goroutines, one of which makes 3 contexts, of which 1 has a deadline or a foreign parent; time to 1, fair | type, `ChildrenAreTheLive`, `TimersAreStopped`, `ReasonsAreTrue`, `ImplementsCtxTree`, `TheDoomedFinish`, `EveryCallReturns` |
| `MCApi` | 2 requests, 2 connections and 1 place for them, batches of 1 line, 2 lines, 1 ticker's flush, 1 call of the application, every failure, fair | type, `NoLineIsLost`, `LinesKeepTheirOrder`, `OneFlushAtATime`, `HeaderCountsFlushes`, `LimitHolds`, `EveryRequestIsAnswered` |
| `MCSusLost` | `MCSusFaults` with failing puts only | refutes `NoLostUpdate` |
| `MCNdsOverlap` | puts and deletes overlap, nothing fails | refutes `NoStaleRead` |
| `MCGaeLost` | 2 requests, 1 entity, versions to 2, the clock stands, nothing fails | refutes `NoLostUpdate` of `GaeProps` |

Two callers and two entities are what a batch that is refused half way, and an update
between another's steps, take; what holds of sus is proved for any number.  Four calls of
nds are a get, two writes and the get that notices.  Two workers suffice for every pair of
handlers to interleave, and two clients for each to be the other's stranger.  Versions to
2 let a copy be two updates behind.  `DeleteAfter` and
`ClearOutAfter` are 1, so that in one tick of the clock an entity becomes due, is found,
extended, and cleared out too early, and the next clear-out may begin while one is under
way; with versions to 1 a commit that is tried again stores versions 2 and 3.
Three contexts are the least for a cancel to be in a grandchild with two locks held while
others want them, and for siblings; either goroutine, a timer and a watcher may be at work
at the same time.  Two lines and batches of one make the ticker's flush leave a line to the
last flush, fail, and put its own back before it; with one place for connections, each
flush or call of one request waits for those of the other.
The bounds in the modules are `MaxVersion` (SusStore, GaeStore: no update of an entity of
that version is called; Oak: the Entity refuses to change), `MaxTime`, and that a create
is called only while there is an id for it; `NumCtx`, `Makers`, `MaxOdd` and `MaxTime`
(Ctx); `MaxLines`, `MaxFlushes` and `MaxCalls` (Api: no more is logged, started by a ticker
or called).  The calls of `Nds` are made once each, so its
runs end and have CHECK_DEADLOCK FALSE.

### What the violations show

- **`MCSusLost`**: a put fails after UpdateMulti incremented the caller's version; nobody
  decrements it (sus.go:141-148).  When another caller has brought the store to that
  version, the first caller's next update is accepted and drops a change that it never
  saw.
- **`MCNdsOverlap`**: a put ends by deleting the item under the key, also when it is the
  lock of a delete that is still to write (put.go:83).  A get caches in between, and the
  cache has the deleted entity from then on.
- **`MCGaeLost`**: gus runs reads and writes outside the transaction it opens
  (gus.go:52-56); two updates of one version both succeed.

### What a clear-out does to an update beside it

clearOut deletes the keys that its query found, whatever has become of the entities since
(joak.go:48-60), and each Update starts a clearOut beside itself (joak.go:106).  So an
entity that clients use may go before its time.  `EntityLivesItsTime` says that this is the
only way; without its second line TLC refutes it in `MCGae`'s bounds:

1. an entity is created at time 1, due at 2, and a request reads it;
2. a clear-out begins, and the time becomes 2;
3. the request calls Update, which sets the copy's DeleteAfter to 3 and finds the version
   that it has (`CallUpdate`, `Check`);
4. the clear-out's query finds the entity, whose stored DeleteAfter is 2 (`Query`);
5. the copy is put, and the entity is due at 3 (`Put`);
6. the clear-out deletes it at time 2 (`Delete`).  The update has succeeded, and its state is
   gone at once.

When the query and the delete both fall between `Check` and `Put`, the put brings the
cleared-out entity back: such a put has replaced nothing, and the entity is in `overlapped`.
No document says how long an entity lives, so that there is no run that expects this
violation.

### One connection more than the limit

net.go:7 calls the dialer one "that limits the number of concurrent connections".
limitConn.Close gives its place back before it closes the net.Conn (net.go:58-59), and a
dial that waits for the place (net.go:31) may have its connection first.  `LimitHolds`
therefore counts the places: one for each connection that is being dialed or that nobody
has begun to close.  That no more than `Limit` connections are open,
`Cardinality({k \in Conns : link[k] \in {"idle", "busy", "closing"}}) <= Limit`, is refuted by TLC in `MCApi`'s
bounds: the one connection is `"closing"` and its successor is already dialed.

### Other uses of nds for which TLC refutes its promise

They have the same consequence and no run of their own.  Put `Faults` and `Kinds` as
given into a copy of the configurations: overlapping puts of which one stops, or whose
write fails or unlocking fails (`{"put"}` with `crash`, `dswrite` or `mcdelete`, `Serial`
FALSE); a delete or a transaction whose lock is evicted before its write (`evict`,
`Serial` TRUE); a put whose lock is evicted and whose unlocking fails (`evict` and
`mcdelete`, `Serial` TRUE).  `PutsOnly` and `SerialWrites` in `NdsProps` name what is left.

Lock bytes come from an unseeded generator (nds.go:73), so that two instances may draw the
same ones.  `LockValue <- MCSameLocks` in `MCNdsSerial` says so, with no `Faults`: a get
takes a writer's lock for its own and replaces it by what it has read.

### What a failing store does to join

join answers with its copy of the entity whatever became of the update.  After a refused
update the copy is older than the stored entity, and the client's next poll puts it right
(`TellsTheStored`, in `MCOak`).  When the store fails to read inside Update, the copy has
the stored version and a user that is not stored, and polls find nothing new; `MCOak` has
no failing store, and `TellsTheStored` does not hold with one (`JoinFault`).

### What else the models showed

- A comment in handleHTTP says that logging beyond the final flush "will be dropped"
  (api.go:117-118).  Lines that a goroutine of the application logs before the last flush
  takes its batch are sent after all; only the count in the response does not know of them
  (`heard` in `HeaderCountsFlushes`).
- The last flush takes one batch of 30 MB, and when it fails puts its lines back where
  nobody flushes them.  `NoLineIsLost` therefore says that lines wait or were received, not
  that they arrive.

## Fairness

`SusProps!Fairness`: a goroutine that can take a step takes it (the Go scheduler), and a
goroutine that waits for the mutex gets it if it is free again and again (a sync.Mutex does
not starve its waiters: it is handed to one that has waited for long).  Callers need not call.

`Ctx!Fairness`: every goroutine that makes or cancels a context takes its steps, and timers
that are due fire, because the runtime runs them.  Weak fairness is enough to get a lock:
only the one cancel that finishes a context keeps its lock from one step to another, so
that a lock is free from some time on.

`Api!Fairness`: the handler that the application gave returns, the goroutines take their
steps, and every call ends, because post's timer ends it.  `Stop` needs strong fairness: it
is enabled while the flusher waits in its select, which chooses at random between a stop
and a tick that are both ready.  Nothing is assumed of tickers, dials or services.

`Oak` has no fairness.  `EveryRequestIsAnswered` says instead that a request can always
take a step, whatever the others do, and that each of its steps leaves fewer to take
(`Left`, `EveryStepCounts`): a request whose goroutine runs is answered after seven of its own steps.  There
is no fairness for `Nds` and `GaeStore`, which have no liveness properties: an expiry, an
eviction or a clear-out need never happen.

## Proofs

Each component has a module of proofs: theorems for all values of the constants.  The
listed theorems state the very definitions that the runs check, and a few state what a
liveness property rests on (`HolderHasWork`, `EveryStepCounts`, `NobodyWaitsInACircle` and
others), for which TLC checks only that property.

**SusStore.**  `SusInv` is inductive with `TypeOK`, for all faults (`TypeAndLocking`): only
the mutex holder is in a transaction function, the loops stay in their batches, what was
read is what the store still has (`ReadIsCurrent`), and what the check loop has visited is
one version on, no more (`CheckedIsBumped`).  The second and third make the roll-back and
the stale read safe; without the first neither is inductive.  From it follow
`DeletedStaysDeleted` and `RefusalKeepsVersions` (with `VersionsAtCall`, which follows the
versions through the loops).

That versions identify states needs more: nobody holds an entity that is ahead of the
store, save what its own put is about to store (`NeverBehind`), nobody has an entity before
its create has put it (`FreshIsUnknown`), and what the put loop has visited is stored
(`PutIsStored`).  These are inductive as long as puts succeed (`PutsSucceed`); `MCSusLost`
shows that the assumption is needed.  They give `VersionsAreStates`, `SuccessIsStored` and
`UpdatesAreKept`.

`SusImplementsSequentialStore` maps `db` to `Visible`, the store as one sees it who waits
for the mutex: what the holder has still to put or to delete counts as done.  A create
takes effect when its ids are made, an update when its last version has been compared, a
delete when it gets the mutex; every other step is a stutter.  It assumes that puts and
deletes succeed, for one that stops half way is not atomic.

`EveryCallReturns` rests on `MutexIsPassedOn` and `TransactionsGoForward`, for any number of
callers and ids: who has the mutex is in a loop that has an id to
visit, and each of its steps ends a loop or takes an id off it.

**Nds.**  `Base` (types, where calls of each kind can be, and that no call's lock item
exists before it is made) holds without assumptions.  The cache is current
(`CacheIsCurrent`) when what it has, and what a get is about to save over a lock that is
still there, is the datastore's entity.  With puts alone this holds whenever no put is
between its write and its unlocking (`PutsInv`): the unlocking sweeps away whatever got
stale.  With one write at a time it holds always, because the writer's lock stays in
memcache from before the write until it is over (`SerialInv`).  `HistoryInv` relates the
datastore to what a get may answer with.  The assumptions are `PutsOnly`, or
`SerialWrites` and `DistinctLocks`; the refuted runs show that neither can go.  That no
read steals a lock (`LocksAreNotStolen`) needs `DistinctLocks` only.

**GaeStore.**  Nothing is assumed but `GaeAssumption`.  `SweepsAreRemembered` is inductive
with `TypeOK`: a clear-out under way began when the instance says the last one did, or
before, and who has the mutex is alone in finding that it is long ago.  It gives
`ClearOutsKeepApart`.

`StoreInv` is `TypeOK`, `Known` (ids and copies are of entities that were created, and an id
is not created twice), `DueInTime` (an entity is due `DeleteAfter` after its stored state was
asked for; what a clear-out is about to delete is due or was put since) and `CopiesAreOld`
(for entities that no put has overlapped: no copy is newer than its entity, except one that
is about to be put, which is one version on from what it was compared with; and one as new
as its entity has all of its changes).  `DueInTime` gives `EntitiesLiveTheirTime`.  `Known`
and `CopiesAreOld` give `GaeImplementsSequentialStore`, in which an entity counts as deleted
from the moment that a put replaces another state than the one that was compared; a create
and an update take effect when they are put, and a commit is a stutter, conflict or not.
What becomes of an entity after such a put, `MCGaeLost` shows.

**Oak.**  `CoreInv` holds for all faults: what each handler holds at each place
(`Control`), and `CopiesAreGenuine`: whatever copy a cookie, a session or a handler has is
the stored entity if it has its version.  That alone lets a version check stand for a
comparison of entities; it gives `LeaversStayAway`.  `SeatsAreTaken` adds that the user of a
session was registered and of no other client, `ActsAreSaved` follows each act from its
request into the entity, and `OneRequest`, `SessionsAreHere` and `CookiesAreHere` follow
seats to their leave for clients that wait for answers.  `AnswersTellTheStored` assumes a
store that does not fail (`"store" \notin Faults`), `EngagedStayRegistered` assumes
`Orderly`; the sections above say what happens otherwise.

`OakImplementsSequentialStore` maps an entity to its version and, for its marks, the acts
performed on it and the users who have left (`Lasting`): handlers add to these and never
take one away, although they store a copy that they read a while ago, because
`CopiesAreGenuine` makes a copy with the stored version the stored entity (`StoreMoves`).
A kick, a join, an act and a leave are updates from one version to the next, a create is a
create and a clear-out a delete, and nothing else touches the store.  It holds for all
faults.  `StepsAreCounted` is the half of `EveryRequestIsAnswered` that needs no
ENABLED: every step of a request leaves it fewer to take, so that fetchEntity's retry
cannot go on for ever.

**Ctx.**  The invariant is `Tasks` (what a goroutine works on at each place), `Grown` (the
tree grows downwards and a context is untouched before it is in it), `Locks` (the locks
that a goroutine holds form a path from where it began down to where it is), `Reached` (a
context is finished, or among its parent's children, or just being canceled by the holder of
its parent's lock), `Kept` (a finished child of a live parent has somebody to remove it) and
`TimersAreStopped`.  `Reached` needs `Locks`: a cancel leaves a context only when all below
is finished because nobody else can have taken a child away and not finished it.  It gives
`ChildrenStayTheLive` and `CtxImplementsTree`, in which a context is finished at the moment
its cancel gives its lock back.

`Reasons` is inductive on top of it: what a cancel brings with it is a reason for every
context that it has begun to finish, and no context has a later deadline than its parent
(`ReasonsStayTrue`).  The contexts above one (`Line`) are those that no set closed under
parents can be without, so that no recursion is needed.  From `Path` follows that who holds
a lock waits for none, or for one further down (`CtxLocksGoDown`).  Among goroutines that
wait for each other in a circle, the one with the lowest lock would wait for a lower one, so
that there is no circle (`CtxHasNoDeadlock`).  `EveryCallReturns` rests on this and on
`CancelsShrink`, both for any number of contexts: nobody becomes a child of a context that is
being finished, so that the walk over its children ends.

**Api.**  `Phases` (where the three goroutines of a request can be together) gives
`FlushesTakeTurns`, and only because flushes take turns are the lines that are put back
older than those that wait: `Batches` and `Lines` build on it and give `LinesAreKept`,
and `LinesStayInOrder`: every line before one that a flush sends either goes with it or is
with the log service already.  `FlusherKeepsListening` and `FlushesEnd` are the part of
`EveryRequestIsAnswered` that is about single steps: a handler that stops is heard by a
flusher that is still there, and the flush that it may have to wait for goes forward only.
`Counts` follows the count from its announcement to the last flush (`HeaderIsRight`), and
`Links` says that a connection carries one call, without which closing it would not give
back exactly one place (`LimitIsKept`: places taken are connections that are being dialed or
that nobody has begun to close).  All for every fault.

The assumptions on constants are `SusAssumption`, `NdsAssumption`, `GaeAssumption`,
`OakAssumption`, `CtxAssumption` and `ApiAssumption`: the values that stand for nothing are
no entities, calls or callers, and bounds are numbers.  That of Oak says of its `None` also
that it is no entity of SequentialStore.

Only model-checked: liveness and enabledness (`EveryCallReturns` of Sus and Ctx,
`TheDoomedFinish`, `EveryRequestIsAnswered` of Api, and of Oak's the part that says that a
request can always take a step), because TLAPS has no ENABLED and no rules for fairness.
What these rest on, that locks are passed on and loops go forward, is proved as above.

## Not modelled

- sus: empty batches (they return at once), slices of different lengths (an error at
  once), a batch that names an id twice; file permissions and half written files.
- nds: more than one key, reads inside a transaction (they bypass the cache), memcache RPCs
  that take effect late, encoding and its errors (which act like a foreign lock).  Of the
  datastore's retries, which nds.go:24-26 says go on "even if the API reports a success",
  only those after an error are modelled (`LateWrite`).
- gus: deletes (joak deletes through nds); what a caller does with the error of a
  transaction whose writes are stored.
- joak: a restart of an instance or a second one, which forget or do not know when the last
  clear-out was; the query's eventual consistency; more than one kind.
- oak: what becomes of the session of a client that does not wait for its answers, when those
  of a leave and of a poll arrive in the other order (`MCOakOrderly` has one request of a
  client at a time); requests that have no id or no version (they are refused at once); cookies that a
  client made or changed (they are encrypted); what getJoinResp and getEntityChangeResp
  make of an entity; a client's old key pairs.
- x/net/context: in `MCCtx` one context at most has a deadline, so that WithDeadline's early
  return for a parent with an earlier one (context.go:352-354) is not reached there; the
  theorem `ReasonsStayTrue` covers it.  Values, the deprecated package variables, String methods.
- appengine/internal: that a lost place in limitSem makes a call time out is not seen by
  `EveryRequestIsAnswered`, because post's timer ends every call; `LimitHolds` sees the place.
  Headers and bodies of responses, overrides and contexts for tests, the
  background context, identity, the main loop.
- mux, gorilla/context, securecookie, sessions, go-uuid, testify: dispatch, encoding and
  test assertions.  What the handlers rely on of a cookie is in `Oak`.
- protobuf, the generated `*.pb.go` of a dozen App Engine services, and the clients of
  services that joak does not call (search, taskqueue, image, log, blobstore, mail, user and
  others).  These are most of the lines of the repository: accessors, encoders and stubs
  that turn one call into one RPC and keep nothing from one call to the next.  A model of
  them has no interleavings and no state, so that the lines the modules cover stay a small
  share of the lines there are.

## Plan

Done: the store of package sus with its refinement and proofs; nds with its proofs; the
App Engine store with conflicts and commits, its refinement and proofs; the handlers and
their proofs; the tree of contexts with its refinement and proofs; the requests of an
instance with their logs, calls and connections, and their proofs.

What could follow:

1. Oak over a store that fails late (stores and reports an error, as `Conflict` of GaeStore
   does) and over entities that are cleared out while seats are held: what remains true of
   seats nobody holds, and when a client of a cleared-out entity is free again.
2. GaeStore over Nds: an entity store whose reads may answer from the cache, to say which
   guarantees of oak survive stale reads.
3. joak with several instances, each with its own time of the last clear-out.
