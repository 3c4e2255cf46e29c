-------------------------------- MODULE Api --------------------------------
(***************************************************************************)
(* Package appengine/internal, as an instance runs it: the requests that   *)
(* handleHTTP serves, the log lines that they write and the flusher that   *)
(* each of them has (api.go), and the connections that their API calls     *)
(* share (net.go).  The service bridge, the log service and the HTTP       *)
(* transport's pool of idle connections are external.                      *)
(*                                                                         *)
(* A request has three goroutines: its handler, which is handleHTTP and    *)
(* the application's code in it, the flusher that runs flushLog on a       *)
(* ticker, and one that runs the last flushLog when the handler is done.   *)
(***************************************************************************)
EXTENDS Naturals, Sequences, FiniteSets, Functions

CONSTANTS Requests,
          Conns,       \* limitConns; each may be dialed again when it is closed
          Limit,       \* the capacity of limitSem
          None,        \* no connection
          Faults,      \* what may go wrong, of FaultKinds
          BatchSize,   \* how many lines a flush takes: those of 30 MB
          MaxLines,    \* bound: how many lines are logged
          MaxFlushes,  \* bound: how many flushes tickers start
          MaxCalls     \* bound: how many API calls applications make

FaultKinds == {"dial",      \* a dial fails or takes longer than 500 ms
               "fail",      \* a call fails, and the service has not seen it
               "late",      \* the service has done it, but the timer was first
               "straggle"}  \* a goroutine of the application logs after its handler has returned

ASSUME ApiAssumption ==
  /\ None \notin Conns /\ IsFiniteSet(Conns)
  /\ {Limit, BatchSize} \subseteq Nat \ {0}
  /\ {MaxLines, MaxFlushes, MaxCalls} \subseteq Nat
  /\ Faults \subseteq FaultKinds

VARIABLES
  pc,        \* pc[g]: where goroutine g is
  logged,    \* logged[r]: how many lines r has logged; they are numbered
  pending,   \* pending[r]: pendingLogs.lines
  flushes,   \* flushes[r]: pendingLogs.flushes
  batch,     \* batch[g]: the lines that flushLog has taken
  header,    \* header[r]: the flush count in the response
  heard,     \* heard[r]: how many lines r had logged by then (history)
  received,  \* received[r]: the lines the log service has, as they came
  calls,     \* how many API calls applications have made
  sem,       \* len(limitSem)
  link,      \* link[k]: the state of connection k
  using      \* using[g]: the connection of g's call

net == <<sem, link, using>>
lines == <<logged, pending, flushes, batch, header, heard, received>>
vars == <<pc, lines, calls, net>>

Handler(r) == <<"handler", r>>
Flusher(r) == <<"flusher", r>>
LastFlush(r) == <<"last", r>>
Flushing == {"flusher", "last"} \X Requests
Goroutines == {"handler", "flusher", "last"} \X Requests

TypeOK ==
  /\ pc \in [Goroutines ->
       {"new", "serve", "call", "stop", "count", "over",
        "off", "select", "grab", "marshal", "post", "rescue"}]
  /\ logged \in [Requests -> Nat] /\ heard \in [Requests -> Nat]
  /\ pending \in [Requests -> Seq(Nat)] /\ received \in [Requests -> Seq(Nat)]
  /\ batch \in [Flushing -> Seq(Nat)]
  /\ \A g \in Flushing : Len(batch[g]) <= BatchSize
  /\ flushes \in [Requests -> Nat] /\ header \in [Requests -> Nat]
  /\ calls \in 0..MaxCalls
  /\ sem \in 0..Limit
  /\ link \in [Conns -> {"dialing", "idle", "busy", "closing", "closed"}]
  /\ using \in [Goroutines -> Conns \cup {None}]

Init ==
  /\ pc = [g \in Goroutines |-> IF g[1] = "handler" THEN "new" ELSE "off"]
  /\ logged = [r \in Requests |-> 0]
  /\ pending = [r \in Requests |-> <<>>]
  /\ flushes = [r \in Requests |-> 0]
  /\ batch = [g \in Flushing |-> <<>>]
  /\ header = [r \in Requests |-> 0]
  /\ heard = [r \in Requests |-> 0]
  /\ received = [r \in Requests |-> <<>>]
  /\ calls = 0
  /\ sem = 0
  /\ link = [k \in Conns |-> "closed"]
  /\ using = [g \in Goroutines |-> None]

SumOf(f) == FoldFunction(LAMBDA x, y : x + y, 0, f)

Goto(g, l) == pc' = [pc EXCEPT ![g] = l]

-----------------------------------------------------------------------------
(* handleHTTP.                                                             *)

Arrive(r) ==
  /\ pc[Handler(r)] = "new"
  /\ pc' = [pc EXCEPT ![Handler(r)] = "serve", ![Flusher(r)] = "select"]
  /\ UNCHANGED <<lines, calls, net>>

\* addLogLine: the application logs, in its handler or in a goroutine that it
\* has left behind.
Log(r) ==
  /\ pc[Handler(r)] = "serve" \/ ("straggle" \in Faults /\ pc[Handler(r)] # "new")
  /\ SumOf(logged) < MaxLines
  /\ logged' = [logged EXCEPT ![r] = @ + 1]
  /\ pending' = [pending EXCEPT ![r] = Append(@, logged[r] + 1)]
  /\ UNCHANGED <<pc, flushes, batch, header, heard, received, calls, net>>

\* The application calls a service of App Engine.
CallApi(r) ==
  /\ pc[Handler(r)] = "serve"
  /\ calls < MaxCalls
  /\ calls' = calls + 1
  /\ Goto(Handler(r), "call")
  /\ UNCHANGED <<lines, net>>

\* The application's handler returns, or panics and executeRequestSafely recovers.
Served(r) ==
  /\ pc[Handler(r)] = "serve"
  /\ Goto(Handler(r), "stop")
  /\ UNCHANGED <<lines, calls, net>>

\* Mutant: the handler does not wait for the flusher, which stops when it can.
StopUnheard(r) ==
  /\ pc[Handler(r)] = "stop"
  /\ Goto(Handler(r), "count")
  /\ UNCHANGED <<lines, calls, net>>

\* stopFlushing <- 1: the channel has no buffer, so that the flusher takes the stop
\* in its select, and is in no flush then.
Stop(r) ==
  /\ pc[Handler(r)] = "stop" /\ pc[Flusher(r)] = "select"
  /\ pc' = [pc EXCEPT ![Handler(r)] = "count", ![Flusher(r)] = "off"]
  /\ UNCHANGED <<lines, calls, net>>

\* Mutant: the last flush is not counted.
CountPast(r) ==
  /\ pc[Handler(r)] = "count"
  /\ header' = [header EXCEPT ![r] = flushes[r]]
  /\ pc' = [pc EXCEPT ![Handler(r)] = "over", ![LastFlush(r)] = "grab"]
  /\ heard' = [heard EXCEPT ![r] = logged[r]]
  /\ UNCHANGED <<logged, pending, flushes, batch, received, calls, net>>

\* The response announces the flushes there were and the one that there will be, if
\* there are lines; it is started in any case.
Count(r) ==
  /\ pc[Handler(r)] = "count"
  /\ header' = [header EXCEPT ![r] = flushes[r] + IF pending[r] # <<>> THEN 1 ELSE 0]
  /\ pc' = [pc EXCEPT ![Handler(r)] = "over", ![LastFlush(r)] = "grab"]
  /\ heard' = [heard EXCEPT ![r] = logged[r]]
  /\ UNCHANGED <<logged, pending, flushes, batch, received, calls, net>>

-----------------------------------------------------------------------------
(* logFlusher and flushLog.                                                *)

\* The ticker ticks.
Tick(r) ==
  /\ pc[Flusher(r)] = "select"
  /\ SumOf(flushes) < MaxFlushes
  /\ Goto(Flusher(r), "grab")
  /\ UNCHANGED <<lines, calls, net>>

FlushEnd(g) == Goto(g, IF g[1] = "flusher" THEN "select" ELSE "off")

\* There is nothing to flush, and it is not forced.
GrabNothing(g) ==
  /\ pc[g] = "grab"
  /\ pending[g[2]] = <<>>
  /\ FlushEnd(g)
  /\ UNCHANGED <<lines, calls, net>>

\* Mutant: all lines are taken, however long they are.
GrabAll(g) ==
  LET r == g[2] IN
  /\ pc[g] = "grab"
  /\ pending[r] # <<>> \/ g[1] = "flusher"
  /\ batch' = [batch EXCEPT ![g] = pending[r]]
  /\ pending' = [pending EXCEPT ![r] = <<>>]
  /\ Goto(g, "marshal")
  /\ UNCHANGED <<logged, flushes, header, heard, received, calls, net>>

\* The first lines are taken, or none when a minute has passed since the flusher's
\* last flush.
Grab(g) ==
  LET r == g[2]  n == IF Len(pending[r]) < BatchSize THEN Len(pending[r]) ELSE BatchSize IN
  /\ pc[g] = "grab"
  /\ n > 0 \/ g[1] = "flusher"
  /\ batch' = [batch EXCEPT ![g] = SubSeq(pending[r], 1, n)]
  /\ pending' = [pending EXCEPT ![r] = SubSeq(@, n + 1, Len(@))]
  /\ Goto(g, "marshal")
  /\ UNCHANGED <<logged, flushes, header, heard, received, calls, net>>

\* The lines are marshaled, which cannot fail: logf sets every field of a line.
Marshal(g) ==
  /\ pc[g] = "marshal"
  /\ flushes' = [flushes EXCEPT ![g[2]] = @ + 1]
  /\ Goto(g, "post")
  /\ UNCHANGED <<logged, pending, batch, header, heard, received, calls, net>>

\* Mutant: the lines go behind those that were logged since.
RescueBehind(g) ==
  /\ pc[g] = "rescue"
  /\ pending' = [pending EXCEPT ![g[2]] = @ \o batch[g]]
  /\ batch' = [batch EXCEPT ![g] = <<>>]
  /\ FlushEnd(g)
  /\ UNCHANGED <<logged, flushes, header, heard, received, calls, net>>

\* The deferred function: the flush has failed, its lines go back to the front.
Rescue(g) ==
  /\ pc[g] = "rescue"
  /\ pending' = [pending EXCEPT ![g[2]] = batch[g] \o @]
  /\ batch' = [batch EXCEPT ![g] = <<>>]
  /\ FlushEnd(g)
  /\ UNCHANGED <<logged, flushes, header, heard, received, calls, net>>

-----------------------------------------------------------------------------
(* Call and post.                                                          *)

Calling(g) == pc[g] \in {"call", "post"}

\* The transport gives the call an idle connection.
Send(g) ==
  /\ Calling(g) /\ using[g] = None
  /\ \E k \in Conns :
       /\ link[k] = "idle"
       /\ link' = [link EXCEPT ![k] = "busy"]
       /\ using' = [using EXCEPT ![g] = k]
  /\ UNCHANGED <<pc, lines, calls, sem>>

\* limitRelease: a place is given back, if one is taken.
LimitRelease == sem' = IF sem > 0 THEN sem - 1 ELSE 0

\* The connection is idle again, or the transport closes it, which gives its place back
\* first.
Release(g) ==
  /\ using' = [using EXCEPT ![g] = None]
  /\ \/ /\ link' = [k \in Conns |-> IF k = using[g] THEN "idle" ELSE link[k]]
        /\ UNCHANGED sem
     \/ /\ using[g] # None
        /\ link' = [link EXCEPT ![using[g]] = "closing"]
        /\ LimitRelease

\* What the log service has seen.
Receive(g) == received' = [received EXCEPT ![g[2]] = @ \o batch[g]]

\* The answer comes in time.
Answer(g) ==
  /\ Calling(g) /\ using[g] # None
  /\ Release(g)
  /\ IF g[1] = "handler"
     THEN Goto(g, "serve") /\ UNCHANGED lines
     ELSE /\ Receive(g)
          /\ batch' = [batch EXCEPT ![g] = <<>>]
          /\ FlushEnd(g)
          /\ UNCHANGED <<logged, pending, flushes, header, heard>>
  /\ UNCHANGED calls

\* Mutant: the lines of a flush that fails are forgotten.
NoAnswerDropped(g) ==
  /\ "fail" \in Faults
  /\ Calling(g)
  /\ Release(g)
  /\ IF g[1] = "handler"
     THEN Goto(g, "serve") /\ UNCHANGED lines
     ELSE /\ FlushEnd(g)
          /\ batch' = [batch EXCEPT ![g] = <<>>]
          /\ UNCHANGED <<logged, pending, flushes, header, heard, received>>
  /\ UNCHANGED calls

\* Mutant: the timer does not end a call that waits for a connection.
NoAnswerConnected(g) ==
  /\ "fail" \in Faults
  /\ Calling(g) /\ using[g] # None
  /\ Release(g)
  /\ Goto(g, IF g[1] = "handler" THEN "serve" ELSE "rescue")
  /\ UNCHANGED <<lines, calls>>

\* The call fails, or its timer goes off while it has no connection or the service
\* has not seen it.
NoAnswer(g) ==
  /\ "fail" \in Faults
  /\ Calling(g)
  /\ Release(g)
  /\ Goto(g, IF g[1] = "handler" THEN "serve" ELSE "rescue")
  /\ UNCHANGED <<lines, calls>>

\* The service has done what it was asked, but the timer went off: post reports
\* errTimeout, even when it has the whole answer.
LateAnswer(g) ==
  /\ "late" \in Faults
  /\ Calling(g) /\ using[g] # None
  /\ Release(g)
  /\ IF g[1] = "handler"
     THEN Goto(g, "serve") /\ UNCHANGED received
     ELSE Goto(g, "rescue") /\ Receive(g)
  /\ UNCHANGED <<logged, pending, flushes, batch, header, heard, calls>>

-----------------------------------------------------------------------------
(* limitDial and limitConn.                                                *)

\* The transport has found no idle connection for a call and dials one, when there is a
\* place in limitSem.  The call may be over by then.
Dial(k) ==
  /\ link[k] = "closed"
  /\ calls > 0 \/ SumOf(flushes) > 0
  /\ sem < Limit
  /\ sem' = sem + 1
  /\ link' = [link EXCEPT ![k] = "dialing"]
  /\ UNCHANGED <<pc, lines, calls, using>>

Dialed(k) ==
  /\ link[k] = "dialing"
  /\ link' = [link EXCEPT ![k] = "idle"]
  /\ UNCHANGED <<pc, lines, calls, sem, using>>

DialFails(k) ==
  /\ "dial" \in Faults
  /\ link[k] = "dialing"
  /\ link' = [link EXCEPT ![k] = "closed"]
  /\ LimitRelease
  /\ UNCHANGED <<pc, lines, calls, using>>

\* Mutant: a connection that is closed again gives back a place again.
CloseTwice(k) ==
  /\ link[k] \in {"idle", "closing", "closed"}
  /\ link' = [link EXCEPT ![k] = IF @ = "idle" THEN "closing" ELSE @]
  /\ LimitRelease
  /\ UNCHANGED <<pc, lines, calls, using>>

\* The transport, the finalizer or both close a connection that nobody uses.  The first
\* time its place is given back; its Conn is still to be closed.
Close(k) ==
  /\ link[k] \in {"idle", "closing", "closed"}
  /\ link' = [link EXCEPT ![k] = IF @ = "idle" THEN "closing" ELSE @]
  /\ IF link[k] = "idle" THEN LimitRelease ELSE UNCHANGED sem
  /\ UNCHANGED <<pc, lines, calls, using>>

\* lc.Conn.Close.
Closed(k) ==
  /\ link[k] = "closing"
  /\ link' = [link EXCEPT ![k] = "closed"]
  /\ UNCHANGED <<pc, lines, calls, sem, using>>

-----------------------------------------------------------------------------
Flush(g) == GrabNothing(g) \/ Grab(g) \/ Marshal(g) \/ Rescue(g)

Reply(g) == Answer(g) \/ NoAnswer(g) \/ LateAnswer(g)

Next ==
  \/ \E r \in Requests :
       Arrive(r) \/ Log(r) \/ CallApi(r) \/ Served(r) \/ Stop(r) \/ Count(r) \/ Tick(r)
  \/ \E g \in Flushing : Flush(g)
  \/ \E g \in Goroutines : Send(g) \/ Reply(g)
  \/ \E k \in Conns : Dial(k) \/ Dialed(k) \/ DialFails(k) \/ Close(k) \/ Closed(k)

Spec == Init /\ [][Next]_vars

\* Goroutines run, applications' handlers return, and post's timer ends every call.
\* The flusher's select chooses at random between a stop and a tick that are both
\* ready, so that it takes a stop that waits in the end.
Fairness ==
  /\ \A r \in Requests : WF_vars(Served(r)) /\ SF_vars(Stop(r)) /\ WF_vars(Count(r))
  /\ \A g \in Flushing : WF_vars(Flush(g))
  /\ \A g \in Goroutines : WF_vars(Reply(g))

FairSpec == Spec /\ Fairness
=============================================================================
