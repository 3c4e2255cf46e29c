------------------------------ MODULE ApiProps ------------------------------
(***************************************************************************)
(* What an instance keeps true of log lines, flushes and connections.      *)
(***************************************************************************)
EXTENDS Api, FiniteSetsExt

\* The lines of r that wait to be flushed, in the order they will be in if the
\* flush under way fails.
Waiting(r) == batch[Flusher(r)] \o batch[LastFlush(r)] \o pending[r]

Ascending(s) == \A i, j \in 1..Len(s) : i < j => s[i] < s[j]

\* No line is lost while its request can still flush, whatever fails: those that the
\* log service has not seen are waiting, and nothing waits out of turn or twice
\* (api.go:475-477, 502-530, 548-552).
NoLineIsLost ==
  \A r \in Requests :
    LET w == Waiting(r) IN
    /\ Ascending(w)
    /\ \A l \in 1..logged[r] : l \in Range(w) \cup Range(received[r])

\* The log service sees every line for the first time in the order they were logged,
\* though it may see some again, after a flush whose answer came too late.
InOrder(s) ==
  \A i \in 1..Len(s) : \A l \in 1..s[i] - 1 : \E j \in 1..i - 1 : s[j] = l
LinesKeepTheirOrder == \A r \in Requests : InOrder(received[r])

\* flushLog is never run twice at a time for a request: it takes lines from the
\* front and puts them back there ("It should not be called concurrently",
\* api.go:500), and only the unbuffered channel keeps the last flush from starting
\* in the middle of the ticker's (api.go:117-126, 562-578).
OneFlushAtATime ==
  \A r \in Requests : pc[Flusher(r)] \in {"off", "select"} \/ pc[LastFlush(r)] = "off"

\* The response announces the flushes that the request makes, all told, so that the
\* server can wait for them (api.go:119-127); unless a goroutine that the application
\* has left behind logs after the count.
HeaderCountsFlushes ==
  \A r \in Requests :
    pc[Handler(r)] = "over" /\ pc[LastFlush(r)] = "off" /\ heard[r] = logged[r] =>
      header[r] = flushes[r]

\* limitSem has an entry for each connection that is being dialed or that nobody has begun to
\* close, no more and no less: no place is lost and none is given back twice, however
\* connections fail and however often each is closed (net.go:18-63).  So no more than
\* Limit of them are open at a time; those that are being closed have given their place
\* back and are open for a moment beside them (net.go:58-59).
Holding == {k \in Conns : link[k] \in {"dialing", "idle", "busy"}}
LimitHolds == sem = Cardinality(Holding)

\* Every response is sent, though the handler waits for a flush under way, which
\* waits for a connection and an answer (api.go:117); and the last flush ends.
EveryRequestIsAnswered ==
  \A r \in Requests :
    (pc[Handler(r)] = "serve") ~> (pc[Handler(r)] = "over" /\ pc[LastFlush(r)] = "off")

\* The half of EveryRequestIsAnswered that is about single steps.  As long as a handler is
\* not done, its flusher runs, or the handler would send its stop to nobody
\* (api.go:112, 117).
FlusherListens ==
  \A r \in Requests :
    pc[Handler(r)] \in {"serve", "call", "stop"} => pc[Flusher(r)] # "off"

FlushLeft(g) ==
  CASE pc[g] = "grab" -> 4
    [] pc[g] = "marshal" -> 3
    [] pc[g] = "post" -> 2
    [] pc[g] = "rescue" -> 1
    [] OTHER -> 0

\* A flush is not begun again before it is over: each of its steps leaves fewer, whatever
\* becomes of its call, and failed lines wait for another flush (api.go:502-556).
FlushesGoForward ==
  [][\A g \in Flushing :
       FlushLeft(g) > 0 => pc'[g] = pc[g] \/ FlushLeft(g)' < FlushLeft(g)]_vars

-----------------------------------------------------------------------------
(* The inductive invariants behind these properties (ApiProofs).           *)

\* Where the goroutines of a request can be, and which of them have lines.
Phases ==
  \A r \in Requests :
    /\ pc[Handler(r)] \in {"new", "serve", "call", "stop", "count", "over"}
    /\ pc[Flusher(r)] \in {"off", "select", "grab", "marshal", "post", "rescue"}
    /\ pc[LastFlush(r)] \in {"off", "grab", "marshal", "post", "rescue"}
    /\ pc[Handler(r)] \in {"new", "count", "over"} => pc[Flusher(r)] = "off"
    /\ pc[Handler(r)] # "over" => pc[LastFlush(r)] = "off"
Batches == \A g \in Flushing : pc[g] \notin {"marshal", "post", "rescue"} => batch[g] = <<>>

\* The lines of a request that wait are some of those it has logged.
Lines ==
  \A r \in Requests :
    /\ Ascending(Waiting(r))
    /\ \A l \in Range(Waiting(r)) : l <= logged[r]
    /\ \A l \in 1..logged[r] : l \in Range(Waiting(r)) \cup Range(received[r])

\* How many flushes are still to be counted after the handler has counted them.
Counts ==
  \A r \in Requests :
    /\ heard[r] <= logged[r]
    /\ pc[Handler(r)] = "over" /\ heard[r] = logged[r] =>
         header[r] = flushes[r] +
           IF pc[LastFlush(r)] = "marshal" \/ (pc[LastFlush(r)] = "grab" /\ pending[r] # <<>>)
           THEN 1 ELSE 0

\* A connection carries one call at a time, and is busy as long as it does.
Links ==
  \A g \in Goroutines :
    using[g] # None =>
      /\ Calling(g) /\ link[using[g]] = "busy"
      /\ \A h \in Goroutines : using[h] = using[g] => h = g
=============================================================================
