----------------------------- MODULE ApiProofs -----------------------------
(***************************************************************************)
(* Proofs about an instance with any number of requests and connections:   *)
(* no log line is lost, flushLog runs once at a time for each request, the *)
(* response announces as many flushes as there are, and limitSem counts    *)
(* the connections.  They are one induction; the lines need the others:    *)
(* only because one flush runs at a time do lines that go back to the      *)
(* front stay in their order.                                              *)
(***************************************************************************)
EXTENDS ApiProps, SequenceTheorems, FiniteSetTheorems, TLAPS

LEMMA Assumed ==
  /\ None \notin Conns /\ IsFiniteSet(Conns)
  /\ Limit \in Nat \ {0} /\ BatchSize \in Nat \ {0}
  /\ MaxLines \in Nat /\ MaxFlushes \in Nat /\ MaxCalls \in Nat
  BY ApiAssumption

LEMMA Names ==
  /\ \A r \in Requests : /\ Handler(r) \in Goroutines
                         /\ Flusher(r) \in Flushing /\ LastFlush(r) \in Flushing
                         /\ Flusher(r) \in Goroutines /\ LastFlush(r) \in Goroutines
                         /\ Handler(r)[1] = "handler" /\ Handler(r)[2] = r
                         /\ Flusher(r)[1] = "flusher" /\ Flusher(r)[2] = r
                         /\ LastFlush(r)[1] = "last" /\ LastFlush(r)[2] = r
  /\ Flushing \subseteq Goroutines
  /\ \A g \in Flushing : /\ g[2] \in Requests
                         /\ g = Flusher(g[2]) \/ g = LastFlush(g[2])
  /\ \A g \in Goroutines : g \in Flushing \/ (g[2] \in Requests /\ g = Handler(g[2]))
  BY DEF Handler, Flusher, LastFlush, Flushing, Goroutines

LEMMA Apart ==
  /\ \A q, r : /\ Handler(q) # Flusher(r) /\ Handler(q) # LastFlush(r)
               /\ Flusher(q) # LastFlush(r)
               /\ Handler(q) = Handler(r) => q = r
               /\ Flusher(q) = Flusher(r) => q = r
               /\ LastFlush(q) = LastFlush(r) => q = r
  /\ \A q : \A g \in Flushing : g # Handler(q)
  BY DEF Handler, Flusher, LastFlush, Flushing

-----------------------------------------------------------------------------
(* Sequences of lines.                                                     *)

LEMMA Halves ==
  ASSUME NEW p \in Seq(Nat), NEW n \in 0..Len(p)
  PROVE  /\ SubSeq(p, 1, n) \in Seq(Nat) /\ SubSeq(p, n + 1, Len(p)) \in Seq(Nat)
         /\ SubSeq(p, 1, n) \o SubSeq(p, n + 1, Len(p)) = p
         /\ Len(SubSeq(p, 1, n)) = n
<1>1. Len(p) \in Nat
  BY LenProperties
<1>2. SubSeq(p, 1, n) \in Seq(Nat) /\ Len(SubSeq(p, 1, n)) = n
  BY <1>1
<1>3. SubSeq(p, n + 1, Len(p)) \in Seq(Nat)
  BY <1>1
<1>4. SubSeq(p, 1, n) \o SubSeq(p, n + 1, Len(p)) = SubSeq(p, 1, Len(p))
  <2>1. 1 \in 1..Len(p) + 1 /\ n \in 1 - 1..Len(p) /\ Len(p) \in n..Len(p)
    BY <1>1
  <2> QED
    BY <2>1, ConcatAdjacentSubSeq
<1> QED
  BY <1>2, <1>3, <1>4, SubSeqFull

LEMMA AscendingTail ==
  ASSUME NEW s \in Seq(Nat), NEW t \in Seq(Nat), Ascending(s \o t)
  PROVE  Ascending(t)
<1>1. Len(s) \in Nat /\ Len(t) \in Nat
  BY LenProperties
<1> SUFFICES ASSUME NEW i \in 1..Len(t), NEW j \in 1..Len(t), i < j
             PROVE  t[i] < t[j]
  BY DEF Ascending
<1>2. /\ Len(s) + i \in 1..Len(s \o t) /\ (s \o t)[Len(s) + i] = t[i]
      /\ Len(s) + j \in 1..Len(s \o t) /\ (s \o t)[Len(s) + j] = t[j]
  BY <1>1, ConcatProperties
<1>3. Len(s) + i < Len(s) + j
  BY <1>1
<1>4. (s \o t)[Len(s) + i] < (s \o t)[Len(s) + j]
  BY <1>2, <1>3 DEF Ascending
<1> QED
  BY <1>2, <1>4

LEMMA AscendingAppend ==
  ASSUME NEW s \in Seq(Nat), NEW n \in Nat, Ascending(s), \A l \in Range(s) : l < n
  PROVE  Ascending(s \o <<n>>)
<1>1. Len(s) \in Nat /\ <<n>> \in Seq(Nat) /\ Len(<<n>>) = 1
  BY LenProperties
<1>2. \A i \in 1..Len(s) : s[i] < n
  BY RangeEquality
<1>3. \A i \in 1..Len(s \o <<n>>) : (s \o <<n>>)[i] = IF i <= Len(s) THEN s[i] ELSE n
  BY <1>1, ConcatProperties
<1>4. Len(s \o <<n>>) = Len(s) + 1
  BY <1>1, ConcatProperties
<1>5. \A i \in 1..Len(s) : s[i] \in Nat
  BY ElementOfSeq
<1> QED
  BY <1>1, <1>2, <1>3, <1>4, <1>5 DEF Ascending

LEMMA LineAtTheEnd ==
  ASSUME NEW s \in Seq(Nat), NEW n \in Nat
  PROVE  /\ Append(s, n) \in Seq(Nat) /\ Append(s, n) = s \o <<n>>
         /\ Range(s \o <<n>>) = Range(s) \cup {n}
<1>1. <<n>> \in Seq(Nat) /\ Len(<<n>>) = 1 /\ <<n>>[1] = n
  OBVIOUS
<1>2. Append(s, n) \in Seq(Nat) /\ Append(s, n) = s \o <<n>>
  BY AppendProperties, AppendIsConcat
<1>3. Range(<<n>>) = {n}
  <2>1. Range(<<n>>) = {<<n>>[i] : i \in 1..Len(<<n>>)}
    BY <1>1, RangeEquality
  <2>2. 1..Len(<<n>>) = {1}
    BY <1>1
  <2> QED
    BY <2>1, <2>2, <1>1
<1>4. Range(s \o <<n>>) = Range(s) \cup Range(<<n>>)
  BY <1>1, RangeConcatenation
<1> QED
  BY <1>2, <1>3, <1>4

LEMMA LaterLine ==
  ASSUME NEW s \in Seq(Nat), NEW t \in Seq(Nat), NEW u \in Seq(Nat)
  PROVE  s \o (t \o u) = (s \o t) \o u
  OBVIOUS

-----------------------------------------------------------------------------
(* The invariant.                                                          *)

Inv == TypeOK /\ Phases /\ Batches /\ Lines /\ Counts /\ Links /\ LimitHolds

\* What waits, and what the log service has seen, of one request.
Line(r) ==
  /\ Ascending(Waiting(r))
  /\ \A l \in Range(Waiting(r)) : l <= logged[r]
  /\ \A l \in 1..logged[r] : l \in Range(Waiting(r)) \cup Range(received[r])

LEMMA LinesAre == Lines <=> \A r \in Requests : Line(r)
  BY DEF Lines, Line

LEMMA LineStays ==
  ASSUME NEW r \in Requests, Line(r),
         UNCHANGED <<Waiting(r), logged[r], received[r]>>
  PROVE  Line(r)'
  BY DEF Line

LEMMA WaitingStays ==
  ASSUME NEW r, UNCHANGED <<batch[Flusher(r)], batch[LastFlush(r)], pending[r]>>
  PROVE  Waiting(r)' = Waiting(r)
  BY DEF Waiting, Flusher, LastFlush

LEMMA WaitingIs ==
  ASSUME TypeOK, Batches, Phases, NEW r \in Requests
  PROVE  /\ Waiting(r) \in Seq(Nat) /\ pending[r] \in Seq(Nat) /\ received[r] \in Seq(Nat)
         /\ batch[Flusher(r)] \in Seq(Nat) /\ batch[LastFlush(r)] \in Seq(Nat)
         /\ pc[LastFlush(r)] # "off" => batch[Flusher(r)] = <<>>
         /\ pc[LastFlush(r)] \in {"off", "grab"} => batch[LastFlush(r)] = <<>>
         /\ pc[Flusher(r)] \in {"off", "select", "grab"} => batch[Flusher(r)] = <<>>
         /\ batch[LastFlush(r)] = <<>> => Waiting(r) = batch[Flusher(r)] \o pending[r]
         /\ batch[Flusher(r)] = <<>> => Waiting(r) = batch[LastFlush(r)] \o pending[r]
<1>1. /\ pending[r] \in Seq(Nat) /\ received[r] \in Seq(Nat)
      /\ batch[Flusher(r)] \in Seq(Nat) /\ batch[LastFlush(r)] \in Seq(Nat)
  BY Names DEF TypeOK
<1>2. Waiting(r) \in Seq(Nat)
  BY <1>1, ConcatProperties DEF Waiting
<1>3. /\ pc[LastFlush(r)] # "off" => batch[Flusher(r)] = <<>>
      /\ pc[LastFlush(r)] \in {"off", "grab"} => batch[LastFlush(r)] = <<>>
      /\ pc[Flusher(r)] \in {"off", "select", "grab"} => batch[Flusher(r)] = <<>>
  BY Names DEF Phases, Batches
<1>4. batch[LastFlush(r)] = <<>> => Waiting(r) = batch[Flusher(r)] \o pending[r]
  BY <1>1, ConcatEmptySeq DEF Waiting
<1>5. batch[Flusher(r)] = <<>> => Waiting(r) = batch[LastFlush(r)] \o pending[r]
  BY <1>1, ConcatEmptySeq DEF Waiting
<1> QED
  BY <1>1, <1>2, <1>3, <1>4, <1>5

LEMMA WaitingNext ==
  \A r : Waiting(r)' = batch'[Flusher(r)] \o batch'[LastFlush(r)] \o pending'[r]
  BY DEF Waiting, Flusher, LastFlush

\* A goroutine moves on that has no connection, and the connections stay as they are.
LEMMA NetStays ==
  ASSUME Links, LimitHolds, UNCHANGED net,
         \A g \in Goroutines : Calling(g) => Calling(g)'
  PROVE  Links' /\ LimitHolds'
<1>1. UNCHANGED <<sem, link, using>>
  BY DEF net
<1>2. Holding' = Holding
  BY <1>1 DEF Holding
<1>3. Links'
  BY <1>1 DEF Links
<1> QED
  BY <1>1, <1>2, <1>3 DEF LimitHolds

\* Where the goroutines of r are, and what is counted of it.
Phase(r) ==
  /\ pc[Handler(r)] \in {"new", "serve", "call", "stop", "count", "over"}
  /\ pc[Flusher(r)] \in {"off", "select", "grab", "marshal", "post", "rescue"}
  /\ pc[LastFlush(r)] \in {"off", "grab", "marshal", "post", "rescue"}
  /\ pc[Handler(r)] \in {"new", "count", "over"} => pc[Flusher(r)] = "off"
  /\ pc[Handler(r)] # "over" => pc[LastFlush(r)] = "off"
Counted(r) ==
  /\ heard[r] <= logged[r]
  /\ pc[Handler(r)] = "over" /\ heard[r] = logged[r] =>
       header[r] = flushes[r] +
         IF pc[LastFlush(r)] = "marshal" \/ (pc[LastFlush(r)] = "grab" /\ pending[r] # <<>>)
         THEN 1 ELSE 0

Batched(r) ==
  \A g \in {Flusher(r), LastFlush(r)} : pc[g] \notin {"marshal", "post", "rescue"} => batch[g] = <<>>

LEMMA PhasesAre ==
  /\ Phases <=> \A r \in Requests : Phase(r)
  /\ Counts <=> \A r \in Requests : Counted(r)
  /\ Batches <=> \A r \in Requests : Batched(r)
<1>1. Phases <=> \A r \in Requests : Phase(r)
  BY DEF Phases, Phase
<1>2. Counts <=> \A r \in Requests : Counted(r)
  BY DEF Counts, Counted
<1>3. Batches <=> \A r \in Requests : Batched(r)
  BY Names DEF Batches, Batched
<1> QED
  BY <1>1, <1>2, <1>3

LEMMA Next1 ==
  \A r :
    /\ Phase(r)' <=>
         /\ pc'[Handler(r)] \in {"new", "serve", "call", "stop", "count", "over"}
         /\ pc'[Flusher(r)] \in {"off", "select", "grab", "marshal", "post", "rescue"}
         /\ pc'[LastFlush(r)] \in {"off", "grab", "marshal", "post", "rescue"}
         /\ pc'[Handler(r)] \in {"new", "count", "over"} => pc'[Flusher(r)] = "off"
         /\ pc'[Handler(r)] # "over" => pc'[LastFlush(r)] = "off"
    /\ Counted(r)' <=>
         /\ heard'[r] <= logged'[r]
         /\ pc'[Handler(r)] = "over" /\ heard'[r] = logged'[r] =>
              header'[r] = flushes'[r] +
                IF pc'[LastFlush(r)] = "marshal"
                   \/ (pc'[LastFlush(r)] = "grab" /\ pending'[r] # <<>>)
                THEN 1 ELSE 0
    /\ Batched(r)' <=>
         \A g \in {Flusher(r), LastFlush(r)} :
           pc'[g] \notin {"marshal", "post", "rescue"} => batch'[g] = <<>>
  BY DEF Phase, Counted, Batched, Handler, Flusher, LastFlush

Places == {"new", "serve", "call", "stop", "count", "over",
           "off", "select", "grab", "marshal", "post", "rescue"}

\* Goroutine g goes from one place to another.
LEMMA Gone ==
  ASSUME TypeOK, NEW g \in Goroutines, NEW l \in Places, Goto(g, l)
  PROVE  /\ pc' \in [Goroutines -> Places] /\ pc'[g] = l
         /\ \A h \in Goroutines \ {g} : pc'[h] = pc[h]
  BY DEF TypeOK, Goto, Places

LEMMA Gone2 ==
  ASSUME TypeOK, NEW g \in Goroutines, NEW h \in Goroutines, g # h,
         NEW l \in Places, NEW m \in Places, pc' = [pc EXCEPT ![g] = l, ![h] = m]
  PROVE  /\ pc' \in [Goroutines -> Places] /\ pc'[g] = l /\ pc'[h] = m
         /\ \A x \in Goroutines \ {g, h} : pc'[x] = pc[x]
  BY DEF TypeOK, Places

\* What a step of a goroutine of r does to the others: nothing.
Step(r) ==
  /\ pc' \in [Goroutines -> Places]
  /\ logged' \in [Requests -> Nat] /\ heard' \in [Requests -> Nat]
  /\ pending' \in [Requests -> Seq(Nat)] /\ received' \in [Requests -> Seq(Nat)]
  /\ batch' \in [Flushing -> Seq(Nat)]
  /\ \A g \in Flushing : Len(batch'[g]) <= BatchSize
  /\ flushes' \in [Requests -> Nat] /\ header' \in [Requests -> Nat]
  /\ calls' \in 0..MaxCalls
  /\ \A g \in Goroutines : g[2] # r => pc'[g] = pc[g]
  /\ \A g \in Flushing : g[2] # r => batch'[g] = batch[g]
  /\ \A q \in Requests \ {r} : /\ logged'[q] = logged[q] /\ pending'[q] = pending[q]
                               /\ flushes'[q] = flushes[q] /\ header'[q] = header[q]
                               /\ heard'[q] = heard[q] /\ received'[q] = received[q]

Net ==
  /\ sem \in 0..Limit
  /\ link \in [Conns -> {"dialing", "idle", "busy", "closing", "closed"}]
  /\ using \in [Goroutines -> Conns \cup {None}]
  /\ Links /\ LimitHolds

LEMMA StepInv ==
  ASSUME Inv, NEW r \in Requests, Step(r), Phase(r)', Counted(r)', Batched(r)', Line(r)', Net'
  PROVE  Inv'
<1>1. \A q \in Requests \ {r} : /\ pc'[Handler(q)] = pc[Handler(q)]
                                /\ pc'[Flusher(q)] = pc[Flusher(q)]
                                /\ pc'[LastFlush(q)] = pc[LastFlush(q)]
                                /\ batch'[Flusher(q)] = batch[Flusher(q)]
                                /\ batch'[LastFlush(q)] = batch[LastFlush(q)]
  <2> TAKE q \in Requests \ {r}
  <2>1. /\ Handler(q) \in Goroutines /\ Handler(q)[2] # r
        /\ Flusher(q) \in Goroutines /\ Flusher(q) \in Flushing /\ Flusher(q)[2] # r
        /\ LastFlush(q) \in Goroutines /\ LastFlush(q) \in Flushing /\ LastFlush(q)[2] # r
    BY Names
  <2> QED
    BY <2>1 DEF Step
<1>2. \A q \in Requests \ {r} : Phase(q)'
  BY <1>1, Next1, PhasesAre DEF Inv, Phase
<1>3. \A q \in Requests \ {r} : Counted(q)'
  <2> TAKE q \in Requests \ {r}
  <2>1. /\ logged'[q] = logged[q] /\ pending'[q] = pending[q] /\ flushes'[q] = flushes[q]
        /\ header'[q] = header[q] /\ heard'[q] = heard[q]
    BY DEF Step
  <2>2. Counted(q)
    BY PhasesAre DEF Inv
  <2> QED
    BY <1>1, <2>1, <2>2, Next1 DEF Counted
<1>4. \A q \in Requests \ {r} : Batched(q)'
  BY <1>1, Next1, PhasesAre DEF Inv, Batched
<1>5. \A q \in Requests \ {r} : Line(q)'
  <2> TAKE q \in Requests \ {r}
  <2>1. Waiting(q)' = Waiting(q)
    BY <1>1, WaitingStays DEF Step
  <2>2. Line(q)
    BY LinesAre DEF Inv
  <2> QED
    BY <2>1, <2>2, LineStays DEF Step
<1>6. TypeOK'
  BY DEF TypeOK, Step, Net, Places
<1>7. Phases' /\ Counts'
  BY <1>2, <1>3 DEF Phases, Phase, Counts, Counted
<1>8. Batches'
  <2> SUFFICES ASSUME NEW g \in Flushing, pc'[g] \notin {"marshal", "post", "rescue"}
               PROVE  batch'[g] = <<>>
    BY DEF Batches
  <2>1. Batched(g[2])'
    BY <1>4, Names
  <2> QED
    BY <2>1, Next1, Names
<1>9. Lines'
  BY <1>5 DEF Lines, Line
<1> QED
  BY <1>6, <1>7, <1>8, <1>9 DEF Inv, Net

\* The connections, if they stay as they are.
LEMMA NetIs ==
  ASSUME Inv, UNCHANGED net, \A g \in Goroutines : Calling(g) => pc'[g] \in {"call", "post"}
  PROVE  Net'
<1>1. \A g \in Goroutines : Calling(g) => Calling(g)'
  BY DEF Calling
<1> QED
  BY <1>1, NetStays DEF Inv, Net, TypeOK, net

\* The lines of r, if they stay as they are.
LEMMA LineIs ==
  ASSUME Inv, NEW r \in Requests, UNCHANGED <<logged, pending, batch, received>>
  PROVE  Line(r)'
<1>1. Waiting(r)' = Waiting(r)
  BY WaitingStays
<1>2. Line(r)
  BY LinesAre DEF Inv
<1> QED
  BY <1>1, <1>2, LineStays

-----------------------------------------------------------------------------
(* The handler.                                                            *)

\* What the invariant says of one request.
LEMMA OfOne ==
  ASSUME Inv, NEW r \in Requests
  PROVE  Phase(r) /\ Counted(r) /\ Batched(r) /\ Line(r)
  BY PhasesAre, LinesAre DEF Inv

\* A step that moves goroutines of r on and may count.
LEMMA Moves ==
  ASSUME Inv, NEW r \in Requests,
         pc' \in [Goroutines -> Places],
         \A g \in Goroutines : g[2] # r => pc'[g] = pc[g],
         \A g \in Flushing : pc'[g] = pc[g] \/ batch[g] = <<>>,
         UNCHANGED <<logged, pending, batch, received>>, calls' \in 0..MaxCalls,
         flushes' \in [Requests -> Nat], header' \in [Requests -> Nat], heard' \in [Requests -> Nat],
         \A q \in Requests \ {r} : flushes'[q] = flushes[q] /\ header'[q] = header[q] /\ heard'[q] = heard[q],
         Phase(r)', Counted(r)', Net'
  PROVE  Inv'
<1>1. Step(r)
  BY DEF Inv, TypeOK, Step
<1>2. Batched(r)'
  BY OfOne, Next1, Names DEF Batched
<1> QED
  BY <1>1, <1>2, StepInv, LineIs

LEMMA ArriveInv ==
  ASSUME Inv, NEW r \in Requests, Arrive(r)
  PROVE  Inv'
<1>1. /\ pc' \in [Goroutines -> Places] /\ pc'[Handler(r)] = "serve" /\ pc'[Flusher(r)] = "select"
      /\ \A g \in Goroutines \ {Handler(r), Flusher(r)} : pc'[g] = pc[g]
  <2>1. Handler(r) \in Goroutines /\ Flusher(r) \in Goroutines /\ Handler(r) # Flusher(r)
    BY Names, Apart
  <2>2. pc' = [pc EXCEPT ![Handler(r)] = "serve", ![Flusher(r)] = "select"]
    BY DEF Arrive
  <2>3. TypeOK /\ "serve" \in Places /\ "select" \in Places
    BY DEF Inv, Places
  <2> QED
    BY <2>1, <2>2, <2>3, Gone2
<1>2. Phase(r) /\ Counted(r) /\ Batched(r) /\ pc[Handler(r)] = "new"
  BY OfOne DEF Arrive
<1>3. Phase(r)' /\ Counted(r)'
  BY <1>1, <1>2, Next1, Names, Apart DEF Arrive, Phase, Counted, lines
<1>4. \A g \in Goroutines : Calling(g) => pc'[g] \in {"call", "post"}
  BY <1>1, <1>2 DEF Calling, Phase
<1>5. \A g \in Flushing : pc'[g] = pc[g] \/ batch[g] = <<>>
  BY <1>1, <1>2, Names, Apart DEF Phase, Batched
<1>7. UNCHANGED <<logged, pending, batch, received, net, flushes, header, heard>>
  BY DEF Arrive, lines
<1>8. /\ calls' \in 0..MaxCalls
      /\ flushes' \in [Requests -> Nat] /\ header' \in [Requests -> Nat] /\ heard' \in [Requests -> Nat]
  BY <1>7 DEF Arrive, Inv, TypeOK
<1>9. \A g \in Goroutines : g[2] # r => pc'[g] = pc[g]
  BY <1>1, Names
<1>10. Net'
  BY <1>4, <1>7, NetIs
<1> QED
  BY <1>3, <1>5, <1>7, <1>8, <1>9, <1>10, <1>1, Moves

LEMMA CallApiInv ==
  ASSUME Inv, NEW r \in Requests, CallApi(r)
  PROVE  Inv'
<1>1. /\ pc' \in [Goroutines -> Places] /\ pc'[Handler(r)] = "call"
      /\ \A g \in Goroutines \ {Handler(r)} : pc'[g] = pc[g]
  BY Gone, Names DEF CallApi, Inv, Places
<1>2. Phase(r) /\ Counted(r) /\ pc[Handler(r)] = "serve"
  BY OfOne DEF CallApi
<1>3. Phase(r)' /\ Counted(r)'
  BY <1>1, <1>2, Next1, Names, Apart DEF CallApi, Phase, Counted, lines
<1>4. \A g \in Goroutines : Calling(g) => pc'[g] \in {"call", "post"}
  BY <1>1 DEF Calling
<1>5. \A g \in Flushing : pc'[g] = pc[g]
  BY <1>1, Names, Apart
<1>6. calls' \in 0..MaxCalls
  BY Assumed DEF CallApi, Inv, TypeOK
<1>7. UNCHANGED <<logged, pending, batch, received, net, flushes, header, heard>>
  BY DEF CallApi, lines
<1>8. /\ calls' \in 0..MaxCalls
      /\ flushes' \in [Requests -> Nat] /\ header' \in [Requests -> Nat] /\ heard' \in [Requests -> Nat]
  BY <1>7, <1>6 DEF CallApi, Inv, TypeOK
<1>9. \A g \in Goroutines : g[2] # r => pc'[g] = pc[g]
  BY <1>1, Names
<1>10. Net'
  BY <1>4, <1>7, NetIs
<1> QED
  BY <1>3, <1>5, <1>7, <1>8, <1>9, <1>10, <1>1, Moves

LEMMA ServedInv ==
  ASSUME Inv, NEW r \in Requests, Served(r)
  PROVE  Inv'
<1>1. /\ pc' \in [Goroutines -> Places] /\ pc'[Handler(r)] = "stop"
      /\ \A g \in Goroutines \ {Handler(r)} : pc'[g] = pc[g]
  BY Gone, Names DEF Served, Inv, Places
<1>2. Phase(r) /\ Counted(r) /\ pc[Handler(r)] = "serve"
  BY OfOne DEF Served
<1>3. Phase(r)' /\ Counted(r)'
  BY <1>1, <1>2, Next1, Names, Apart DEF Served, Phase, Counted, lines
<1>4. \A g \in Goroutines : Calling(g) => pc'[g] \in {"call", "post"}
  BY <1>1, <1>2 DEF Calling
<1>5. \A g \in Flushing : pc'[g] = pc[g]
  BY <1>1, Names, Apart
<1>7. UNCHANGED <<logged, pending, batch, received, net, flushes, header, heard>>
  BY DEF Served, lines
<1>8. /\ calls' \in 0..MaxCalls
      /\ flushes' \in [Requests -> Nat] /\ header' \in [Requests -> Nat] /\ heard' \in [Requests -> Nat]
  BY <1>7 DEF Served, Inv, TypeOK
<1>9. \A g \in Goroutines : g[2] # r => pc'[g] = pc[g]
  BY <1>1, Names
<1>10. Net'
  BY <1>4, <1>7, NetIs
<1> QED
  BY <1>3, <1>5, <1>7, <1>8, <1>9, <1>10, <1>1, Moves

LEMMA StopInv ==
  ASSUME Inv, NEW r \in Requests, Stop(r)
  PROVE  Inv'
<1>1. /\ pc' \in [Goroutines -> Places] /\ pc'[Handler(r)] = "count" /\ pc'[Flusher(r)] = "off"
      /\ \A g \in Goroutines \ {Handler(r), Flusher(r)} : pc'[g] = pc[g]
  <2>1. Handler(r) \in Goroutines /\ Flusher(r) \in Goroutines /\ Handler(r) # Flusher(r)
    BY Names, Apart
  <2>2. pc' = [pc EXCEPT ![Handler(r)] = "count", ![Flusher(r)] = "off"]
    BY DEF Stop
  <2>3. TypeOK /\ "count" \in Places /\ "off" \in Places
    BY DEF Inv, Places
  <2> QED
    BY <2>1, <2>2, <2>3, Gone2
<1>2. Phase(r) /\ Counted(r) /\ Batched(r) /\ pc[Handler(r)] = "stop" /\ pc[Flusher(r)] = "select"
  BY OfOne DEF Stop
<1>3. Phase(r)' /\ Counted(r)'
  BY <1>1, <1>2, Next1, Names, Apart DEF Stop, Phase, Counted, lines
<1>4. \A g \in Goroutines : Calling(g) => pc'[g] \in {"call", "post"}
  BY <1>1, <1>2 DEF Calling
<1>5. \A g \in Flushing : pc'[g] = pc[g] \/ batch[g] = <<>>
  BY <1>1, <1>2, Names, Apart DEF Batched
<1>7. UNCHANGED <<logged, pending, batch, received, net, flushes, header, heard>>
  BY DEF Stop, lines
<1>8. /\ calls' \in 0..MaxCalls
      /\ flushes' \in [Requests -> Nat] /\ header' \in [Requests -> Nat] /\ heard' \in [Requests -> Nat]
  BY <1>7 DEF Stop, Inv, TypeOK
<1>9. \A g \in Goroutines : g[2] # r => pc'[g] = pc[g]
  BY <1>1, Names
<1>10. Net'
  BY <1>4, <1>7, NetIs
<1> QED
  BY <1>3, <1>5, <1>7, <1>8, <1>9, <1>10, <1>1, Moves

LEMMA CountInv ==
  ASSUME Inv, NEW r \in Requests, Count(r)
  PROVE  Inv'
<1>1. /\ pc' \in [Goroutines -> Places] /\ pc'[Handler(r)] = "over" /\ pc'[LastFlush(r)] = "grab"
      /\ \A g \in Goroutines \ {Handler(r), LastFlush(r)} : pc'[g] = pc[g]
  <2>1. Handler(r) \in Goroutines /\ LastFlush(r) \in Goroutines /\ Handler(r) # LastFlush(r)
    BY Names, Apart
  <2>2. pc' = [pc EXCEPT ![Handler(r)] = "over", ![LastFlush(r)] = "grab"]
    BY DEF Count
  <2>3. TypeOK /\ "over" \in Places /\ "grab" \in Places
    BY DEF Inv, Places
  <2> QED
    BY <2>1, <2>2, <2>3, Gone2
<1>2. Phase(r) /\ Counted(r) /\ Batched(r) /\ pc[Handler(r)] = "count"
  BY OfOne DEF Count
<1>3. /\ header' \in [Requests -> Nat] /\ heard' \in [Requests -> Nat]
      /\ header'[r] = flushes[r] + (IF pending[r] # <<>> THEN 1 ELSE 0) /\ heard'[r] = logged[r]
      /\ \A q \in Requests \ {r} : header'[q] = header[q] /\ heard'[q] = heard[q]
  BY DEF Count, Inv, TypeOK
<1>4. UNCHANGED <<logged, pending, flushes, batch, received, calls, net>>
  BY DEF Count
<1>5. Phase(r)'
  <2>1. pc'[Flusher(r)] = pc[Flusher(r)]
    BY <1>1, Names, Apart
  <2> QED
    BY <1>1, <1>2, <2>1, Next1 DEF Phase
<1>6. Counted(r)'
  <2>1. logged[r] \in Nat /\ flushes[r] \in Nat
    BY DEF Inv, TypeOK
  <2>2. /\ heard'[r] <= logged'[r]
        /\ header'[r] = flushes'[r] +
             IF pc'[LastFlush(r)] = "marshal"
                \/ (pc'[LastFlush(r)] = "grab" /\ pending'[r] # <<>>)
             THEN 1 ELSE 0
    BY <1>1, <1>3, <1>4, <2>1
  <2> QED
    BY <2>2, Next1
<1>7. \A g \in Goroutines : Calling(g) => pc'[g] \in {"call", "post"}
  BY <1>1, <1>2 DEF Calling, Phase
<1>8. \A g \in Flushing : pc'[g] = pc[g] \/ batch[g] = <<>>
  BY <1>1, <1>2, Names, Apart DEF Batched, Phase
<1>9. \A g \in Goroutines : g[2] # r => pc'[g] = pc[g]
  BY <1>1, Names
<1>10. flushes' \in [Requests -> Nat] /\ calls' \in 0..MaxCalls /\ flushes' = flushes
  BY <1>4 DEF Inv, TypeOK
<1>11. Net'
  BY <1>4, <1>7, NetIs
<1> QED
  BY <1>1, <1>3, <1>4, <1>5, <1>6, <1>8, <1>9, <1>10, <1>11, Moves

\* A line goes to the end of those that wait, and is the latest of them.
LEMMA LogInv ==
  ASSUME Inv, NEW r \in Requests, Log(r)
  PROVE  Inv'
<1> DEFINE n == logged[r] + 1
<1>1. /\ logged[r] \in Nat /\ logged' \in [Requests -> Nat] /\ logged'[r] = n /\ n \in Nat
      /\ \A q \in Requests \ {r} : logged'[q] = logged[q]
  BY DEF Log, Inv, TypeOK
<1>2. /\ pending' \in [Requests -> Seq(Nat)] /\ pending'[r] = pending[r] \o <<n>>
      /\ \A q \in Requests \ {r} : pending'[q] = pending[q]
  <2>1. pending[r] \in Seq(Nat) /\ n \in Nat
    BY <1>1 DEF Inv, TypeOK
  <2>2. Append(pending[r], n) \in Seq(Nat) /\ Append(pending[r], n) = pending[r] \o <<n>>
    BY <2>1, LineAtTheEnd
  <2> QED
    BY <2>1, <2>2 DEF Log, Inv, TypeOK
<1>3. UNCHANGED <<pc, flushes, batch, header, heard, received, calls, net>>
  BY DEF Log
<1>4. Phase(r) /\ Counted(r) /\ Batched(r) /\ Line(r)
  BY OfOne
<1>5. Phase(r)' /\ Batched(r)'
  BY <1>3, <1>4, Next1 DEF Phase, Batched
<1>6. Counted(r)'
  <2>1. heard[r] \in Nat /\ heard[r] < n
    BY <1>1, <1>4 DEF Counted, Inv, TypeOK
  <2> QED
    BY <1>1, <1>3, <2>1, Next1
<1>7. Line(r)'
  <2>1. Waiting(r) \in Seq(Nat) /\ pending[r] \in Seq(Nat)
        /\ batch[Flusher(r)] \in Seq(Nat) /\ batch[LastFlush(r)] \in Seq(Nat) /\ <<n>> \in Seq(Nat)
    <3>1. <<n>> \in Seq(Nat)
      BY <1>1
    <3> QED
      BY <3>1, WaitingIs DEF Inv
  <2>2. Waiting(r)' = Waiting(r) \o <<n>>
    <3>1. Waiting(r)' = (batch[Flusher(r)] \o batch[LastFlush(r)]) \o (pending[r] \o <<n>>)
      BY <1>2, <1>3, WaitingNext
    <3>2. Waiting(r) = (batch[Flusher(r)] \o batch[LastFlush(r)]) \o pending[r]
      BY DEF Waiting
    <3>3. (batch[Flusher(r)] \o batch[LastFlush(r)]) \o (pending[r] \o <<n>>)
            = ((batch[Flusher(r)] \o batch[LastFlush(r)]) \o pending[r]) \o <<n>>
      <4>1. PICK a \in Seq(Nat), b \in Seq(Nat), c \in Seq(Nat) :
              /\ a = batch[Flusher(r)] \o batch[LastFlush(r)]
              /\ b = pending[r] /\ c = <<n>>
        BY <2>1, ConcatProperties
      <4>2. a \o (b \o c) = (a \o b) \o c
        BY LaterLine
      <4> QED
        BY <4>1, <4>2, Zenon
    <3> QED
      BY <3>1, <3>2, <3>3, Zenon
  <2>3. Range(Waiting(r) \o <<n>>) = Range(Waiting(r)) \cup {n}
    BY <1>1, <2>1, LineAtTheEnd
  <2>4. \A l \in Range(Waiting(r)) : l \in Nat /\ l <= logged[r]
    BY <1>4, <2>1, RangeOfSeq DEF Line
  <2>5. Ascending(Waiting(r) \o <<n>>)
    BY <2>1, <2>4, <1>1, <1>4, AscendingAppend DEF Line
  <2>6. \A l \in 1..n : l \in 1..logged[r] \/ l = n
    BY <1>1
  <2>7. \A l \in Range(Waiting(r)) \cup {n} : l <= n
    BY <1>1, <2>4
  <2> QED
    BY <1>1, <1>3, <1>4, <2>2, <2>3, <2>5, <2>6, <2>7 DEF Line
<1>8. Step(r)
  BY <1>1, <1>2, <1>3 DEF Step, Inv, TypeOK, Places
<1>9. Net'
  BY <1>3, NetIs DEF Calling
<1> QED
  BY <1>5, <1>6, <1>7, <1>8, <1>9, StepInv

-----------------------------------------------------------------------------
(* The flushes.                                                            *)

\* While flush g has work to do, what waits is what it has taken and what is pending.
LEMMA Flushed ==
  ASSUME Inv, NEW g \in Flushing, pc[g] \notin {"off", "select"}
  PROVE  /\ g[2] \in Requests /\ Phase(g[2]) /\ Counted(g[2]) /\ Batched(g[2]) /\ Line(g[2])
         /\ batch[g] \in Seq(Nat) /\ pending[g[2]] \in Seq(Nat) /\ received[g[2]] \in Seq(Nat)
         /\ Waiting(g[2]) = batch[g] \o pending[g[2]]
         /\ Waiting(g[2]) \in Seq(Nat)
         /\ \A h \in Flushing : h[2] = g[2] /\ h # g => batch[h] = <<>>
         /\ g = Flusher(g[2]) => pc[Handler(g[2])] # "over"
         /\ g = LastFlush(g[2]) => pc[Handler(g[2])] = "over" /\ pc[Flusher(g[2])] = "off"
<1> DEFINE r == g[2]
<1>1. r \in Requests /\ (g = Flusher(r) \/ g = LastFlush(r))
  BY Names
<1> HIDE DEF r
<1>2. Phase(r) /\ Counted(r) /\ Batched(r) /\ Line(r)
  BY <1>1, OfOne
<1>3. /\ g = Flusher(r) => pc[Handler(r)] # "over" /\ pc[LastFlush(r)] = "off"
      /\ g = LastFlush(r) => pc[Handler(r)] = "over" /\ pc[Flusher(r)] = "off"
  BY <1>2 DEF Phase
<1>4. TypeOK /\ Batches /\ Phases
  BY DEF Inv
<1>5. /\ Waiting(r) = batch[g] \o pending[r] /\ Waiting(r) \in Seq(Nat)
      /\ batch[g] \in Seq(Nat) /\ pending[r] \in Seq(Nat) /\ received[r] \in Seq(Nat)
  BY <1>1, <1>3, <1>4, WaitingIs
<1>6. \A h \in Flushing : h[2] = r /\ h # g => batch[h] = <<>>
  <2>1. g = Flusher(r) => batch[LastFlush(r)] = <<>>
    BY <1>1, <1>3, <1>4, WaitingIs
  <2>2. g = LastFlush(r) => batch[Flusher(r)] = <<>>
    BY <1>1, <1>3, <1>4, WaitingIs
  <2>3. \A h \in Flushing : h[2] = r => h = Flusher(r) \/ h = LastFlush(r)
    BY Names
  <2> QED
    BY <1>1, <2>1, <2>2, <2>3
<1> QED
  BY <1>1, <1>2, <1>3, <1>5, <1>6 DEF r

\* The same afterwards, when no other flush of the request took a step.
LEMMA FlushedNext ==
  ASSUME Inv, NEW g \in Flushing, pc[g] \notin {"off", "select"},
         \A h \in Flushing \ {g} : batch'[h] = batch[h],
         batch'[g] \in Seq(Nat), pending'[g[2]] \in Seq(Nat)
  PROVE  Waiting(g[2])' = batch'[g] \o pending'[g[2]]
<1> DEFINE r == g[2]
<1>1. r \in Requests /\ (g = Flusher(r) \/ g = LastFlush(r))
      /\ Flusher(r) \in Flushing /\ LastFlush(r) \in Flushing /\ Flusher(r) # LastFlush(r)
      /\ Flusher(r)[2] = r /\ LastFlush(r)[2] = r
  BY Names, Apart
<1>2. \A h \in Flushing : h[2] = r /\ h # g => batch'[h] = <<>>
  BY Flushed
<1>3. Waiting(r)' = batch'[Flusher(r)] \o batch'[LastFlush(r)] \o pending'[r]
  BY WaitingNext
<1>4. batch'[g] \o <<>> = batch'[g] /\ <<>> \o batch'[g] = batch'[g]
  BY ConcatEmptySeq
<1> HIDE DEF r
<1>5. Waiting(r)' = batch'[g] \o pending'[r]
  <2>1. CASE g = Flusher(r)
    <3>1. batch'[LastFlush(r)] = <<>>
      BY <2>1, <1>1, <1>2
    <3> QED
      BY <2>1, <3>1, <1>3, <1>4
  <2>2. CASE g = LastFlush(r)
    <3>1. batch'[Flusher(r)] = <<>>
      BY <2>2, <1>1, <1>2
    <3> QED
      BY <2>2, <3>1, <1>3, <1>4
  <2> QED
    BY <1>1, <2>1, <2>2
<1> QED
  BY <1>5 DEF r

\* A flush moves on, by itself.
LEMMA FlushMoves ==
  ASSUME Inv, NEW g \in Flushing, pc[g] \notin {"off", "select"}, NEW l \in Places, Goto(g, l),
         l \in {"select", "off", "grab", "marshal", "post", "rescue"},
         l = "select" => g[1] = "flusher",
         l = "off" => g[1] = "last"
  PROVE  /\ pc' \in [Goroutines -> Places] /\ pc'[g] = l
         /\ \A h \in Goroutines \ {g} : pc'[h] = pc[h]
         /\ \A h \in Goroutines : h[2] # g[2] => pc'[h] = pc[h]
         /\ Phase(g[2])'
<1>1. g \in Goroutines /\ TypeOK
  BY Names DEF Inv
<1>2. pc' \in [Goroutines -> Places] /\ pc'[g] = l /\ \A h \in Goroutines \ {g} : pc'[h] = pc[h]
  BY <1>1, Gone
<1>3. \A h \in Goroutines : h[2] # g[2] => pc'[h] = pc[h]
  BY <1>2
<1> DEFINE r == g[2]
<1>4. r \in Requests /\ (g = Flusher(r) \/ g = LastFlush(r)) /\ Phase(r)
      /\ Flusher(r) \in Goroutines /\ LastFlush(r) \in Goroutines /\ Flusher(r) # LastFlush(r)
      /\ Handler(r) \in Goroutines /\ Handler(r) # Flusher(r) /\ Handler(r) # LastFlush(r)
      /\ Flusher(r)[1] = "flusher" /\ LastFlush(r)[1] = "last"
  BY Names, Apart, OfOne
<1> HIDE DEF r
<1>5. Phase(r)'
  <2>1. CASE g = Flusher(r)
    BY <2>1, <1>2, <1>4, Next1 DEF Phase
  <2>2. CASE g = LastFlush(r)
    BY <2>2, <1>2, <1>4, Next1 DEF Phase
  <2> QED
    BY <1>4, <2>1, <2>2
<1> QED
  BY <1>2, <1>3, <1>5 DEF r

\* How many flushes are to be counted when the last flush is at l and p is pending.
Due(l, p) == IF l = "marshal" \/ (l = "grab" /\ p # <<>>) THEN 1 ELSE 0

\* What a flush does to the lines, once its step and what waits after it are known.
LEMMA FlushInv ==
  ASSUME Inv, NEW g \in Flushing, pc[g] \notin {"off", "select"}, NEW l \in Places, Goto(g, l),
         l \in {"select", "off", "grab", "marshal", "post", "rescue"},
         l = "select" => g[1] = "flusher", l = "off" => g[1] = "last",
         NEW b \in Seq(Nat), NEW p \in Seq(Nat), NEW c \in Seq(Nat), NEW f \in Nat,
         Len(b) <= BatchSize, l \notin {"marshal", "post", "rescue"} => b = <<>>,
         batch' = [batch EXCEPT ![g] = b], pending' = [pending EXCEPT ![g[2]] = p],
         received' = [received EXCEPT ![g[2]] = c], flushes' = [flushes EXCEPT ![g[2]] = f],
         Range(received[g[2]]) \subseteq Range(c),
         Ascending(b \o p),
         Range(b \o p) \subseteq Range(Waiting(g[2])),
         Range(Waiting(g[2])) \subseteq Range(b \o p) \cup Range(c),
         f + Due(l, p) = flushes[g[2]] + Due(pc[g], pending[g[2]]) \/ g[1] = "flusher",
         UNCHANGED <<logged, header, heard, calls>>, Net'
  PROVE  Inv'
<1> DEFINE r == g[2]
<1>1. r \in Requests /\ (g = Flusher(r) \/ g = LastFlush(r)) /\ g \in Goroutines
      /\ Flusher(r) \in Flushing /\ LastFlush(r) \in Flushing /\ Flusher(r) # LastFlush(r)
      /\ Flusher(r) \in Goroutines /\ LastFlush(r) \in Goroutines
      /\ Handler(r) \in Goroutines /\ Handler(r) # Flusher(r) /\ Handler(r) # LastFlush(r)
      /\ Flusher(r)[1] = "flusher" /\ LastFlush(r)[1] = "last"
  BY Names, Apart
<1>2. /\ pc' \in [Goroutines -> Places] /\ pc'[g] = l
      /\ \A h \in Goroutines \ {g} : pc'[h] = pc[h]
      /\ \A h \in Goroutines : h[2] # r => pc'[h] = pc[h]
      /\ Phase(r)'
  BY FlushMoves
<1>3. /\ Phase(r) /\ Counted(r) /\ Batched(r) /\ Line(r)
      /\ \A h \in Flushing : h[2] = r /\ h # g => batch[h] = <<>>
      /\ g = Flusher(r) => pc[Handler(r)] # "over"
      /\ g = LastFlush(r) => pc[Handler(r)] = "over" /\ pc[Flusher(r)] = "off"
  BY Flushed
<1>4. /\ batch' \in [Flushing -> Seq(Nat)] /\ batch'[g] = b
      /\ \A h \in Flushing \ {g} : batch'[h] = batch[h]
  BY DEF Inv, TypeOK
<1>5. /\ pending' \in [Requests -> Seq(Nat)] /\ pending'[r] = p
      /\ \A q \in Requests \ {r} : pending'[q] = pending[q]
  BY <1>1 DEF Inv, TypeOK
<1>6. /\ received' \in [Requests -> Seq(Nat)] /\ received'[r] = c
      /\ \A q \in Requests \ {r} : received'[q] = received[q]
  BY <1>1 DEF Inv, TypeOK
<1>7. /\ flushes' \in [Requests -> Nat] /\ flushes'[r] = f
      /\ \A q \in Requests \ {r} : flushes'[q] = flushes[q]
  BY <1>1 DEF Inv, TypeOK
<1>8. Waiting(r)' = b \o p
  BY <1>4, <1>5, FlushedNext
<1>9. logged' = logged /\ header' = header /\ heard' = heard /\ calls' = calls
  OBVIOUS
<1>10. /\ Range(received[r]) \subseteq Range(c) /\ Ascending(b \o p)
       /\ Range(b \o p) \subseteq Range(Waiting(r))
       /\ Range(Waiting(r)) \subseteq Range(b \o p) \cup Range(c)
  OBVIOUS
<1>11. f + Due(l, p) = flushes[r] + Due(pc[g], pending[r]) \/ g[1] = "flusher"
  OBVIOUS
<1>12. \A h \in Flushing : Len(batch'[h]) <= BatchSize
  BY <1>4 DEF Inv, TypeOK
<1> HIDE DEF r
<1>13. Line(r)'
  <2>1. Ascending(b \o p)' /\ \A x \in Range(b \o p) : x <= logged[r]
    BY <1>3, <1>10 DEF Line
  <2>2. \A x \in 1..logged[r] : x \in Range(b \o p) \cup Range(c)
    BY <1>3, <1>10 DEF Line
  <2>3. /\ Ascending(Waiting(r)') /\ \A x \in Range(Waiting(r)') : x <= logged'[r]
        /\ \A x \in 1..logged'[r] : x \in Range(Waiting(r)') \cup Range(received'[r])
    BY <2>1, <2>2, <1>6, <1>8, <1>9, <1>10
  <2> QED
    BY <2>3 DEF Line, Ascending
<1>14. Batched(r)'
  <2>1. pc'[g] \notin {"marshal", "post", "rescue"} => batch'[g] = <<>>
    BY <1>2, <1>4
  <2>2. \A h \in Flushing : h \in {Flusher(r), LastFlush(r)} /\ h # g => batch'[h] = <<>>
    BY <1>1, <1>3, <1>4, Names
  <2> QED
    <3>1. \A h \in {Flusher(r), LastFlush(r)} :
            pc'[h] \notin {"marshal", "post", "rescue"} => batch'[h] = <<>>
      BY <1>1, <2>1, <2>2
    <3> QED
      BY <3>1, Next1
<1>15. Counted(r)'
  <2>1. CASE g = Flusher(r)
    <3>1. pc'[Handler(r)] # "over"
      BY <2>1, <1>1, <1>2, <1>3
    <3>2. heard'[r] <= logged'[r]
      BY <1>3, <1>9 DEF Counted
    <3> QED
      BY <3>1, <3>2, Next1
  <2>2. CASE g = LastFlush(r)
    <3>1. pc'[Handler(r)] = "over" /\ pc'[LastFlush(r)] = l /\ pc[Handler(r)] = "over"
          /\ pc[LastFlush(r)] = pc[g]
      BY <2>2, <1>1, <1>2, <1>3
    <3>2. /\ heard[r] <= logged[r]
          /\ heard[r] = logged[r] =>
               header[r] = flushes[r] + Due(pc[g], pending[r])
      BY <1>3, <3>1 DEF Counted, Due
    <3>3. heard[r] = logged[r] =>
               header[r] = f + Due(l, p)
      BY <2>2, <3>2, <1>1, <1>11
    <3> QED
      BY <3>1, <3>2, <3>3, <1>5, <1>7, <1>9, Next1 DEF Due
  <2> QED
    BY <1>1, <2>1, <2>2
<1>16. Step(r)
  <2>1. logged' \in [Requests -> Nat] /\ header' \in [Requests -> Nat]
        /\ heard' \in [Requests -> Nat] /\ calls' \in 0..MaxCalls
    BY <1>9 DEF Inv, TypeOK
  <2>2. \A h \in Flushing : h[2] # r => batch'[h] = batch[h]
    BY <1>4 DEF r
  <2> QED
    BY <2>1, <2>2, <1>2, <1>4, <1>5, <1>6, <1>7, <1>9, <1>12 DEF Step
<1> QED
  BY <1>1, <1>2, <1>13, <1>14, <1>15, <1>16, StepInv

LEMMA TickInv ==
  ASSUME Inv, NEW r \in Requests, Tick(r)
  PROVE  Inv'
<1>1. /\ pc' \in [Goroutines -> Places] /\ pc'[Flusher(r)] = "grab"
      /\ \A g \in Goroutines \ {Flusher(r)} : pc'[g] = pc[g]
  <2>1. Flusher(r) \in Goroutines /\ TypeOK /\ "grab" \in Places /\ Goto(Flusher(r), "grab")
    BY Names DEF Inv, Places, Tick
  <2> QED
    BY <2>1, Gone
<1>2. Phase(r) /\ Counted(r) /\ Batched(r) /\ pc[Flusher(r)] = "select"
  BY OfOne DEF Tick
<1>3. UNCHANGED <<logged, pending, flushes, batch, header, heard, received, calls, net>>
  BY DEF Tick, lines
<1>4. Phase(r)' /\ Counted(r)'
  BY <1>1, <1>2, <1>3, Next1, Names, Apart DEF Phase, Counted
<1>5. \A g \in Flushing : pc'[g] = pc[g] \/ batch[g] = <<>>
  BY <1>1, <1>2, Names DEF Batched
<1>6. \A g \in Goroutines : g[2] # r => pc'[g] = pc[g]
  BY <1>1, Names
<1>7. \A g \in Goroutines : Calling(g) => pc'[g] \in {"call", "post"}
  BY <1>1, <1>2 DEF Calling
<1>8. Net'
  BY <1>3, <1>7, NetIs
<1>9. /\ calls' \in 0..MaxCalls
      /\ flushes' \in [Requests -> Nat] /\ header' \in [Requests -> Nat] /\ heard' \in [Requests -> Nat]
  BY <1>3 DEF Inv, TypeOK
<1> QED
  BY <1>1, <1>3, <1>4, <1>5, <1>6, <1>8, <1>9, Moves

\* What a flush that stays off the network keeps.
LEMMA Unsent ==
  ASSUME Inv, NEW g \in Flushing, ~Calling(g), NEW l \in Places, Goto(g, l), UNCHANGED net
  PROVE  Net'
<1>1. \A h \in Goroutines \ {g} : pc'[h] = pc[h]
  BY Gone, Names DEF Inv
<1>2. \A h \in Goroutines : Calling(h) => pc'[h] \in {"call", "post"}
  BY <1>1 DEF Calling
<1> QED
  BY <1>2, NetIs

LEMMA Ends ==
  ASSUME NEW g \in Flushing, FlushEnd(g)
  PROVE  \E l \in Places : /\ Goto(g, l) /\ l \in {"select", "off"}
                           /\ l = "select" => g[1] = "flusher"
                           /\ l = "off" => g[1] = "last"
<1>1. g[1] \in {"flusher", "last"}
  BY DEF Flushing
<1>2. CASE g[1] = "flusher"
  BY <1>2 DEF FlushEnd, Places
<1>3. CASE g[1] = "last"
  BY <1>3 DEF FlushEnd, Places
<1> QED
  BY <1>1, <1>2, <1>3

\* A flush is over without a call: what is pending afterwards is what waited.
LEMMA FlushOver ==
  ASSUME Inv, NEW g \in Flushing, pc[g] \in {"grab", "rescue"}, FlushEnd(g),
         pc[g] = "grab" => pending[g[2]] = <<>>,
         batch' = [batch EXCEPT ![g] = <<>>], pending' = [pending EXCEPT ![g[2]] = Waiting(g[2])],
         UNCHANGED <<logged, flushes, header, heard, received, calls, net>>
  PROVE  Inv'
<1> DEFINE r == g[2]
<1>1. r \in Requests /\ Line(r) /\ received[r] \in Seq(Nat) /\ Waiting(r) \in Seq(Nat)
      /\ <<>> \in Seq(Nat) /\ flushes[r] \in Nat
  BY Flushed, EmptySeq DEF Inv, TypeOK
<1> SUFFICES ASSUME NEW l \in Places, Goto(g, l), l \in {"select", "off"},
                    l = "select" => g[1] = "flusher", l = "off" => g[1] = "last",
                    NEW b \in Seq(Nat), b = <<>>, NEW p \in Seq(Nat), p = Waiting(r),
                    NEW c \in Seq(Nat), c = received[r], NEW f \in Nat, f = flushes[r]
             PROVE  Inv'
  BY <1>1, Ends
<1>2. b \o p = p /\ Len(b) <= BatchSize
  BY ConcatEmptySeq, EmptySeq, Assumed
<1>3. /\ received' = [received EXCEPT ![r] = c] /\ flushes' = [flushes EXCEPT ![r] = f]
      /\ batch' = [batch EXCEPT ![g] = b] /\ pending' = [pending EXCEPT ![r] = p]
  BY DEF Inv, TypeOK
<1>4. Ascending(b \o p) /\ Range(b \o p) \subseteq Range(Waiting(r))
      /\ Range(Waiting(r)) \subseteq Range(b \o p) \cup Range(c)
      /\ Range(received[r]) \subseteq Range(c)
  BY <1>1, <1>2 DEF Line
<1>5. Net'
  BY Unsent DEF Calling
<1>6. /\ l \in {"select", "off", "grab", "marshal", "post", "rescue"}
      /\ pc[g] \notin {"off", "select"}
      /\ f + Due(l, p) = flushes[r] + Due(pc[g], pending[r])
  BY DEF Due
<1>7. UNCHANGED <<logged, header, heard, calls>> /\ (l \notin {"marshal", "post", "rescue"} => b = <<>>)
  OBVIOUS
<1> QED
  BY ONLY Inv, g \in Flushing, l \in Places, Goto(g, l),
          l = "select" => g[1] = "flusher", l = "off" => g[1] = "last",
          b \in Seq(Nat), p \in Seq(Nat), c \in Seq(Nat), f \in Nat,
          <1>2, <1>3, <1>4, <1>5, <1>6, <1>7, FlushInv

LEMMA GrabNothingInv ==
  ASSUME Inv, NEW g \in Flushing, GrabNothing(g)
  PROVE  Inv'
<1> DEFINE r == g[2]
<1>1. pc[g] = "grab" /\ pending[r] = <<>> /\ FlushEnd(g)
      /\ UNCHANGED <<logged, pending, flushes, batch, header, heard, received, calls, net>>
  BY DEF GrabNothing, lines
<1>2. r \in Requests /\ Batched(r) /\ Waiting(r) = batch[g] \o pending[r]
  BY <1>1, Flushed
<1>3. batch[g] = <<>>
  BY <1>1, <1>2, Names DEF Batched
<1>4. Waiting(r) = pending[r]
  BY <1>1, <1>2, <1>3
<1>5. batch' = [batch EXCEPT ![g] = <<>>] /\ pending' = [pending EXCEPT ![r] = Waiting(r)]
  BY <1>1, <1>2, <1>3, <1>4 DEF Inv, TypeOK
<1> QED
  BY <1>1, <1>5, FlushOver

LEMMA GrabInv ==
  ASSUME Inv, NEW g \in Flushing, Grab(g)
  PROVE  Inv'
<1> DEFINE r == g[2]
           n == IF Len(pending[r]) < BatchSize THEN Len(pending[r]) ELSE BatchSize
           b == SubSeq(pending[r], 1, n)
           p == SubSeq(pending[r], n + 1, Len(pending[r]))
<1>1. /\ pc[g] = "grab" /\ (n > 0 \/ g[1] = "flusher") /\ Goto(g, "marshal")
      /\ batch' = [batch EXCEPT ![g] = b] /\ pending' = [pending EXCEPT ![r] = p]
      /\ UNCHANGED <<logged, flushes, header, heard, received, calls, net>>
  BY DEF Grab
<1>2. r \in Requests /\ Line(r) /\ batch[g] \in Seq(Nat) /\ pending[r] \in Seq(Nat)
      /\ received[r] \in Seq(Nat) /\ Waiting(r) = batch[g] \o pending[r] /\ Batched(r)
  BY <1>1, Flushed
<1>3. batch[g] = <<>> /\ flushes[r] \in Nat
  BY <1>1, <1>2, Names DEF Batched, Inv, TypeOK
<1>4. Waiting(r) = pending[r]
  BY <1>2, <1>3, ConcatEmptySeq
<1>5. n \in 0..Len(pending[r]) /\ n <= BatchSize /\ (n > 0 => pending[r] # <<>>)
  BY <1>2, LenProperties, Assumed
<1>6. b \in Seq(Nat) /\ p \in Seq(Nat) /\ b \o p = pending[r] /\ Len(b) <= BatchSize
  BY <1>2, <1>5, Halves
<1>7. /\ received' = [received EXCEPT ![r] = received[r]] /\ flushes' = [flushes EXCEPT ![r] = flushes[r]]
  BY <1>1 DEF Inv, TypeOK
<1>8. Ascending(b \o p) /\ Range(b \o p) \subseteq Range(Waiting(r))
      /\ Range(Waiting(r)) \subseteq Range(b \o p) \cup Range(received[r])
  BY <1>2, <1>4, <1>6 DEF Line
<1>9. "marshal" \in Places
  BY DEF Places
<1>10. Net'
  BY <1>1, <1>9, Unsent DEF Calling
<1>11. pending[r] # <<>> \/ g[1] = "flusher"
  BY <1>1, <1>5
<1>12. flushes[r] + Due("marshal", p) = flushes[r] + Due(pc[g], pending[r]) \/ g[1] = "flusher"
  BY <1>1, <1>11 DEF Due
<1> HIDE DEF n, b, p
<1> QED
  BY <1>1, <1>2, <1>3, <1>12, <1>6, <1>7, <1>8, <1>9, <1>10, <1>11, FlushInv

LEMMA MarshalInv ==
  ASSUME Inv, NEW g \in Flushing, Marshal(g)
  PROVE  Inv'
<1> DEFINE r == g[2]
           f == flushes[r] + 1
<1>1. /\ pc[g] = "marshal" /\ Goto(g, "post") /\ flushes' = [flushes EXCEPT ![r] = f]
      /\ UNCHANGED <<logged, pending, batch, header, heard, received, calls, net>>
  BY DEF Marshal
<1>2. r \in Requests /\ Line(r) /\ batch[g] \in Seq(Nat) /\ pending[r] \in Seq(Nat)
      /\ received[r] \in Seq(Nat) /\ Waiting(r) = batch[g] \o pending[r]
  BY <1>1, Flushed
<1>3. f \in Nat /\ Len(batch[g]) <= BatchSize
  BY <1>2 DEF Inv, TypeOK
<1>4. /\ batch' = [batch EXCEPT ![g] = batch[g]] /\ pending' = [pending EXCEPT ![r] = pending[r]]
      /\ received' = [received EXCEPT ![r] = received[r]]
  BY <1>1 DEF Inv, TypeOK
<1>5. Ascending(batch[g] \o pending[r]) /\ Range(batch[g] \o pending[r]) \subseteq Range(Waiting(r))
      /\ Range(Waiting(r)) \subseteq Range(batch[g] \o pending[r]) \cup Range(received[r])
  BY <1>2 DEF Line
<1>6. "post" \in Places
  BY DEF Places
<1>7. Net'
  BY <1>1, <1>6, Unsent DEF Calling
<1>8. f + Due("post", pending[r]) = flushes[r] + Due(pc[g], pending[r])
  BY <1>1, <1>2 DEF Inv, TypeOK, Due
<1> HIDE DEF f
<1> QED
  BY <1>1, <1>2, <1>3, <1>4, <1>5, <1>6, <1>7, <1>8, FlushInv

LEMMA RescueInv ==
  ASSUME Inv, NEW g \in Flushing, Rescue(g)
  PROVE  Inv'
<1>1. pc[g] = "rescue"
  BY DEF Rescue
<1>2. Waiting(g[2]) = batch[g] \o pending[g[2]]
  BY <1>1, Flushed
<1>3. pending' = [pending EXCEPT ![g[2]] = Waiting(g[2])]
  BY <1>2 DEF Rescue
<1> QED
  BY <1>1, <1>3, FlushOver DEF Rescue

-----------------------------------------------------------------------------
(* The connections.                                                        *)

LEMMA HoldingIs ==
  ASSUME Inv
  PROVE  /\ IsFiniteSet(Holding) /\ Cardinality(Holding) \in Nat /\ sem = Cardinality(Holding)
         /\ sem \in 0..Limit /\ Limit \in Nat
         /\ \A k \in Holding : sem > 0
<1>1. IsFiniteSet(Holding)
  BY Assumed, FS_Subset DEF Holding
<1>2. Cardinality(Holding) \in Nat /\ sem = Cardinality(Holding) /\ sem \in 0..Limit /\ Limit \in Nat
  BY <1>1, FS_CardinalityType, Assumed DEF Inv, LimitHolds, TypeOK
<1>3. \A k \in Holding : Cardinality(Holding) # 0
  BY <1>1, FS_EmptySet
<1> QED
  BY <1>1, <1>2, <1>3

\* A connection that nobody uses changes its state, and with it its place.
LEMMA NetInv ==
  ASSUME Inv, UNCHANGED <<pc, lines, calls>>, Net'
  PROVE  Inv'
<1>1. Lines'
  <2>1. \A r \in Requests : Waiting(r)' = Waiting(r)
    BY WaitingStays DEF lines
  <2> QED
    BY <2>1 DEF Inv, Lines, lines
<1>2. Phases' /\ Batches' /\ Counts'
  <2>1. Phases'
    BY PhasesAre, Next1 DEF Inv, Phases, Phase
  <2>2. Batches'
    BY DEF Inv, Batches, lines
  <2>3. Counts'
    BY PhasesAre, Next1 DEF Inv, Counts, Counted, lines
  <2> QED
    BY <2>1, <2>2, <2>3
<1>3. TypeOK'
  BY DEF Inv, TypeOK, Net, lines
<1> QED
  BY <1>1, <1>2, <1>3 DEF Inv, Net

LEMMA Unused ==
  ASSUME Inv, NEW k \in Conns, link[k] # "busy", NEW s \in {"dialing", "idle", "closing", "closed"},
         link' = [link EXCEPT ![k] = s], UNCHANGED <<pc, lines, calls, using>>,
         sem' \in 0..Limit, LimitHolds'
  PROVE  Inv'
<1>1. link' \in [Conns -> {"dialing", "idle", "busy", "closing", "closed"}]
      /\ \A j \in Conns : link[j] = "busy" => link'[j] = "busy"
  BY DEF Inv, TypeOK
<1>2. Links'
  <2>1. \A g \in Goroutines : using[g] # None => using[g] \in Conns
    BY DEF Inv, TypeOK
  <2> QED
    BY <1>1, <2>1 DEF Inv, Links, Calling
<1>3. Net'
  BY <1>1, <1>2 DEF Net, Inv, TypeOK
<1> QED
  BY <1>3, NetInv

LEMMA DialInv ==
  ASSUME Inv, NEW k \in Conns, Dial(k)
  PROVE  Inv'
<1>1. /\ link[k] = "closed" /\ sem < Limit /\ sem' = sem + 1 /\ link' = [link EXCEPT ![k] = "dialing"]
      /\ UNCHANGED <<pc, lines, calls, using>>
  BY DEF Dial
<1>2. Holding' = Holding \cup {k} /\ k \notin Holding
  BY <1>1 DEF Holding, Inv, TypeOK
<1>3. Cardinality(Holding \cup {k}) = Cardinality(Holding) + 1
  BY <1>2, HoldingIs, FS_AddElement
<1>4. LimitHolds'
  BY <1>1, <1>2, <1>3, HoldingIs DEF LimitHolds
<1>5. sem' \in 0..Limit
  BY <1>1, HoldingIs
<1> QED
  BY <1>1, <1>4, <1>5, Unused

LEMMA DialedInv ==
  ASSUME Inv, NEW k \in Conns, Dialed(k)
  PROVE  Inv'
<1>1. /\ link[k] = "dialing" /\ link' = [link EXCEPT ![k] = "idle"]
      /\ UNCHANGED <<pc, lines, calls, sem, using>>
  BY DEF Dialed
<1>2. Holding' = Holding
  BY <1>1 DEF Holding, Inv, TypeOK
<1>3. LimitHolds' /\ sem' \in 0..Limit
  BY <1>1, <1>2, HoldingIs DEF LimitHolds
<1> QED
  BY <1>1, <1>3, Unused

\* A connection gives its place back when it begins to be closed, and there is one.
LEMMA PlaceBack ==
  ASSUME Inv, NEW k \in Holding, NEW l \in {"closing", "closed"},
         link' = [link EXCEPT ![k] = l], LimitRelease
  PROVE  LimitHolds' /\ sem' \in 0..Limit
<1>1. Holding' = Holding \ {k}
  BY DEF Holding, Inv, TypeOK
<1>2. Cardinality(Holding \ {k}) = Cardinality(Holding) - 1
  BY HoldingIs, FS_RemoveElement
<1>3. sem' = sem - 1
  BY HoldingIs DEF LimitRelease
<1> QED
  BY <1>1, <1>2, <1>3, HoldingIs DEF LimitHolds

LEMMA DialFailsInv ==
  ASSUME Inv, NEW k \in Conns, DialFails(k)
  PROVE  Inv'
<1>1. k \in Holding /\ link[k] = "dialing"
  BY DEF DialFails, Holding
<1> QED
  BY <1>1, PlaceBack, Unused DEF DialFails

LEMMA CloseInv ==
  ASSUME Inv, NEW k \in Conns, Close(k)
  PROVE  Inv'
<1>1. UNCHANGED <<pc, lines, calls, using>>
  BY DEF Close
<1>2. CASE link[k] = "idle"
  <2>1. k \in Holding /\ link' = [link EXCEPT ![k] = "closing"] /\ LimitRelease
    BY <1>2 DEF Close, Holding
  <2>2. LimitHolds' /\ sem' \in 0..Limit
    BY <2>1, PlaceBack
  <2> QED
    BY <1>1, <1>2, <2>1, <2>2, Unused
<1>3. CASE link[k] \in {"closing", "closed"}
  <2>1. sem' = sem /\ link' = [link EXCEPT ![k] = link[k]] /\ link' = link
    BY <1>3 DEF Close, Inv, TypeOK
  <2>2. LimitHolds' /\ sem' \in 0..Limit
    BY <2>1, HoldingIs DEF LimitHolds, Holding
  <2> QED
    BY <1>1, <1>3, <2>1, <2>2, Unused
<1> QED
  BY <1>2, <1>3 DEF Close

\* The place was given back before.
LEMMA ClosedInv ==
  ASSUME Inv, NEW k \in Conns, Closed(k)
  PROVE  Inv'
<1>1. /\ link[k] = "closing" /\ link' = [link EXCEPT ![k] = "closed"]
      /\ UNCHANGED <<pc, lines, calls, sem, using>>
  BY DEF Closed
<1>2. Holding' = Holding
  BY <1>1 DEF Holding, Inv, TypeOK
<1>3. LimitHolds' /\ sem' \in 0..Limit
  BY <1>1, <1>2, HoldingIs DEF LimitHolds
<1> QED
  BY <1>1, <1>3, Unused

LEMMA SendInv ==
  ASSUME Inv, NEW g \in Goroutines, Send(g)
  PROVE  Inv'
<1>1. PICK k \in Conns : /\ link[k] = "idle" /\ link' = [link EXCEPT ![k] = "busy"]
                         /\ using' = [using EXCEPT ![g] = k]
  BY DEF Send
<1>2. Calling(g) /\ using[g] = None /\ UNCHANGED <<pc, lines, calls, sem>>
  BY DEF Send
<1>3. /\ link' \in [Conns -> {"dialing", "idle", "busy", "closing", "closed"}] /\ link'[k] = "busy"
      /\ \A j \in Conns \ {k} : link'[j] = link[j]
      /\ using' \in [Goroutines -> Conns \cup {None}] /\ using'[g] = k
      /\ \A h \in Goroutines \ {g} : using'[h] = using[h]
  BY <1>1 DEF Inv, TypeOK
<1>4. \A h \in Goroutines : using[h] # k
  BY <1>1, Assumed DEF Inv, Links
<1>5. Holding' = Holding
  BY <1>1, <1>3 DEF Holding
<1>6. Links'
  <2> SUFFICES ASSUME NEW h \in Goroutines, using'[h] # None
               PROVE  /\ Calling(h)' /\ link'[using'[h]] = "busy"
                      /\ \A x \in Goroutines : using'[x] = using'[h] => x = h
    BY DEF Links
  <2>1. CASE h = g
    BY <2>1, <1>2, <1>3, <1>4 DEF Calling
  <2>2. CASE h # g
    <3>1. using[h] # None /\ using[h] \in Conns \ {k} /\ using'[h] = using[h]
      BY <2>2, <1>3, <1>4 DEF Inv, TypeOK
    <3>2. Calling(h) /\ link[using[h]] = "busy" /\ \A x \in Goroutines : using[x] = using[h] => x = h
      BY <3>1 DEF Inv, Links
    <3> QED
      BY <3>1, <3>2, <1>2, <1>3 DEF Calling
  <2> QED
    BY <2>1, <2>2
<1>7. Net'
  BY <1>2, <1>3, <1>5, <1>6, HoldingIs DEF Net, LimitHolds
<1> QED
  BY <1>2, <1>7, NetInv

-----------------------------------------------------------------------------
(* The calls.                                                              *)

\* A call ends, and lets its connection go.
LEMMA Released ==
  ASSUME Inv, NEW g \in Goroutines, Release(g), \A h \in Goroutines \ {g} : pc'[h] = pc[h]
  PROVE  Net'
<1>1. /\ using' = [using EXCEPT ![g] = None]
      /\ using' \in [Goroutines -> Conns \cup {None}] /\ using'[g] = None
      /\ \A h \in Goroutines \ {g} : using'[h] = using[h]
  BY DEF Release, Inv, TypeOK
<1>2. \A h \in Goroutines \ {g} : using[h] # None =>
        /\ using[h] \in Conns /\ using[h] # using[g]
        /\ Calling(h) /\ link[using[h]] = "busy"
        /\ \A x \in Goroutines : using[x] = using[h] => x = h
  BY DEF Inv, TypeOK, Links
<1>3. ASSUME \A k \in Conns : k # using[g] => link'[k] = link[k]
      PROVE  Links'
  <2> SUFFICES ASSUME NEW h \in Goroutines, using'[h] # None
               PROVE  /\ Calling(h)' /\ link'[using'[h]] = "busy"
                      /\ \A x \in Goroutines : using'[x] = using'[h] => x = h
    BY DEF Links
  <2>1. h # g /\ using'[h] = using[h] /\ pc'[h] = pc[h]
    BY <1>1
  <2> QED
    BY <2>1, <1>1, <1>2, <1>3 DEF Calling
<1>4. CASE link' = [k \in Conns |-> IF k = using[g] THEN "idle" ELSE link[k]] /\ UNCHANGED sem
  <2>1. link' \in [Conns -> {"dialing", "idle", "busy", "closing", "closed"}]
        /\ \A k \in Conns : k # using[g] => link'[k] = link[k]
    BY <1>4 DEF Inv, TypeOK
  <2>2. using[g] # None => link[using[g]] = "busy"
    BY DEF Inv, Links
  <2>3. Holding' = Holding
    BY <1>4, <2>2, Assumed DEF Holding
  <2> QED
    BY <1>1, <1>3, <1>4, <2>1, <2>3, HoldingIs DEF Net, LimitHolds
<1>5. CASE using[g] # None /\ link' = [link EXCEPT ![using[g]] = "closing"] /\ LimitRelease
  <2>1. using[g] \in Holding
    BY <1>5 DEF Inv, TypeOK, Links, Holding
  <2>2. link' \in [Conns -> {"dialing", "idle", "busy", "closing", "closed"}]
        /\ \A k \in Conns : k # using[g] => link'[k] = link[k]
    BY <1>5, <2>1 DEF Inv, TypeOK, Holding
  <2>3. LimitHolds' /\ sem' \in 0..Limit
    BY <1>5, <2>1, PlaceBack
  <2> QED
    BY <1>1, <1>3, <2>2, <2>3 DEF Net
<1> QED
  BY <1>4, <1>5 DEF Release

\* The call of an application ends.
LEMMA CallEnds ==
  ASSUME Inv, NEW g \in Goroutines, g[1] = "handler", Calling(g), Release(g), Goto(g, "serve"),
         UNCHANGED <<logged, pending, flushes, batch, header, heard, received, calls>>
  PROVE  Inv'
<1> DEFINE r == g[2]
<1>1. r \in Requests /\ g = Handler(r) /\ Handler(r) \in Goroutines /\ "serve" \in Places
  BY Names DEF Places, Flushing
<1>2. /\ pc' \in [Goroutines -> Places] /\ pc'[g] = "serve"
      /\ \A h \in Goroutines \ {g} : pc'[h] = pc[h]
  BY <1>1, Gone DEF Inv
<1>3. Net'
  BY <1>2, Released
<1>4. Phase(r) /\ Counted(r) /\ pc[Handler(r)] = "call"
  BY <1>1, OfOne DEF Calling, Phase
<1>5. Phase(r)' /\ Counted(r)'
  BY <1>1, <1>2, <1>4, Next1, Names, Apart DEF Phase, Counted
<1>6. \A h \in Flushing : pc'[h] = pc[h]
  BY <1>1, <1>2, Names, Apart
<1>7. \A h \in Goroutines : h[2] # r => pc'[h] = pc[h]
  BY <1>2
<1>8. /\ calls' \in 0..MaxCalls
      /\ flushes' \in [Requests -> Nat] /\ header' \in [Requests -> Nat] /\ heard' \in [Requests -> Nat]
  BY DEF Inv, TypeOK
<1> HIDE DEF r
<1> QED
  BY <1>1, <1>2, <1>3, <1>5, <1>6, <1>7, <1>8, Moves

LEMMA Posting ==
  ASSUME Inv, NEW g \in Goroutines, Calling(g), g[1] # "handler"
  PROVE  g \in Flushing /\ pc[g] = "post"
<1>1. g \in Flushing
  BY DEF Goroutines, Flushing
<1> QED
  BY <1>1, OfOne, Names DEF Calling, Phase

\* A flush is over, or its lines go back: what the log service has got, c, and what
\* is still in the batch, b.
LEMMA PostEnds ==
  ASSUME Inv, NEW g \in Flushing, pc[g] = "post", Release(g), NEW l \in Places, Goto(g, l),
         l \in {"select", "off", "rescue"},
         l = "select" => g[1] = "flusher", l = "off" => g[1] = "last",
         NEW b \in Seq(Nat), NEW c \in Seq(Nat),
         Len(b) <= BatchSize, l # "rescue" => b = <<>>,
         batch' = [batch EXCEPT ![g] = b], received' = [received EXCEPT ![g[2]] = c],
         Range(received[g[2]]) \subseteq Range(c),
         Ascending(b \o pending[g[2]]),
         Range(b \o pending[g[2]]) \subseteq Range(Waiting(g[2])),
         Range(Waiting(g[2])) \subseteq Range(b \o pending[g[2]]) \cup Range(c),
         UNCHANGED <<logged, pending, flushes, header, heard, calls>>
  PROVE  Inv'
<1> DEFINE r == g[2]
<1>1. r \in Requests /\ g \in Goroutines /\ pending[r] \in Seq(Nat) /\ flushes[r] \in Nat
  BY Flushed, Names DEF Inv, TypeOK
<1>2. \A h \in Goroutines \ {g} : pc'[h] = pc[h]
  BY <1>1, Gone DEF Inv
<1>3. Net'
  BY <1>1, <1>2, Released
<1>4. pending' = [pending EXCEPT ![r] = pending[r]] /\ flushes' = [flushes EXCEPT ![r] = flushes[r]]
  BY DEF Inv, TypeOK
<1>5. /\ l \in {"select", "off", "grab", "marshal", "post", "rescue"}
      /\ pc[g] \notin {"off", "select"}
      /\ l \notin {"marshal", "post", "rescue"} => b = <<>>
      /\ flushes[r] + Due(l, pending[r]) = flushes[r] + Due(pc[g], pending[r])
  BY DEF Due
<1> QED
  BY <1>1, <1>3, <1>4, <1>5, FlushInv

LEMMA AnswerInv ==
  ASSUME Inv, NEW g \in Goroutines, Answer(g)
  PROVE  Inv'
<1>1. CASE g[1] = "handler"
  BY <1>1, CallEnds DEF Answer, lines
<1>2. CASE g[1] # "handler"
  <2> DEFINE r == g[2]
             c == received[r] \o batch[g]
  <2>1. g \in Flushing /\ pc[g] = "post"
    BY <1>2, Posting DEF Answer
  <2>2. /\ Release(g) /\ FlushEnd(g) /\ received' = [received EXCEPT ![r] = c]
        /\ batch' = [batch EXCEPT ![g] = <<>>]
        /\ UNCHANGED <<logged, pending, flushes, header, heard, calls>>
    BY <1>2 DEF Answer, Receive
  <2>3. r \in Requests /\ Line(r) /\ batch[g] \in Seq(Nat) /\ pending[r] \in Seq(Nat)
        /\ received[r] \in Seq(Nat) /\ Waiting(r) = batch[g] \o pending[r]
    BY <2>1, Flushed
  <2>4. c \in Seq(Nat) /\ Range(c) = Range(received[r]) \cup Range(batch[g])
    BY <2>3, ConcatProperties, RangeConcatenation
  <2>5. Range(Waiting(r)) = Range(batch[g]) \cup Range(pending[r])
    BY <2>3, RangeConcatenation
  <2>6. Ascending(pending[r])
    <3>1. Ascending(batch[g] \o pending[r])
      BY <2>3 DEF Line
    <3> QED
      BY <2>3, <3>1, AscendingTail
  <2>7. <<>> \in Seq(Nat) /\ Len(<<>>) <= BatchSize /\ <<>> \o pending[r] = pending[r]
    BY <2>3, Assumed, EmptySeq, ConcatEmptySeq
  <2>8. /\ Ascending(<<>> \o pending[r]) /\ Range(<<>> \o pending[r]) \subseteq Range(Waiting(r))
        /\ Range(Waiting(r)) \subseteq Range(<<>> \o pending[r]) \cup Range(c)
        /\ Range(received[r]) \subseteq Range(c)
    BY <2>4, <2>5, <2>6, <2>7
  <2> SUFFICES ASSUME NEW l \in Places, Goto(g, l), l \in {"select", "off"},
                      l = "select" => g[1] = "flusher", l = "off" => g[1] = "last"
               PROVE  Inv'
    BY <2>1, <2>2, Ends
  <2>9. l \in {"select", "off", "rescue"} /\ (l # "rescue" => <<>> = <<>>)
    OBVIOUS
  <2> HIDE DEF c
  <2> QED
    BY <2>1, <2>2, <2>4, <2>7, <2>8, <2>9, PostEnds
<1> QED
  BY <1>1, <1>2

\* A flush fails: its lines go back, and the log service may have got them, c.
LEMMA FlushFails ==
  ASSUME Inv, NEW g \in Flushing, pc[g] = "post", Release(g), Goto(g, "rescue"),
         NEW c \in Seq(Nat), Range(received[g[2]]) \subseteq Range(c),
         received' = [received EXCEPT ![g[2]] = c],
         UNCHANGED <<logged, pending, flushes, batch, header, heard, calls>>
  PROVE  Inv'
<1> DEFINE r == g[2]
<1>1. r \in Requests /\ Line(r) /\ batch[g] \in Seq(Nat) /\ Waiting(r) = batch[g] \o pending[r]
  BY Flushed
<1>2. batch' = [batch EXCEPT ![g] = batch[g]] /\ Len(batch[g]) <= BatchSize
  BY DEF Inv, TypeOK
<1>3. /\ Ascending(batch[g] \o pending[r]) /\ Range(batch[g] \o pending[r]) \subseteq Range(Waiting(r))
      /\ Range(Waiting(r)) \subseteq Range(batch[g] \o pending[r]) \cup Range(c)
  BY <1>1 DEF Line
<1>4. "rescue" \in Places
  BY DEF Places
<1> QED
  BY <1>1, <1>2, <1>3, <1>4, PostEnds

LEMMA NoAnswerInv ==
  ASSUME Inv, NEW g \in Goroutines, NoAnswer(g)
  PROVE  Inv'
<1>1. CASE g[1] = "handler"
  BY <1>1, CallEnds DEF NoAnswer, lines
<1>2. CASE g[1] # "handler"
  <2>1. g \in Flushing /\ pc[g] = "post"
    BY <1>2, Posting DEF NoAnswer
  <2>2. received[g[2]] \in Seq(Nat) /\ received = [received EXCEPT ![g[2]] = received[g[2]]]
    BY <2>1, Flushed DEF Inv, TypeOK
  <2>3. Release(g) /\ Goto(g, "rescue")
        /\ UNCHANGED <<logged, pending, flushes, batch, header, heard, received, calls>>
    BY <1>2 DEF NoAnswer, lines
  <2> QED
    BY <2>1, <2>2, <2>3, FlushFails
<1> QED
  BY <1>1, <1>2

LEMMA LateAnswerInv ==
  ASSUME Inv, NEW g \in Goroutines, LateAnswer(g)
  PROVE  Inv'
<1>1. CASE g[1] = "handler"
  BY <1>1, CallEnds DEF LateAnswer
<1>2. CASE g[1] # "handler"
  <2> DEFINE c == received[g[2]] \o batch[g]
  <2>1. g \in Flushing /\ pc[g] = "post"
    BY <1>2, Posting DEF LateAnswer
  <2>2. Release(g) /\ Goto(g, "rescue") /\ received' = [received EXCEPT ![g[2]] = c]
        /\ UNCHANGED <<logged, pending, flushes, batch, header, heard, calls>>
    BY <1>2 DEF LateAnswer, Receive
  <2>3. received[g[2]] \in Seq(Nat) /\ batch[g] \in Seq(Nat)
    BY <2>1, Flushed
  <2>4. c \in Seq(Nat) /\ Range(received[g[2]]) \subseteq Range(c)
    BY <2>3, ConcatProperties, RangeConcatenation
  <2> HIDE DEF c
  <2> QED
    BY <2>1, <2>2, <2>4, FlushFails
<1> QED
  BY <1>1, <1>2

-----------------------------------------------------------------------------
(* The theorems.                                                           *)

LEMMA InitInv == Init => Inv
<1> SUFFICES ASSUME Init
             PROVE  Inv
  OBVIOUS
<1>1. TypeOK
  BY Assumed, EmptySeq, Names DEF Init, TypeOK
<1>2. /\ \A r \in Requests : pc[Handler(r)] = "new" /\ pc[Flusher(r)] = "off" /\ pc[LastFlush(r)] = "off"
      /\ \A g \in Goroutines : using[g] = None
  BY Names DEF Init
<1>3. Phases /\ Batches /\ Links
  BY <1>2 DEF Phases, Batches, Links, Init
<1>4. Counts
  BY <1>2 DEF Counts, Init
<1>5. LimitHolds
  <2>1. Holding = {}
    BY DEF Init, Holding
  <2> QED
    BY <2>1, FS_EmptySet DEF Init, LimitHolds
<1>6. Lines
  <2> SUFFICES ASSUME NEW r \in Requests
               PROVE  Line(r)
    BY LinesAre
  <2>1. batch[Flusher(r)] = <<>> /\ batch[LastFlush(r)] = <<>> /\ pending[r] = <<>> /\ logged[r] = 0
    BY Names DEF Init
  <2>2. Waiting(r) = <<>>
    BY <2>1 DEF Waiting
  <2>3. Range(Waiting(r)) = {} /\ Ascending(Waiting(r))
    BY <2>2 DEF Range, Ascending
  <2> QED
    BY <2>1, <2>3 DEF Line
<1> QED
  BY <1>1, <1>3, <1>4, <1>5, <1>6 DEF Inv

LEMMA InvStep == Inv /\ [Next]_vars => Inv'
<1> SUFFICES ASSUME Inv, [Next]_vars
             PROVE  Inv'
  OBVIOUS
<1>1. ASSUME NEW r \in Requests,
             Arrive(r) \/ Log(r) \/ CallApi(r) \/ Served(r) \/ Stop(r) \/ Count(r) \/ Tick(r)
      PROVE  Inv'
  BY <1>1, ArriveInv, LogInv, CallApiInv, ServedInv, StopInv, CountInv, TickInv
<1>2. ASSUME NEW g \in Flushing, Flush(g)
      PROVE  Inv'
  BY <1>2, GrabNothingInv, GrabInv, MarshalInv, RescueInv DEF Flush
<1>3. ASSUME NEW g \in Goroutines, Send(g) \/ Reply(g)
      PROVE  Inv'
  BY <1>3, SendInv, AnswerInv, NoAnswerInv, LateAnswerInv DEF Reply
<1>4. ASSUME NEW k \in Conns, Dial(k) \/ Dialed(k) \/ DialFails(k) \/ Close(k) \/ Closed(k)
      PROVE  Inv'
  BY <1>4, DialInv, DialedInv, DialFailsInv, CloseInv, ClosedInv
<1>5. CASE UNCHANGED vars
  <2>1. UNCHANGED <<pc, lines, calls, net>>
    BY <1>5 DEF vars
  <2>2. Net'
    BY <2>1, NetIs DEF Calling
  <2> QED
    BY <2>1, <2>2, NetInv
<1> QED
  BY <1>1, <1>2, <1>3, <1>4, <1>5 DEF Next

LEMMA Invariance == Spec => []Inv
<1>1. Init => Inv
  BY InitInv
<1>2. Inv /\ [Next]_vars => Inv'
  BY InvStep
<1> QED
  BY <1>1, <1>2, PTL DEF Spec

\* Every state of an instance is well formed: no flush takes more than one batch, and
\* no more than Limit places of limitSem are taken (net.go:18, api.go:34).
THEOREM ApiTypeCorrect == Spec => []TypeOK
<1>1. Inv => TypeOK
  BY DEF Inv
<1> QED
  BY <1>1, Invariance, PTL

\* flushLog never runs twice at a time for one request, whichever way its ticker, its
\* handler and its calls interleave (api.go:117-126, 500, 562-578).
THEOREM FlushesTakeTurns == Spec => []OneFlushAtATime
<1>1. Inv => OneFlushAtATime
  BY DEF Inv, Phases, OneFlushAtATime
<1> QED
  BY <1>1, Invariance, PTL

\* The response announces as many flushes as the request makes (api.go:119-127).
THEOREM HeaderIsRight == Spec => []HeaderCountsFlushes
<1>1. Inv => HeaderCountsFlushes
  <2> SUFFICES ASSUME Inv, NEW r \in Requests, pc[Handler(r)] = "over", pc[LastFlush(r)] = "off",
                      heard[r] = logged[r]
               PROVE  header[r] = flushes[r]
    BY DEF HeaderCountsFlushes
  <2>1. header[r] = flushes[r] + 0
    BY OfOne DEF Counted
  <2> QED
    BY <2>1 DEF Inv, TypeOK
<1> QED
  BY <1>1, Invariance, PTL

\* limitSem counts the connections that are being dialed or that nobody has begun to
\* close (net.go:18-63).
THEOREM LimitIsKept == Spec => []LimitHolds
<1>1. Inv => LimitHolds
  BY DEF Inv
<1> QED
  BY <1>1, Invariance, PTL

\* No log line is lost, overtakes another or waits twice, however many flushes fail or
\* are answered too late (api.go:475-477, 502-530, 548-552).
THEOREM LinesAreKept == Spec => []NoLineIsLost
<1>1. Inv => NoLineIsLost
  BY DEF Inv, Lines, NoLineIsLost
<1> QED
  BY <1>1, Invariance, PTL

-----------------------------------------------------------------------------
(* The order of the lines that the log service sees.  It needs no more     *)
(* than the invariant: a line is posted from the front of those that wait, *)
(* and all lines that were logged before wait in front of it, or have been *)
(* received.                                                               *)

LEMMA PostKeepsOrder ==
  ASSUME Inv, NEW g \in Flushing, pc[g] = "post", InOrder(received[g[2]])
  PROVE  InOrder(received[g[2]] \o batch[g])
<1> DEFINE r == g[2]
           s == received[r]
           b == batch[g]
           w == Waiting(r)
<1>1. /\ r \in Requests /\ Line(r) /\ b \in Seq(Nat) /\ pending[r] \in Seq(Nat)
      /\ s \in Seq(Nat) /\ w = b \o pending[r] /\ w \in Seq(Nat)
  BY Flushed DEF Inv, TypeOK
<1>2. /\ Ascending(w) /\ \A l \in Range(w) : l <= logged[r]
      /\ \A l \in 1..logged[r] : l \in Range(w) \cup Range(s)
      /\ logged[r] \in Nat
  BY <1>1 DEF Line, Inv, TypeOK
<1>3. Range(w) = {w[i] : i \in 1..Len(w)} /\ Range(s) = {s[i] : i \in 1..Len(s)}
  BY <1>1, RangeEquality
<1> HIDE DEF r, s, b, w
<1>4. /\ Len(s) \in Nat /\ Len(b) \in Nat /\ Len(b) <= Len(w) /\ Len(w) \in Nat
      /\ Len(s \o b) = Len(s) + Len(b)
      /\ \A i \in 1..Len(s) : (s \o b)[i] = s[i]
      /\ \A i \in 1..Len(b) : (s \o b)[Len(s) + i] = b[i]
      /\ \A i \in 1..Len(b) : w[i] = b[i] /\ b[i] \in Nat
      /\ \A i \in 1..Len(w) : w[i] \in Nat
  <2>1. /\ Len(s) \in Nat /\ Len(b) \in Nat /\ Len(pending[r]) \in Nat
        /\ Len(s \o b) = Len(s) + Len(b) /\ Len(w) = Len(b) + Len(pending[r])
    BY <1>1, LenProperties, ConcatProperties
  <2>2. /\ \A i \in 1..Len(s) : (s \o b)[i] = s[i]
        /\ \A i \in 1..Len(b) : (s \o b)[Len(s) + i] = b[i]
    BY <1>1, <2>1, ConcatProperties
  <2>3. \A i \in 1..Len(b) : w[i] = b[i] /\ b[i] \in Nat
    BY <1>1, <2>1, ConcatProperties, ElementOfSeq
  <2>4. \A i \in 1..Len(w) : w[i] \in Nat
    BY <1>1, ElementOfSeq
  <2> QED
    BY <2>1, <2>2, <2>3, <2>4
<1>5. ASSUME NEW i \in 1..Len(s), NEW l \in 1..(s \o b)[i] - 1
      PROVE  \E j \in 1..i - 1 : (s \o b)[j] = l
  <2>1. (s \o b)[i] = s[i]
    BY <1>4
  <2>2. PICK j \in 1..i - 1 : s[j] = l
    BY <2>1 DEF InOrder, s, r
  <2>3. j \in 1..Len(s)
    BY <1>4
  <2> QED
    BY <1>4, <2>2, <2>3
<1>6. ASSUME NEW i \in 1..Len(b), NEW l \in 1..b[i] - 1
      PROVE  \E j \in 1..Len(s) + i - 1 : (s \o b)[j] = l
  <2>1. i \in 1..Len(w) /\ w[i] = b[i] /\ b[i] \in Nat
    BY <1>4
  <2>2. b[i] <= logged[r] /\ l \in 1..logged[r]
    BY <1>2, <1>3, <2>1
  <2>3. CASE \E j \in 1..Len(s) : s[j] = l
    <3>1. PICK j \in 1..Len(s) : s[j] = l
      BY <2>3
    <3> QED
      BY <1>4, <3>1
  <2>4. CASE \E j \in 1..Len(w) : w[j] = l
    <3>1. PICK j \in 1..Len(w) : w[j] = l
      BY <2>4
    <3>2. ~(i < j) /\ i # j
      BY <1>2, <2>1, <3>1 DEF Ascending
    <3>3. j < i /\ j \in 1..Len(b)
      BY <1>4, <3>2
    <3>4. (s \o b)[Len(s) + j] = l /\ Len(s) + j \in 1..Len(s) + i - 1
      BY <1>4, <3>1, <3>3
    <3> QED
      BY <3>4
  <2> QED
    BY <1>2, <1>3, <2>2, <2>3, <2>4
<1>7. ASSUME NEW i \in 1..Len(s \o b), NEW l \in 1..(s \o b)[i] - 1
      PROVE  \E j \in 1..i - 1 : (s \o b)[j] = l
  <2>1. CASE i <= Len(s)
    <3>1. i \in 1..Len(s)
      BY <2>1
    <3> QED
      BY <1>5, <3>1
  <2>2. CASE i > Len(s)
    <3>1. PICK k \in 1..Len(b) : i = Len(s) + k
      <4>1. i - Len(s) \in 1..Len(b) /\ i = Len(s) + (i - Len(s))
        BY <1>4, <2>2
      <4> QED
        BY <4>1
    <3>2. l \in 1..b[k] - 1
      BY <1>4, <3>1
    <3>3. \E j \in 1..Len(s) + k - 1 : (s \o b)[j] = l
      BY <1>6, <3>2
    <3> QED
      BY <3>1, <3>3
  <2> QED
    BY <1>4, <2>1, <2>2
<1> QED
  BY <1>7 DEF InOrder, s, b, r

LEMMA ReceiveKeepsOrder ==
  ASSUME Inv, LinesKeepTheirOrder, NEW g \in Goroutines, Calling(g), g[1] # "handler", Receive(g)
  PROVE  LinesKeepTheirOrder'
<1>1. g \in Flushing /\ pc[g] = "post" /\ g[2] \in Requests
  BY Posting, Names
<1>2. InOrder(received[g[2]] \o batch[g])
  BY <1>1, PostKeepsOrder DEF LinesKeepTheirOrder
<1>3. \A r \in Requests : received'[r] = IF r = g[2] THEN received[r] \o batch[g] ELSE received[r]
  BY <1>1 DEF Receive, Inv, TypeOK
<1>4. \A r \in Requests : InOrder(received'[r])
  BY <1>2, <1>3 DEF LinesKeepTheirOrder
<1> QED
  BY <1>4 DEF LinesKeepTheirOrder, InOrder

LEMMA StillInOrder ==
  ASSUME LinesKeepTheirOrder, UNCHANGED received
  PROVE  LinesKeepTheirOrder'
  BY DEF LinesKeepTheirOrder, InOrder

LEMMA OrderStep == Inv /\ LinesKeepTheirOrder /\ [Next]_vars => LinesKeepTheirOrder'
<1> SUFFICES ASSUME Inv, LinesKeepTheirOrder, [Next]_vars PROVE LinesKeepTheirOrder'
  OBVIOUS
<1>1. ASSUME NEW g \in Goroutines, Answer(g) \/ LateAnswer(g) PROVE LinesKeepTheirOrder'
  <2>1. CASE g[1] = "handler"
    BY <1>1, <2>1, StillInOrder DEF Answer, LateAnswer, lines
  <2>2. CASE g[1] # "handler"
    BY <1>1, <2>2, ReceiveKeepsOrder DEF Answer, LateAnswer
  <2> QED
    BY <2>1, <2>2
<1>2. ASSUME NEW r \in Requests,
             Arrive(r) \/ Log(r) \/ CallApi(r) \/ Served(r) \/ Stop(r) \/ Count(r) \/ Tick(r)
      PROVE  UNCHANGED received
  BY <1>2 DEF Arrive, Log, CallApi, Served, Stop, Count, Tick, lines
<1>3. ASSUME NEW g \in Flushing, Flush(g) PROVE UNCHANGED received
  BY <1>3 DEF Flush, GrabNothing, Grab, Marshal, Rescue, lines
<1>4. ASSUME NEW g \in Goroutines, Send(g) \/ NoAnswer(g) PROVE UNCHANGED received
  BY <1>4 DEF Send, NoAnswer, lines
<1>5. ASSUME NEW k \in Conns, Dial(k) \/ Dialed(k) \/ DialFails(k) \/ Close(k) \/ Closed(k)
      PROVE  UNCHANGED received
  BY <1>5 DEF Dial, Dialed, DialFails, Close, Closed, lines
<1>6. CASE UNCHANGED vars
  BY <1>6, StillInOrder DEF vars, lines
<1> QED
  BY <1>1, <1>2, <1>3, <1>4, <1>5, <1>6, StillInOrder DEF Next, Reply

\* The log service gets the lines of a request in the order they were logged, but for those
\* it gets again, over any number of flushes that fail, or succeed too late, between those
\* that succeed (api.go:502-556).
THEOREM LinesStayInOrder == Spec => []LinesKeepTheirOrder
<1>1. Init => LinesKeepTheirOrder
  <2> SUFFICES ASSUME Init, NEW r \in Requests PROVE InOrder(received[r])
    BY DEF LinesKeepTheirOrder
  <2>1. received[r] = <<>>
    BY DEF Init
  <2> QED
    BY <2>1, EmptySeq DEF InOrder
<1>2. Inv /\ LinesKeepTheirOrder /\ [Next]_vars => LinesKeepTheirOrder'
  BY OrderStep
<1> QED
  BY <1>1, <1>2, Invariance, PTL DEF Spec

-----------------------------------------------------------------------------
(* The handler's stop is heard, and flushes end.                           *)

\* Where a flush may go from each place of it; the last one alone ends its goroutine.
FlushGoes(g, l) ==
  /\ pc' = [pc EXCEPT ![g] = l]
  /\ l = "off" => g[1] # "flusher"
  /\ \/ pc[g] = "grab" /\ l \in {"marshal", "select", "off"}
     \/ pc[g] = "marshal" /\ l = "post"
     \/ pc[g] = "post" /\ l \in {"rescue", "select", "off"}
     \/ pc[g] = "rescue" /\ l \in {"select", "off"}

\* The goroutines move in these ways only.
LEMMA Goings ==
  ASSUME Inv, [Next]_vars
  PROVE  \/ pc' = pc
         \/ \E g \in Flushing : \E l : FlushGoes(g, l)
         \/ \E r \in Requests :
              \/ Arrive(r) \/ Stop(r) \/ Count(r) \/ Tick(r)
              \/ /\ pc[Handler(r)] \in {"serve", "call"}
                 /\ \E l : pc' = [pc EXCEPT ![Handler(r)] = l]
<1>1. ASSUME NEW g \in Flushing, Flush(g) PROVE \E l : FlushGoes(g, l)
  <2>1. CASE GrabNothing(g)
    BY <2>1 DEF GrabNothing, FlushEnd, Goto, FlushGoes
  <2>2. CASE Grab(g)
    BY <2>2 DEF Grab, Goto, FlushGoes
  <2>3. CASE Marshal(g)
    BY <2>3 DEF Marshal, Goto, FlushGoes
  <2>4. CASE Rescue(g)
    BY <2>4 DEF Rescue, FlushEnd, Goto, FlushGoes
  <2> QED
    BY <1>1, <2>1, <2>2, <2>3, <2>4 DEF Flush
<1>2. ASSUME NEW g \in Goroutines, Reply(g), g[1] # "handler"
      PROVE  g \in Flushing /\ \E l : FlushGoes(g, l)
  <2>1. g \in Flushing /\ pc[g] = "post"
    BY <1>2, Posting DEF Reply, Answer, NoAnswer, LateAnswer
  <2>2. CASE Answer(g)
    BY <1>2, <2>1, <2>2 DEF Answer, FlushEnd, Goto, FlushGoes
  <2>3. CASE NoAnswer(g) \/ LateAnswer(g)
    BY <1>2, <2>1, <2>3 DEF NoAnswer, LateAnswer, Goto, FlushGoes
  <2> QED
    BY <1>2, <2>1, <2>2, <2>3 DEF Reply
<1>3. ASSUME NEW g \in Goroutines, Reply(g), g[1] = "handler"
      PROVE  \E r \in Requests : /\ pc[Handler(r)] \in {"serve", "call"}
                                 /\ \E l : pc' = [pc EXCEPT ![Handler(r)] = l]
  <2>1. g[2] \in Requests /\ g = Handler(g[2])
    BY <1>3, Names
  <2>2. pc[g] = "call" /\ pc' = [pc EXCEPT ![g] = "serve"]
    BY <1>3, <2>1 DEF Reply, Answer, NoAnswer, LateAnswer, Goto, Calling, Inv, Phases
  <2> QED
    BY <2>1, <2>2
<1>4. ASSUME NEW r \in Requests, CallApi(r) \/ Served(r)
      PROVE  /\ pc[Handler(r)] \in {"serve", "call"}
             /\ \E l : pc' = [pc EXCEPT ![Handler(r)] = l]
  BY <1>4 DEF CallApi, Served, Goto
<1>5. ASSUME \/ \E r \in Requests : Log(r)
             \/ \E g \in Goroutines : Send(g)
             \/ \E k \in Conns : Dial(k) \/ Dialed(k) \/ DialFails(k) \/ Close(k) \/ Closed(k)
             \/ UNCHANGED vars
      PROVE  pc' = pc
  BY <1>5 DEF Log, Send, Dial, Dialed, DialFails, Close, Closed, vars
<1> QED
  BY <1>1, <1>2, <1>3, <1>4, <1>5 DEF Next

\* Only Stop ends a flusher, when its handler has been heard.
LEMMA ListensStep ==
  ASSUME Inv, FlusherListens, [Next]_vars
  PROVE  FlusherListens'
<1>1. CASE pc' = pc
  BY <1>1 DEF FlusherListens
<1>2. ASSUME NEW g \in Flushing, NEW l, FlushGoes(g, l) PROVE FlusherListens'
  <2>1. /\ pc' = [pc EXCEPT ![g] = l] /\ g \in Goroutines
        /\ pc \in [Goroutines -> Places]
        /\ l = "off" => g[1] # "flusher"
    BY <1>2, Names DEF FlushGoes, Inv, TypeOK, Places
  <2>2. \A r \in Requests : Handler(r) # g /\ pc'[Handler(r)] = pc[Handler(r)]
    BY <2>1, Names, Apart
  <2>3. ASSUME NEW r \in Requests, pc'[Flusher(r)] = "off" PROVE pc[Flusher(r)] = "off"
    BY <2>1, <2>3, Names
  <2> QED
    BY <2>2, <2>3 DEF FlusherListens
<1>3. ASSUME NEW r \in Requests, Arrive(r) PROVE FlusherListens'
  <2>1. Handler(r) \in Goroutines /\ Flusher(r) \in Goroutines /\ DOMAIN pc = Goroutines
    BY Names DEF Inv, TypeOK
  <2>2. pc' = [pc EXCEPT ![Handler(r)] = "serve", ![Flusher(r)] = "select"]
    BY <1>3 DEF Arrive
  <2>3. pc'[Flusher(r)] = "select"
    BY <2>1, <2>2
  <2>4. ASSUME NEW q \in Requests, q # r
        PROVE  pc'[Handler(q)] = pc[Handler(q)] /\ pc'[Flusher(q)] = pc[Flusher(q)]
    BY <2>1, <2>2, <2>4, Names, Apart
  <2> QED
    BY <2>3, <2>4 DEF FlusherListens
<1>4. ASSUME NEW r \in Requests, Stop(r) PROVE FlusherListens'
  BY <1>4, Names, Apart DEF Stop, Inv, TypeOK, FlusherListens
<1>5. ASSUME NEW r \in Requests, Count(r) \/ Tick(r) PROVE FlusherListens'
  BY <1>5, Names, Apart DEF Count, Tick, Goto, Inv, TypeOK, FlusherListens
<1>6. ASSUME NEW r \in Requests, NEW l, pc[Handler(r)] \in {"serve", "call"},
             pc' = [pc EXCEPT ![Handler(r)] = l]
      PROVE  FlusherListens'
  BY <1>6, Names, Apart DEF Inv, TypeOK, FlusherListens
<1> QED
  BY <1>1, <1>2, <1>3, <1>4, <1>5, <1>6, Goings

\* A flush moves only by itself, and forward.
LEMMA ForwardStep ==
  ASSUME Inv, [Next]_vars, NEW g \in Flushing, FlushLeft(g) > 0
  PROVE  pc'[g] = pc[g] \/ FlushLeft(g)' < FlushLeft(g)
<1> USE Names, Apart DEF Inv, TypeOK
<1>1. pc[g] \in {"grab", "marshal", "post", "rescue"}
  BY DEF FlushLeft
<1>2. ASSUME NEW h \in Flushing, NEW l, FlushGoes(h, l)
      PROVE  pc'[g] = pc[g] \/ FlushLeft(g)' < FlushLeft(g)
  <2>1. CASE g = h
    BY <1>1, <1>2, <2>1 DEF FlushGoes, FlushLeft
  <2>2. CASE g # h
    BY <1>2, <2>2 DEF FlushGoes
  <2> QED
    BY <2>1, <2>2
<1>3. ASSUME NEW r \in Requests, Arrive(r) \/ Stop(r) \/ Count(r) \/ Tick(r)
      PROVE  pc'[g] = pc[g]
  BY <1>1, <1>3 DEF Arrive, Stop, Count, Tick, Goto, Phases
<1>4. ASSUME NEW r \in Requests, NEW l, pc' = [pc EXCEPT ![Handler(r)] = l]
      PROVE  pc'[g] = pc[g]
  BY <1>4
<1> QED
  BY <1>2, <1>3, <1>4, Goings

\* A handler's stop is always heard: its flusher does not end before, whatever becomes of
\* its flushes, and is in no flush that does not end by itself (api.go:112-117, 562-578).
THEOREM FlusherKeepsListening == Spec => []FlusherListens
<1>1. Init => FlusherListens
  BY Names DEF Init, FlusherListens
<1>2. Inv /\ FlusherListens /\ [Next]_vars => FlusherListens'
  BY ListensStep
<1> QED
  BY <1>1, <1>2, Invariance, PTL DEF Spec

\* No flush goes back to what it has done, however its call ends: it makes three steps and
\* a fourth if it fails (api.go:502-556).
THEOREM FlushesEnd == Spec => FlushesGoForward
<1>1. Inv /\ [Next]_vars =>
        [\A g \in Flushing :
           FlushLeft(g) > 0 => pc'[g] = pc[g] \/ FlushLeft(g)' < FlushLeft(g)]_vars
  BY ForwardStep
<1> QED
  BY <1>1, Invariance, PTL DEF Spec, FlushesGoForward
=============================================================================
