------------------------- MODULE UiSubscriptions_proofs -------------------------
(***************************************************************************)
(* Theorems about UiSubscriptions, for every set of subscriptions, readers *)
(* and resources, every journal length and every page size: a stream and   *)
(* its pump start and end together, the end is the last event of a         *)
(* journal, nobody sleeps beside an event that is there, and no reader     *)
(* passes an event that it neither got nor was told it lost.               *)
(***************************************************************************)
EXTENDS UiSubscriptions, FiniteSetTheorems, TLAPS

USE SubscriptionAssumption, BoundAssumption

--------------------------------------------------------------------------------
(* The invariant.                                                            *)

\* A stream that has ended says so in its last event.
EndIsLast ==
  \A s \in Sub : stream[s].phase = "ended" =>
    stream[s].journal # <<>> /\ stream[s].journal[Len(stream[s].journal)] = "end"

\* The records of the store.
Record == {r \in Stream : Len(r.journal) <= Retain}

\* Of the claims, of the streams with their pumps, and of the readers with
\* their calls.  What is claimed of the readers rests on the streams, and
\* nothing that is claimed of the streams on the readers.
ClaimsOK ==
  open \in BOOLEAN /\ held \in [Resource -> 0 .. MaxLeases] /\ leases \in 0 .. MaxLeases
StreamsInv ==
  /\ stream \in [Sub -> Record] /\ pump \in [Sub -> {"off", "on", "stopping"}]
  /\ StreamHasPump /\ EndIsLast
ReadersOK ==
  call \in [Reader -> Call] /\ cursor \in [Reader -> Nat] /\ told \in [Reader -> SUBSET Nat]
ReadersInv == ReadersOK /\ NoLostWakeup /\ NoSilentGap

--------------------------------------------------------------------------------
(* Records.                                                                  *)

\* What the store assigns to in a record.
LEMMA PhaseAssigned ==
  ASSUME NEW r \in Record, NEW p \in Phase
  PROVE  /\ [r EXCEPT !.phase = p] \in Record
         /\ [r EXCEPT !.phase = p].phase = p /\ [r EXCEPT !.phase = p].journal = r.journal
BY DEF Record, Stream

LEMMA MetAssigned ==
  ASSUME NEW r \in Record, NEW m \in BOOLEAN
  PROVE  /\ [r EXCEPT !.met = m] \in Record
         /\ [r EXCEPT !.met = m].phase = r.phase /\ [r EXCEPT !.met = m].journal = r.journal
BY DEF Record, Stream

\* A journal with one more event, which is the last.
LEMMA Appended ==
  ASSUME NEW j \in Seq(Event), NEW e \in Event
  PROVE  /\ Append(j, e) \in Seq(Event) /\ Append(j, e) # <<>>
         /\ Len(Append(j, e)) = Len(j) + 1 /\ Append(j, e)[Len(j) + 1] = e
OBVIOUS

\* What is logged is the last event; what is refused changes nothing.
LEMMA Logged ==
  ASSUME NEW r \in Record, NEW e \in Event
  PROVE  /\ Log(r, e) \in Record
         /\ Log(r, e).phase = r.phase /\ Log(r, e).met = r.met /\ Log(r, e).lease = r.lease
         /\ r.phase = "live" \/ (r.phase = "ended" /\ e = "end") =>
              Log(r, e).journal # <<>> /\ Log(r, e).journal[Len(Log(r, e).journal)] = e
         /\ ~(r.phase = "live" \/ (r.phase = "ended" /\ e = "end")) => Log(r, e) = r
<1>1. CASE r.phase # "live" /\ ~(r.phase = "ended" /\ e = "end")
  BY <1>1 DEF Log
<1>2. CASE ~(r.phase # "live" /\ ~(r.phase = "ended" /\ e = "end")) /\ Len(r.journal) < Retain
  <2>1. r.journal \in Seq(Event)
    BY DEF Record, Stream
  <2>2. Log(r, e) = [r EXCEPT !.journal = Append(r.journal, e)]
    BY <1>2 DEF Log
  <2>3. Log(r, e) \in Record
    <3>1. Append(r.journal, e) \in Seq(Event) /\ Len(Append(r.journal, e)) <= Retain
      BY <1>2, <2>1, Appended
    <3>2. QED BY <2>2, <3>1 DEF Record, Stream
  <2>4. /\ Log(r, e).journal = Append(r.journal, e)
        /\ Log(r, e).phase = r.phase /\ Log(r, e).met = r.met /\ Log(r, e).lease = r.lease
    BY <2>2 DEF Record, Stream
  <2>5. QED BY <1>2, <2>1, <2>3, <2>4, Appended
<1>3. CASE ~(r.phase # "live" /\ ~(r.phase = "ended" /\ e = "end")) /\ Len(r.journal) >= Retain
  <2> DEFINE j == Append(Tail(r.journal), e)
  <2>1. r.journal \in Seq(Event) /\ r.journal # <<>> /\ Len(r.journal) = Retain /\ r.dropped \in Nat
    BY <1>3 DEF Record, Stream
  <2>2. Tail(r.journal) \in Seq(Event) /\ Len(Tail(r.journal)) = Retain - 1
    BY <2>1
  <2>3. Log(r, e) = [r EXCEPT !.journal = j, !.dropped = r.dropped + 1]
    BY <1>3, <2>1 DEF Log
  <2>4. j \in Seq(Event) /\ Len(j) = Retain
    BY <2>2, Appended
  <2>5. Log(r, e) \in Record
    <3> HIDE DEF j
    <3>1. Log(r, e) = [phase |-> r.phase, lease |-> r.lease, met |-> r.met, journal |-> j,
                       dropped |-> r.dropped + 1]
      BY <2>3 DEF Record, Stream
    <3>2. QED BY <2>1, <2>4, <3>1 DEF Record, Stream
  <2>6. /\ Log(r, e).journal = j
        /\ Log(r, e).phase = r.phase /\ Log(r, e).met = r.met /\ Log(r, e).lease = r.lease
    BY <2>3 DEF Record, Stream
  <2>7. QED BY <1>3, <2>2, <2>5, <2>6, Appended
<1>4. QED BY <1>1, <1>2, <1>3 DEF Record, Stream

\* A page begins at the cursor, or where the journal does if that is later.
LEMMA Paged ==
  ASSUME NEW r \in Record, NEW from \in Nat
  PROVE  /\ Page(r, from).next \in Nat /\ Page(r, from).first \in Nat
         /\ Page(r, from).over = (from < r.dropped)
         /\ Page(r, from).first = IF from < r.dropped THEN r.dropped ELSE from
BY DEF Page, Latest, Record, Stream

--------------------------------------------------------------------------------
(* Claims.                                                                   *)

LEMMA ClaimsStep == ClaimsOK /\ [Next]_vars => ClaimsOK'
<1> SUFFICES ASSUME ClaimsOK, [Next]_vars PROVE ClaimsOK'
  OBVIOUS
<1> USE DEF ClaimsOK
<1>1. ASSUME NEW r \in Resource, Reacquire(r) \/ Lapse(r) \/ LoseClaim(r) PROVE ClaimsOK'
  BY <1>1 DEF Reacquire, Lapse, LoseClaim, Grant
<1>2. CASE CloseActor
  <2>1. open' = FALSE /\ held' = [r \in Resource |-> 0] /\ leases' = leases
    BY <1>2 DEF CloseActor
  <2>2. 0 \in 0 .. MaxLeases
    OBVIOUS
  <2>3. QED BY <2>1, <2>2
<1>3. ASSUME NEW s \in Sub, Subscribe(s) PROVE ClaimsOK'
  BY <1>3 DEF Subscribe, Grant
<1>4. CASE UNCHANGED claimVars
  BY <1>4 DEF claimVars
<1>5. ASSUME NEW s \in Sub,
        Create(s) \/ CreateFails(s) \/ Unsubscribe(s) \/ Forget(s) \/ PumpReports(s) \/ PumpFails(s) \/ PumpReturns(s)
      PROVE  UNCHANGED claimVars
  BY <1>5 DEF Create, CreateFails, Unsubscribe, Forget, PumpReports, PumpFails, PumpReturns
<1>6. ASSUME NEW t \in Reader,
        StartRead(t) \/ LookIn(t) \/ Observed(t) \/ ObserveFails(t) \/ TimeUp(t) \/ Cancel(t)
      PROVE  UNCHANGED claimVars
  BY <1>6 DEF StartRead, LookIn, Observed, ObserveFails, TimeUp, Cancel
<1>7. CASE Shutdown \/ UNCHANGED vars
  BY <1>4, <1>7 DEF Shutdown, vars
<1>8. QED BY <1>1, <1>2, <1>3, <1>4, <1>5, <1>6, <1>7 DEF Next

--------------------------------------------------------------------------------
(* Streams and pumps.                                                        *)

\* Streams that are live end: their journals say so, the others are as they were.
LEMMA EndedStreams ==
  ASSUME stream \in [Sub -> Record], NEW S \in SUBSET Live
  PROVE  /\ EndStreams(S) \in [Sub -> Record]
         /\ \A s \in Sub \ S : EndStreams(S)[s] = stream[s]
         /\ \A s \in S :
              /\ EndStreams(S)[s].phase = "ended" /\ EndStreams(S)[s].journal # <<>>
              /\ EndStreams(S)[s].journal[Len(EndStreams(S)[s].journal)] = "end"
<1>1. ASSUME NEW s \in S
      PROVE  /\ [stream[s] EXCEPT !.phase = "ended"] \in Record
             /\ [stream[s] EXCEPT !.phase = "ended"].phase = "ended"
  <2>1. stream[s] \in Record /\ "ended" \in Phase
    BY DEF Live, Phase
  <2>2. QED BY <2>1, PhaseAssigned
<1>2. "end" \in Event
  BY DEF Event
<1>3. ASSUME NEW s \in S
      PROVE  /\ EndStreams(S)[s] = Log([stream[s] EXCEPT !.phase = "ended"], "end")
             /\ EndStreams(S)[s] \in Record
             /\ EndStreams(S)[s].phase = "ended" /\ EndStreams(S)[s].journal # <<>>
             /\ EndStreams(S)[s].journal[Len(EndStreams(S)[s].journal)] = "end"
  <2>1. s \in Sub
    BY DEF Live
  <2>2. EndStreams(S)[s] = Log([stream[s] EXCEPT !.phase = "ended"], "end")
    BY <2>1 DEF EndStreams
  <2> DEFINE r == [stream[s] EXCEPT !.phase = "ended"]
  <2> HIDE DEF r
  <2>3. r \in Record /\ r.phase = "ended"
    BY <1>1 DEF r
  <2>4. EndStreams(S)[s] = Log(r, "end")
    BY <2>2 DEF r
  <2>5. QED BY <1>2, <2>2, <2>3, <2>4, Logged
<1>4. \A s \in Sub \ S : EndStreams(S)[s] = stream[s]
  BY DEF EndStreams
<1>5. EndStreams(S) = [s \in Sub |-> EndStreams(S)[s]]
  BY DEF EndStreams
<1>6. QED BY <1>3, <1>4, <1>5

\* With their pumps.
LEMMA EndStep ==
  ASSUME StreamsInv, NEW S \in SUBSET Live, End(S)
  PROVE  StreamsInv'
<1>1. /\ stream \in [Sub -> Record] /\ stream' = EndStreams(S)
      /\ pump' = [s \in Sub |-> IF s \in S /\ pump[s] = "on" THEN "stopping" ELSE pump[s]]
  BY DEF StreamsInv, End, Stop
<1>2. \A s \in S : s \in Sub /\ stream[s].phase = "live" /\ pump[s] = "on"
  BY DEF Live, StreamsInv, StreamHasPump
<1>3. pump' \in [Sub -> {"off", "on", "stopping"}]
  BY <1>1 DEF StreamsInv
<1>4. StreamHasPump'
  BY <1>1, <1>2, EndedStreams DEF StreamsInv, StreamHasPump
<1>5. EndIsLast'
  BY <1>1, EndedStreams DEF StreamsInv, EndIsLast
<1>6. QED BY <1>1, <1>3, <1>4, <1>5, EndedStreams DEF StreamsInv

LEMMA StreamsStep == ClaimsOK /\ StreamsInv /\ [Next]_vars => StreamsInv'
<1> SUFFICES ASSUME ClaimsOK, StreamsInv, [Next]_vars PROVE StreamsInv'
  OBVIOUS
<1>0. /\ stream \in [Sub -> Record] /\ pump \in [Sub -> {"off", "on", "stopping"}]
      /\ \A s \in Sub : stream[s] \in Record
  BY DEF StreamsInv
<1>1. CASE UNCHANGED <<stream, pump>>
  BY <1>1 DEF StreamsInv, StreamHasPump, EndIsLast
<1>2. \A s \in Sub : {s} \cap Live \in SUBSET Live
  OBVIOUS
<1>3. \A r \in Resource : LiveOn(r) \in SUBSET Live
  BY DEF LiveOn
<1>4. ASSUME NEW r \in Resource, Reacquire(r) \/ Lapse(r) \/ LoseClaim(r) PROVE StreamsInv'
  BY <1>1, <1>3, <1>4, EndStep DEF Reacquire, Lapse, LoseClaim
<1>5. CASE CloseActor \/ Shutdown
  BY <1>5, EndStep DEF CloseActor, Shutdown
<1>6. ASSUME NEW s \in Sub, UNCHANGED pump, NEW q \in Record, stream' = [stream EXCEPT ![s] = q],
             q.phase = "live" <=> stream[s].phase = "live",
             q.phase = "ended" => stream[s].phase = "ended" /\ q.journal = stream[s].journal
      PROVE  StreamsInv'
  BY <1>0, <1>6 DEF StreamsInv, StreamHasPump, EndIsLast
<1>7. ASSUME NEW s \in Sub, Subscribe(s) PROVE StreamsInv'
  <2>1. On[s] \in Resource /\ held'[On[s]] \in 0 .. MaxLeases
    BY <1>7, ClaimsStep DEF Next, ClaimsOK
  <2> DEFINE r == stream[s]
             l == held'[On[s]]
             q == [r EXCEPT !.phase = "starting", !.lease = l]
  <2>2. r \in Record /\ l \in 0 .. MaxLeases
    BY <1>0, <2>1
  <2>3. q \in Record /\ q.phase = "starting"
    <3> HIDE DEF r, l
    <3>1. QED BY <2>2 DEF Record, Stream, Phase
  <2>4. stream' = [stream EXCEPT ![s] = q] /\ UNCHANGED pump /\ stream[s].phase = "none"
    BY <1>7 DEF Subscribe
  <2> HIDE DEF q
  <2>5. QED BY <1>6, <2>3, <2>4
<1>8. ASSUME NEW s \in Sub, Create(s) PROVE StreamsInv'
  <2>1. PICK met \in BOOLEAN : stream' = [stream EXCEPT ![s].phase = "live", ![s].met = met]
    BY <1>8 DEF Create
  <2> DEFINE r == stream[s]
             q == [r EXCEPT !.phase = "live", !.met = met]
  <2>2. r \in Record
    BY <1>0
  <2>3. q \in Record /\ q.phase = "live"
    <3> HIDE DEF r
    <3>1. QED BY <2>2 DEF Record, Stream, Phase
  <2>4. stream' = [stream EXCEPT ![s] = q] /\ pump' = [pump EXCEPT ![s] = "on"]
    BY <1>8, <2>1 DEF Create
  <2> HIDE DEF q
  <2>5. QED BY <1>0, <2>3, <2>4 DEF StreamsInv, StreamHasPump, EndIsLast
<1>9. ASSUME NEW s \in Sub, CreateFails(s) \/ Forget(s) PROVE StreamsInv'
  <2> DEFINE q == [stream[s] EXCEPT !.phase = "gone"]
  <2>1. q \in Record /\ q.phase = "gone"
    BY <1>0 DEF Record, Stream, Phase
  <2>2. stream' = [stream EXCEPT ![s] = q] /\ UNCHANGED pump /\ stream[s].phase # "live"
    BY <1>9 DEF CreateFails, Forget
  <2> HIDE DEF q
  <2>3. QED BY <1>6, <2>1, <2>2
<1>10. ASSUME NEW s \in Sub, Unsubscribe(s) PROVE StreamsInv'
  BY <1>2, <1>10, EndStep DEF Unsubscribe
<1>11. ASSUME NEW s \in Sub, PumpReports(s) PROVE StreamsInv'
  <2>1. "changed" \in Event /\ "changed" # "end"
    BY DEF Event
  <2>2. /\ Log(stream[s], "changed") \in Record
        /\ Log(stream[s], "changed").phase = stream[s].phase
        /\ stream[s].phase = "ended" => Log(stream[s], "changed") = stream[s]
    BY <1>0, <2>1, Logged
  <2> DEFINE q == Log(stream[s], "changed")
  <2>3. /\ Log(q, "changed") \in Record
        /\ Log(q, "changed").phase = stream[s].phase
        /\ stream[s].phase = "ended" => Log(q, "changed") = stream[s]
    BY <2>1, <2>2, Logged
  <2>4. UNCHANGED pump /\ \E p \in {q, Log(q, "changed")} : stream' = [stream EXCEPT ![s] = p]
    BY <1>0, <1>11 DEF PumpReports
  <2> HIDE DEF q
  <2>5. q \in Record /\ q.phase = stream[s].phase /\ (stream[s].phase = "ended" => q = stream[s])
    BY <2>2 DEF q
  <2>6. QED BY <1>6, <2>3, <2>4, <2>5
<1>12. ASSUME NEW s \in Sub, PumpFails(s) PROVE StreamsInv'
  <2>1. stream[s].phase = "live" /\ "end" \in Event
    BY <1>12 DEF PumpFails, StreamsInv, StreamHasPump, Event
  <2> DEFINE r == Log(stream[s], "end")
             e == [r EXCEPT !.phase = "ended"]
             q == Log(e, "end")
  <2>2. r \in Record /\ r.phase = "live"
    BY <1>0, <2>1, Logged
  <2>3. e \in Record /\ e.phase = "ended"
    <3> HIDE DEF r
    <3>1. QED BY <2>2 DEF Record, Stream, Phase
  <2>4. q \in Record /\ q.phase = "ended" /\ q.journal # <<>> /\ q.journal[Len(q.journal)] = "end"
    <3> HIDE DEF e
    <3>1. QED BY <2>1, <2>3, Logged
  <2>5. stream' = [stream EXCEPT ![s] = q] /\ pump' = [pump EXCEPT ![s] = "off"]
    BY <1>0, <1>12, <2>2 DEF PumpFails
  <2> HIDE DEF q
  <2>6. QED BY <1>0, <2>4, <2>5 DEF StreamsInv, StreamHasPump, EndIsLast
<1>13. ASSUME NEW s \in Sub, PumpReturns(s) PROVE StreamsInv'
  BY <1>13 DEF PumpReturns, StreamsInv, StreamHasPump, EndIsLast
<1>14. ASSUME NEW t \in Reader, StartRead(t) PROVE StreamsInv'
  <2>1. PICK lost \in SUBSET Live : End(lost)
    BY <1>14, <1>3 DEF StartRead
  <2>2. QED BY <2>1, EndStep
<1>15. ASSUME NEW t \in Reader, LookIn(t) \/ ObserveFails(t) \/ TimeUp(t) PROVE StreamsInv'
  BY <1>1, <1>15 DEF LookIn, ObserveFails, TimeUp
<1>16. ASSUME NEW t \in Reader, Cancel(t) PROVE StreamsInv'
  BY <1>16, EndStep DEF Cancel
<1>17. ASSUME NEW t \in Reader, Observed(t) PROVE StreamsInv'
  <2> DEFINE s == Of[t]
  <2>1. PICK met \in BOOLEAN :
          /\ stream' = [stream EXCEPT ![s] =
               [(IF met /\ ~stream[s].met THEN Log(stream[s], "met") ELSE stream[s]) EXCEPT !.met = met]]
          /\ UNCHANGED pump
    BY <1>17 DEF Observed
  <2> DEFINE p == IF met /\ ~stream[s].met THEN Log(stream[s], "met") ELSE stream[s]
             q == [p EXCEPT !.met = met]
  <2>2. s \in Sub /\ "met" \in Event /\ "met" # "end"
    BY DEF Event
  <2>3. p \in Record /\ p.phase = stream[s].phase /\ (p.phase = "ended" => p = stream[s])
    BY <1>0, <2>2, Logged
  <2>4. q \in Record /\ q.phase = p.phase /\ q.journal = p.journal
    <3> HIDE DEF p
    <3>1. QED BY <2>3 DEF Record, Stream
  <2>5. stream' = [stream EXCEPT ![s] = q]
    BY <2>1
  <2> HIDE DEF q, p, s
  <2>6. QED BY <1>6, <2>1, <2>2, <2>3, <2>4, <2>5
<1>18. CASE UNCHANGED vars
  BY <1>1, <1>18 DEF vars
<1>19. QED BY <1>4, <1>5, <1>7, <1>8, <1>9, <1>10, <1>11, <1>12, <1>13, <1>14, <1>15, <1>16, <1>17, <1>18 DEF Next

--------------------------------------------------------------------------------
(* Readers.                                                                  *)

\* A page begins at the cursor, or where the journal does if that is later;
\* what the reader is told then covers all that the page passes.
LEMMA DeliverStep ==
  ASSUME ReadersOK, NoSilentGap, stream' \in [Sub -> Record],
         NEW t \in Reader, NEW c \in [Reader -> Call], Deliver(t, c)
  PROVE  ReadersOK' /\ NoSilentGap' /\ call' = [c EXCEPT ![t] = NoCall]
<1> DEFINE r == stream'[Of[t]]
           p == Page(r, cursor[t])
<1>1. r \in Record /\ cursor[t] \in Nat
  BY DEF ReadersOK
<1>2. call' = [c EXCEPT ![t] = NoCall] /\ call' \in [Reader -> Call]
  BY DEF Deliver, NoCall, Call
<1>3. CASE r.phase = "gone"
  BY <1>2, <1>3 DEF Deliver, readVars, ReadersOK, NoSilentGap
<1>4. CASE r.phase # "gone"
  <2> DEFINE more == p.first + 1 .. p.next \cup (IF p.over THEN 1 .. r.dropped ELSE {})
  <2>1. /\ cursor' = [cursor EXCEPT ![t] = p.next]
        /\ told' = [told EXCEPT ![t] = @ \cup more]
    BY <1>4, Zenon DEF Deliver
  <2>2. r.dropped \in Nat
    BY <1>1 DEF Record, Stream
  <2> HIDE DEF r
  <2>3. /\ p.next \in Nat /\ p.first \in Nat /\ p.over = (cursor[t] < r.dropped)
        /\ p.first = IF cursor[t] < r.dropped THEN r.dropped ELSE cursor[t]
    BY <1>1, Paged
  <2> HIDE DEF p
  <2>4. more \in SUBSET Nat
    BY <2>2, <2>3
  <2>5. 1 .. p.next \subseteq 1 .. cursor[t] \cup more
    <3>1. CASE cursor[t] < r.dropped
      <4>1. p.first = r.dropped /\ more = p.first + 1 .. p.next \cup 1 .. r.dropped
        BY <2>3, <3>1
      <4>2. QED BY <2>2, <2>3, <4>1
    <3>2. CASE ~(cursor[t] < r.dropped)
      <4>1. p.first = cursor[t] /\ more = p.first + 1 .. p.next
        BY <2>3, <3>2
      <4>2. QED BY <1>1, <2>3, <4>1
    <3>3. QED BY <3>1, <3>2
  <2> HIDE DEF more
  <2>6. ReadersOK'
    BY <1>2, <2>1, <2>3, <2>4 DEF ReadersOK
  <2>7. NoSilentGap'
    BY <2>1, <2>5 DEF NoSilentGap, ReadersOK
  <2>8. QED BY <1>2, <2>6, <2>7
<1>5. QED BY <1>3, <1>4

\* The loop answers or waits; a reader waits where there is nothing for it yet.
LEMMA LoopStep ==
  ASSUME ReadersOK, NoSilentGap, stream' \in [Sub -> Record],
         NEW t \in Reader, NEW c \in [Reader -> Call], NEW from \in Nat, NEW late \in BOOLEAN,
         Deliver(t, c) \/ Loop(t, c, from, late)
  PROVE  /\ ReadersOK' /\ NoSilentGap'
         /\ \A u \in Reader \ {t} : call'[u] = c[u]
         /\ call'[t].pc = "waiting" =>
              stream'[Of[t]].phase = "live" /\ call'[t].from >= Latest(stream'[Of[t]])
<1>1. CASE Deliver(t, c)
  BY <1>1, DeliverStep DEF NoCall
<1>2. CASE ~Deliver(t, c)
  <2> DEFINE k == [pc |-> IF Waits(stream'[Of[t]], from) /\ ~late THEN "waiting" ELSE "woken",
                   from |-> from, late |-> late]
  <2>1. call' = [c EXCEPT ![t] = k] /\ UNCHANGED readVars
    BY <1>2 DEF Loop
  <2>2. k \in Call
    BY DEF Call
  <2>3. k.pc = "waiting" => Waits(stream'[Of[t]], k.from)
    OBVIOUS
  <2> HIDE DEF k
  <2>4. ReadersOK' /\ NoSilentGap'
    BY <2>1, <2>2 DEF ReadersOK, NoSilentGap, readVars
  <2>5. call'[t] = k /\ \A u \in Reader \ {t} : call'[u] = c[u]
    BY <2>1
  <2>6. QED BY <2>3, <2>4, <2>5 DEF Waits
<1>3. QED BY <1>1, <1>2

\* Who is notified does not go on waiting, nobody else is touched.
LEMMA NotifiedCalls ==
  ASSUME call \in [Reader -> Call], NEW S
  PROVE  /\ Notified(S) \in [Reader -> Call]
         /\ \A t \in Reader : Notified(S)[t].pc = "waiting" => Of[t] \notin S /\ Notified(S)[t] = call[t]
<1>1. ASSUME NEW t \in Reader
      PROVE  [call[t] EXCEPT !.pc = "woken"] \in Call /\ [call[t] EXCEPT !.pc = "woken"].pc = "woken"
  <2> DEFINE k == call[t]
  <2>1. k \in Call
    OBVIOUS
  <2> HIDE DEF k
  <2>2. [k EXCEPT !.pc = "woken"] \in Call /\ [k EXCEPT !.pc = "woken"].pc = "woken"
    BY <2>1 DEF Call
  <2>3. QED BY <2>2 DEF k
<1>2. QED BY <1>1 DEF Notified

\* Who waits on after a step waited before it, on a stream the step left alone.
LEMMA StillWaiting ==
  ASSUME ReadersInv, call' \in [Reader -> Call], UNCHANGED readVars,
         \A t \in Reader : call'[t].pc = "waiting" =>
           call'[t] = call[t] /\ stream'[Of[t]] = stream[Of[t]]
  PROVE  ReadersInv'
BY DEF ReadersInv, ReadersOK, readVars, NoSilentGap, NoLostWakeup

LEMMA ReadersStep == StreamsInv /\ StreamsInv' /\ ReadersInv /\ [Next]_vars => ReadersInv'
<1> SUFFICES ASSUME StreamsInv, StreamsInv', ReadersInv, [Next]_vars PROVE ReadersInv'
  OBVIOUS
<1>0. /\ stream \in [Sub -> Record] /\ stream' \in [Sub -> Record]
      /\ ReadersOK /\ NoLostWakeup /\ NoSilentGap /\ call \in [Reader -> Call]
      /\ cursor \in [Reader -> Nat]
      /\ \A t \in Reader : Of[t] \in Sub
  BY DEF StreamsInv, ReadersInv, ReadersOK
<1>1. CASE UNCHANGED <<stream, call, readVars>>
  BY <1>0, <1>1, StillWaiting
\* Every stream a step changes has its readers notified.
<1>2. ASSUME NEW S, call' = Notified(S), UNCHANGED readVars, \A s \in Sub \ S : stream'[s] = stream[s]
      PROVE  ReadersInv'
  <2>1. call' \in [Reader -> Call]
    BY <1>0, <1>2, NotifiedCalls
  <2>2. \A t \in Reader : call'[t].pc = "waiting" => call'[t] = call[t] /\ stream'[Of[t]] = stream[Of[t]]
    BY <1>0, <1>2, NotifiedCalls
  <2>3. QED BY <1>2, <2>1, <2>2, StillWaiting
<1>3. ASSUME NEW r \in Resource, Reacquire(r) \/ Lapse(r) \/ LoseClaim(r) PROVE ReadersInv'
  <2>1. CASE LoseClaim(r)
    BY <1>0, <1>2, <2>1, EndedStreams DEF LoseClaim, End, LiveOn
  <2>2. QED BY <1>1, <1>3, <2>1 DEF Reacquire, Lapse
<1>4. CASE CloseActor \/ Shutdown
  BY <1>0, <1>2, <1>4, EndedStreams DEF CloseActor, Shutdown, End
\* A stream that nobody waits on, since it is not live.
<1>5. ASSUME NEW s \in Sub, UNCHANGED <<call, readVars>>, stream[s].phase # "live",
             \A u \in Sub \ {s} : stream'[u] = stream[u]
      PROVE  ReadersInv'
  BY <1>0, <1>5, StillWaiting DEF NoLostWakeup
<1>6. ASSUME NEW s \in Sub, Subscribe(s) \/ Create(s) \/ CreateFails(s) \/ Forget(s) PROVE ReadersInv'
  <2>1. UNCHANGED <<call, readVars>> /\ stream[s].phase # "live"
    BY <1>6 DEF Subscribe, Create, CreateFails, Forget
  <2>2. \A u \in Sub \ {s} : stream'[u] = stream[u]
    BY <1>0, <1>6 DEF Subscribe, Create, CreateFails, Forget
  <2>3. QED BY <1>5, <2>1, <2>2
<1>7. ASSUME NEW s \in Sub, Unsubscribe(s) PROVE ReadersInv'
  <2>1. \A u \in Sub \ {s} : stream'[u] = stream[u]
    BY <1>0, <1>7, EndedStreams DEF Unsubscribe, End
  <2>2. QED BY <1>2, <1>7, <2>1 DEF Unsubscribe
<1>8. ASSUME NEW s \in Sub, PumpReports(s) \/ PumpFails(s) PROVE ReadersInv'
  <2>1. call' = Notified({s}) /\ UNCHANGED readVars
    BY <1>8 DEF PumpReports, PumpFails
  <2>2. \A u \in Sub \ {s} : stream'[u] = stream[u]
    BY <1>0, <1>8 DEF PumpReports, PumpFails
  <2>3. QED BY <1>2, <2>1, <2>2
<1>9. ASSUME NEW s \in Sub, PumpReturns(s) PROVE ReadersInv'
  BY <1>1, <1>9 DEF PumpReturns
\* A step of one call, whose own wait is over or starts where there is nothing.
<1>10. ASSUME NEW t \in Reader, ReadersOK', NoSilentGap',
              call'[t].pc = "waiting" =>
                stream'[Of[t]].phase = "live" /\ call'[t].from >= Latest(stream'[Of[t]]),
              \A u \in Reader \ {t} : call'[u].pc = "waiting" =>
                call'[u] = call[u] /\ stream'[Of[u]].phase = stream[Of[u]].phase
                  /\ Latest(stream'[Of[u]]) = Latest(stream[Of[u]])
       PROVE  ReadersInv'
  BY <1>0, <1>10 DEF ReadersInv, NoLostWakeup
<1>11. ASSUME NEW t \in Reader, StartRead(t) PROVE ReadersInv'
  <2>1. PICK lost \in SUBSET Live : End(lost) /\ Loop(t, Notified(lost), cursor[t], FALSE)
    BY <1>11 DEF StartRead, LiveOn
  <2>2. Notified(lost) \in [Reader -> Call] /\ cursor[t] \in Nat
    BY <1>0, NotifiedCalls
  <2>3. /\ ReadersOK' /\ NoSilentGap'
        /\ \A u \in Reader \ {t} : call'[u] = Notified(lost)[u]
        /\ call'[t].pc = "waiting" =>
             stream'[Of[t]].phase = "live" /\ call'[t].from >= Latest(stream'[Of[t]])
    BY <1>0, <2>1, <2>2, LoopStep
  <2>4. \A s \in Sub \ lost : stream'[s] = stream[s]
    BY <1>0, <2>1, EndedStreams DEF End
  <2>5. \A u \in Reader \ {t} : call'[u].pc = "waiting" => Of[u] \notin lost /\ call'[u] = call[u]
    BY <1>0, <2>3, NotifiedCalls
  <2>6. QED BY <1>0, <1>10, <2>3, <2>4, <2>5
<1>12. ASSUME NEW t \in Reader, LookIn(t) PROVE ReadersInv'
  <2> DEFINE p == Page(stream[Of[t]], call[t].from)
  <2>1. UNCHANGED stream
    BY <1>12 DEF LookIn
  <2>2. call[t].from \in Nat /\ p.next \in Nat /\ call[t].late \in BOOLEAN
    BY <1>0, Paged DEF Call
  <2>3. CASE call' = [call EXCEPT ![t].pc = "observing", ![t].from = p.next] /\ UNCHANGED readVars
    <3> DEFINE k == call[t]
               q == [k EXCEPT !.pc = "observing", !.from = p.next]
    <3>1. q \in Call /\ q.pc = "observing"
      <4>1. k \in Call
        BY <1>0
      <4> HIDE DEF k, p
      <4>2. QED BY <2>2, <4>1 DEF Call
    <3>2. call' = [call EXCEPT ![t] = q]
      BY <2>3
    <3> HIDE DEF q
    <3>3. QED BY <1>0, <2>1, <2>3, <3>1, <3>2, StillWaiting
  <2>4. CASE Deliver(t, call) \/ Loop(t, call, p.next, call[t].late)
    <3>1. /\ ReadersOK' /\ NoSilentGap'
          /\ \A u \in Reader \ {t} : call'[u] = call[u]
          /\ call'[t].pc = "waiting" =>
               stream'[Of[t]].phase = "live" /\ call'[t].from >= Latest(stream'[Of[t]])
      BY <1>0, <2>2, <2>4, LoopStep
    <3>2. QED BY <1>10, <2>1, <3>1
  <2>5. QED BY <1>12, <2>3, <2>4 DEF LookIn
<1>13. ASSUME NEW t \in Reader, ObserveFails(t) PROVE ReadersInv'
  <2>1. UNCHANGED <<stream, readVars>> /\ call' = [call EXCEPT ![t] = NoCall]
    BY <1>13 DEF ObserveFails
  <2>2. NoCall \in Call /\ NoCall.pc = "idle"
    BY DEF NoCall, Call
  <2>3. QED BY <1>0, <2>1, <2>2, StillWaiting
<1>14. ASSUME NEW t \in Reader, TimeUp(t) PROVE ReadersInv'
  <2> DEFINE k == call[t]
             q == [k EXCEPT !.late = TRUE, !.pc = IF @ = "waiting" THEN "woken" ELSE @]
  <2>1. q \in Call /\ q.pc # "waiting"
    <3>1. k \in Call
      BY <1>0
    <3> HIDE DEF k
    <3>2. QED BY <3>1 DEF Call
  <2>2. call' = [call EXCEPT ![t] = q] /\ UNCHANGED <<stream, readVars>>
    BY <1>14 DEF TimeUp
  <2> HIDE DEF q
  <2>3. QED BY <1>0, <2>1, <2>2, StillWaiting
<1>15. ASSUME NEW t \in Reader, Cancel(t) PROVE ReadersInv'
  <2> DEFINE s == Of[t]
  <2>1. /\ \A u \in Sub \ {s} : stream'[u] = stream[u]
        /\ call' = [Notified({s}) EXCEPT ![t] = NoCall] /\ UNCHANGED readVars
    BY <1>0, <1>15, EndedStreams DEF Cancel, End
  <2>2. NoCall \in Call /\ NoCall.pc = "idle"
    BY DEF NoCall, Call
  <2>3. Notified({s}) \in [Reader -> Call]
    BY <1>0, NotifiedCalls
  <2>4. \A u \in Reader : call'[u].pc = "waiting" => Of[u] # s /\ call'[u] = call[u]
    BY <1>0, <2>1, <2>2, <2>3, NotifiedCalls
  <2>5. call' \in [Reader -> Call]
    BY <2>1, <2>2, <2>3
  <2>6. QED BY <1>0, <2>1, <2>4, <2>5, StillWaiting
<1>16. ASSUME NEW t \in Reader, Observed(t) PROVE ReadersInv'
  <2> DEFINE s == Of[t]
  <2>1. PICK met \in BOOLEAN :
          LET news == met /\ ~stream[s].met
              r == [(IF news THEN Log(stream[s], "met") ELSE stream[s]) EXCEPT !.met = met]
              c == IF news THEN Notified({s}) ELSE call
          IN  /\ stream' = [stream EXCEPT ![s] = r]
              /\ Deliver(t, c) \/ Loop(t, c, call[t].from, FALSE)
    BY <1>16 DEF Observed
  <2> DEFINE news == met /\ ~stream[s].met
             c == IF news THEN Notified({s}) ELSE call
  <2>2. /\ s \in Sub /\ call[t].from \in Nat /\ c \in [Reader -> Call]
        /\ \A u \in Sub \ {s} : stream'[u] = stream[u]
    BY <1>0, <2>1, NotifiedCalls DEF Call
  <2>3. \A u \in Reader : c[u].pc = "waiting" => c[u] = call[u] /\ (news => Of[u] # s)
    BY <1>0, NotifiedCalls
  <2>4. ~news => stream'[s].phase = stream[s].phase /\ Latest(stream'[s]) = Latest(stream[s])
    <3> SUFFICES ASSUME ~news PROVE stream'[s].phase = stream[s].phase /\ Latest(stream'[s]) = Latest(stream[s])
      OBVIOUS
    <3> DEFINE q == stream[s]
    <3>1. q \in Record /\ stream'[s] = [q EXCEPT !.met = met]
      BY <1>0, <2>1
    <3> HIDE DEF q
    <3>2. [q EXCEPT !.met = met].phase = q.phase /\ Latest([q EXCEPT !.met = met]) = Latest(q)
      BY <3>1 DEF Record, Stream, Latest
    <3>3. QED BY <3>1, <3>2 DEF q
  <2>5. Deliver(t, c) \/ Loop(t, c, call[t].from, FALSE)
    BY <2>1
  <2> HIDE DEF c, news, s
  <2>6. /\ ReadersOK' /\ NoSilentGap'
        /\ \A u \in Reader \ {t} : call'[u] = c[u]
        /\ call'[t].pc = "waiting" =>
             stream'[Of[t]].phase = "live" /\ call'[t].from >= Latest(stream'[Of[t]])
    BY <1>0, <2>2, <2>5, LoopStep
  <2>7. QED BY <1>0, <1>10, <2>2, <2>3, <2>4, <2>6
<1>17. CASE UNCHANGED vars
  BY <1>1, <1>17 DEF vars, readVars
<1>18. QED BY <1>3, <1>4, <1>6, <1>7, <1>8, <1>9, <1>11, <1>12, <1>13, <1>14, <1>15, <1>16, <1>17 DEF Next

--------------------------------------------------------------------------------
(* Theorems.                                                                 *)

LEMMA Start == Init => ClaimsOK /\ StreamsInv /\ ReadersInv
<1> SUFFICES ASSUME Init PROVE ClaimsOK /\ StreamsInv /\ ReadersInv
  OBVIOUS
<1> DEFINE q == [phase |-> "none", lease |-> 0, met |-> FALSE, journal |-> <<>>, dropped |-> 0]
<1>1. q \in Record /\ q.phase = "none"
  BY DEF Record, Stream, Phase
<1>2. stream = [s \in Sub |-> q] /\ pump = [s \in Sub |-> "off"]
  BY DEF Init, NoStreams
<1> HIDE DEF q
<1>3. StreamsInv
  BY <1>1, <1>2 DEF StreamsInv, StreamHasPump, EndIsLast
<1>4. NoCall \in Call /\ NoCall.pc = "idle"
  BY DEF NoCall, Call
<1>5. ReadersInv
  BY <1>4 DEF Init, NoStreams, ReadersInv, ReadersOK, NoLostWakeup, NoSilentGap
<1>6. ClaimsOK
  BY DEF Init, NoStreams, ClaimsOK
<1>7. QED BY <1>3, <1>5, <1>6

LEMMA Invariant == Spec => [](ClaimsOK /\ StreamsInv /\ ReadersInv)
<1>1. ClaimsOK /\ StreamsInv /\ ReadersInv /\ [Next]_vars => (ClaimsOK /\ StreamsInv /\ ReadersInv)'
  BY ClaimsStep, StreamsStep, ReadersStep
<1>2. QED BY <1>1, Start, PTL DEF Spec

\* The state is well formed; no journal outgrows its retention.
THEOREM WellTyped == Spec => []TypeOK
<1>1. ClaimsOK /\ StreamsInv /\ ReadersInv => TypeOK
  BY DEF ClaimsOK, StreamsInv, ReadersInv, ReadersOK, Record, TypeOK
<1>2. QED BY <1>1, Invariant, PTL

\* A live stream has a pump that is on, and no pump that is on works for a
\* stream that is not live: the two ends of a subscription close together.
THEOREM PumpsMatchStreams == Spec => []StreamHasPump
<1>1. StreamsInv => StreamHasPump
  BY DEF StreamsInv
<1>2. QED BY <1>1, Invariant, PTL

\* A waiting read has nothing to read yet, and its stream can still notify it.
THEOREM NobodySleepsOver == Spec => []NoLostWakeup
<1>1. ReadersInv => NoLostWakeup
  BY DEF ReadersInv
<1>2. QED BY <1>1, Invariant, PTL

\* Whatever a cursor has passed was delivered, or reported as lost.
THEOREM GapsAreTold == Spec => []NoSilentGap
<1>1. ReadersInv => NoSilentGap
  BY DEF ReadersInv
<1>2. QED BY <1>1, Invariant, PTL

\* Nothing is added to, or dropped from, the journal of a stream that has ended.
LEMMA JournalClosed ==
  StreamsInv /\ [Next]_vars =>
    \A s \in Sub : stream[s].phase = "ended" => stream'[s].journal = stream[s].journal
<1> SUFFICES ASSUME StreamsInv, [Next]_vars, NEW s \in Sub, stream[s].phase = "ended"
             PROVE  stream'[s].journal = stream[s].journal
  OBVIOUS
<1>0. stream \in [Sub -> Record] /\ pump[s] # "on" /\ s \notin Live
  BY DEF StreamsInv, StreamHasPump, Live
<1>1. ASSUME NEW S \in SUBSET Live, End(S) PROVE stream'[s] = stream[s]
  BY <1>0, <1>1, EndedStreams DEF End
<1>2. ASSUME NEW r \in Resource, Reacquire(r) \/ Lapse(r) \/ LoseClaim(r) PROVE stream'[s] = stream[s]
  BY <1>1, <1>2 DEF Reacquire, Lapse, LoseClaim, LiveOn
<1>3. CASE CloseActor \/ Shutdown
  BY <1>1, <1>3 DEF CloseActor, Shutdown
<1>4. ASSUME NEW u \in Sub, Subscribe(u) \/ Create(u) \/ CreateFails(u) PROVE stream'[s] = stream[s]
  BY <1>0, <1>4 DEF Subscribe, Create, CreateFails
<1>5. ASSUME NEW u \in Sub, Forget(u) PROVE stream'[s].journal = stream[s].journal
  <2>1. CASE u # s
    BY <1>0, <1>5, <2>1 DEF Forget
  <2>2. CASE u = s
    <3> DEFINE r == stream[s]
    <3>1. r \in Record /\ stream'[s] = [r EXCEPT !.phase = "gone"]
      BY <1>0, <1>5, <2>2 DEF Forget
    <3> HIDE DEF r
    <3>2. [r EXCEPT !.phase = "gone"].journal = r.journal
      BY <3>1 DEF Record, Stream
    <3>3. QED BY <3>1, <3>2 DEF r
  <2>3. QED BY <2>1, <2>2
<1>6. ASSUME NEW u \in Sub, Unsubscribe(u) PROVE stream'[s] = stream[s]
  BY <1>1, <1>6 DEF Unsubscribe
\* What is not an end is refused.
<1>7. "changed" \in Event /\ "met" \in Event
  BY DEF Event
<1>8. Log(stream[s], "changed") = stream[s] /\ Log(stream[s], "met") = stream[s]
  BY <1>0, <1>7, Logged
<1>9. ASSUME NEW u \in Sub, PumpReports(u) PROVE stream'[s] = stream[s]
  <2>1. CASE u # s
    BY <1>0, <1>9, <2>1 DEF PumpReports
  <2>2. CASE u = s
    BY <1>0, <1>8, <1>9, <2>2 DEF PumpReports
  <2>3. QED BY <2>1, <2>2
<1>10. ASSUME NEW u \in Sub, PumpFails(u) \/ PumpReturns(u) PROVE stream'[s] = stream[s]
  BY <1>0, <1>10 DEF PumpFails, PumpReturns
<1>11. ASSUME NEW t \in Reader, StartRead(t) \/ LookIn(t) \/ ObserveFails(t) \/ TimeUp(t) \/ Cancel(t)
       PROVE  stream'[s] = stream[s]
  <2>1. CASE StartRead(t)
    <3>1. PICK lost \in SUBSET Live : End(lost)
      BY <2>1 DEF StartRead, LiveOn
    <3>2. QED BY <1>1, <3>1
  <2>2. QED BY <1>1, <1>11, <2>1 DEF LookIn, ObserveFails, TimeUp, Cancel
<1>12. ASSUME NEW t \in Reader, Observed(t) PROVE stream'[s].journal = stream[s].journal
  <2>1. PICK met \in BOOLEAN :
          stream' = [stream EXCEPT ![Of[t]] =
            [(IF met /\ ~stream[Of[t]].met THEN Log(stream[Of[t]], "met") ELSE stream[Of[t]])
               EXCEPT !.met = met]]
    BY <1>12 DEF Observed
  <2>2. CASE Of[t] # s
    BY <1>0, <2>1, <2>2
  <2>3. CASE Of[t] = s
    <3> DEFINE r == stream[s]
    <3>1. r \in Record /\ stream'[s] = [r EXCEPT !.met = met]
      BY <1>0, <1>8, <2>1, <2>3
    <3> HIDE DEF r
    <3>2. [r EXCEPT !.met = met].journal = r.journal
      BY <3>1 DEF Record, Stream
    <3>3. QED BY <3>1, <3>2 DEF r
  <2>4. QED BY <2>2, <2>3
<1>13. CASE UNCHANGED vars
  BY <1>13 DEF vars
<1>14. QED BY <1>2, <1>3, <1>4, <1>5, <1>6, <1>9, <1>10, <1>11, <1>12, <1>13 DEF Next

\* A reader that comes late reads the same end as one that was waiting: the
\* journal of a stream that has ended stays, and its end is the last of it.
THEOREM EndIsFinal == Spec => NothingAfterEnd
<1>1. StreamsInv /\ [Next]_vars =>
        [\A s \in Sub :
           stream[s].phase = "ended" =>
             /\ stream'[s].journal = stream[s].journal
             /\ stream[s].journal[Len(stream[s].journal)] = "end"]_vars
  BY JournalClosed DEF StreamsInv, EndIsLast
<1>2. QED BY <1>1, Invariant, PTL DEF Spec, NothingAfterEnd

--------------------------------------------------------------------------------
(* The limit on the streams of an actor.                                     *)

WithinLimit == IsFiniteSet(Live) /\ Cardinality(Live) <= MaxLive

\* Only create makes a stream live.
LEMMA OnlyCreateStarts ==
  StreamsInv /\ StreamsInv' /\ [Next]_vars => Live' \subseteq Live \/ \E s \in Sub : Create(s) /\ Live' \subseteq Live \cup {s}
<1> SUFFICES ASSUME StreamsInv, StreamsInv', [Next]_vars
             PROVE  Live' \subseteq Live \/ \E s \in Sub : Create(s) /\ Live' \subseteq Live \cup {s}
  OBVIOUS
<1>1. Live = {s \in Sub : pump[s] = "on"} /\ Live' = {s \in Sub : pump'[s] = "on"}
  BY DEF Live, StreamsInv, StreamHasPump
<1>2. pump \in [Sub -> {"off", "on", "stopping"}]
  BY DEF StreamsInv
<1>3. ASSUME NEW S \in SUBSET Live, End(S) PROVE Live' \subseteq Live
  BY <1>1, <1>2, <1>3 DEF End, Stop
<1>4. ASSUME UNCHANGED pump \/ (\E s \in Sub : pump' = [pump EXCEPT ![s] = "off"]) PROVE Live' \subseteq Live
  BY <1>1, <1>2, <1>4
<1>5. ASSUME NEW s \in Sub, Create(s) PROVE Live' \subseteq Live \cup {s}
  BY <1>1, <1>2, <1>5 DEF Create
<1>6. ASSUME NEW r \in Resource, Reacquire(r) \/ Lapse(r) \/ LoseClaim(r) PROVE Live' \subseteq Live
  BY <1>3, <1>4, <1>6 DEF Reacquire, Lapse, LoseClaim, LiveOn
<1>7. CASE CloseActor \/ Shutdown
  BY <1>3, <1>7 DEF CloseActor, Shutdown
<1>8. ASSUME NEW s \in Sub, Subscribe(s) \/ CreateFails(s) \/ Unsubscribe(s) \/ Forget(s) PROVE Live' \subseteq Live
  BY <1>3, <1>4, <1>8 DEF Subscribe, CreateFails, Unsubscribe, Forget
<1>9. ASSUME NEW s \in Sub, PumpReports(s) \/ PumpFails(s) \/ PumpReturns(s) PROVE Live' \subseteq Live
  BY <1>4, <1>9 DEF PumpReports, PumpFails, PumpReturns
<1>10. ASSUME NEW t \in Reader, StartRead(t) PROVE Live' \subseteq Live
  <2>1. PICK lost \in SUBSET Live : End(lost)
    BY <1>10 DEF StartRead, LiveOn
  <2>2. QED BY <1>3, <2>1
<1>11. ASSUME NEW t \in Reader, LookIn(t) \/ Observed(t) \/ ObserveFails(t) \/ TimeUp(t) PROVE Live' \subseteq Live
  BY <1>4, <1>11 DEF LookIn, Observed, ObserveFails, TimeUp
<1>12. ASSUME NEW t \in Reader, Cancel(t) PROVE Live' \subseteq Live
  BY <1>3, <1>12 DEF Cancel
<1>13. CASE UNCHANGED vars
  BY <1>4, <1>13 DEF vars
<1>14. QED BY <1>5, <1>6, <1>7, <1>8, <1>9, <1>10, <1>11, <1>12, <1>13 DEF Next

\* Creations that overlap, each of which has waited for its source, do not take
\* an actor past the limit: it is looked at where the stream becomes live.
THEOREM StreamsAreLimited == Spec => []WithinLimit
<1>1. Init => WithinLimit
  <2>1. Init => Live = {}
    BY DEF Init, NoStreams, Live
  <2>2. IsFiniteSet({}) /\ Cardinality({}) = 0 /\ MaxLive \in Nat
    BY FS_EmptySet
  <2>3. QED BY <2>1, <2>2 DEF WithinLimit
<1>2. WithinLimit /\ StreamsInv /\ StreamsInv' /\ [Next]_vars => WithinLimit'
  <2> SUFFICES ASSUME WithinLimit, StreamsInv, StreamsInv', [Next]_vars PROVE WithinLimit'
    OBVIOUS
  <2>1. CASE Live' \subseteq Live
    <3>1. IsFiniteSet(Live') /\ Cardinality(Live') <= Cardinality(Live)
      BY <2>1, FS_Subset DEF WithinLimit
    <3>2. Cardinality(Live) \in Nat /\ Cardinality(Live') \in Nat
      BY <3>1, FS_CardinalityType DEF WithinLimit
    <3>3. QED BY <3>1, <3>2 DEF WithinLimit
  <2>2. ASSUME NEW s \in Sub, Create(s), Live' \subseteq Live \cup {s} PROVE WithinLimit'
    <3>1. Cardinality(Live) < MaxLive /\ IsFiniteSet(Live) /\ Cardinality(Live) \in Nat
      BY <2>2, FS_CardinalityType DEF Create, WithinLimit
    <3> DEFINE L == Live
    <3>2. IsFiniteSet(L \cup {s}) /\ Cardinality(L \cup {s}) <= Cardinality(L) + 1
      <4>1. IsFiniteSet(L) /\ Cardinality(L) \in Nat
        BY <3>1
      <4> HIDE DEF L
      <4>2. /\ IsFiniteSet(L \cup {s})
            /\ Cardinality(L \cup {s}) = IF s \in L THEN Cardinality(L) ELSE Cardinality(L) + 1
        BY <4>1, FS_AddElement
      <4>3. QED BY <4>1, <4>2
    <3>3. IsFiniteSet(Live') /\ Cardinality(Live') <= Cardinality(Live \cup {s})
      BY <2>2, <3>2, FS_Subset
    <3>4. Cardinality(Live') \in Nat /\ Cardinality(Live \cup {s}) \in Nat
      BY <3>2, <3>3, FS_CardinalityType
    <3>5. QED BY <3>1, <3>2, <3>3, <3>4 DEF WithinLimit
  <2>3. QED BY <2>1, <2>2, OnlyCreateStarts
<1>3. QED BY <1>1, <1>2, Invariant, PTL DEF Spec
================================================================================
