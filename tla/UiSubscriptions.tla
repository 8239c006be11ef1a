---------------------------- MODULE UiSubscriptions ----------------------------
(***************************************************************************)
(* Durable change subscriptions of one actor: the store of                 *)
(* src/src/ui-subscriptions.ts with the pumps that fill it and the         *)
(* read_ui_events calls that wait on it (src/src/bridge.ts).               *)
(*                                                                         *)
(* A stream has a journal that keeps the latest events, a pump that        *)
(* reports what its source observes, and the lease of a claim.  Readers    *)
(* resume from cursors.  The store runs without an await; pumps and        *)
(* readers are interleaved at theirs.                                      *)
(***************************************************************************)
EXTENDS Integers, Sequences, FiniteSets

CONSTANTS
  Sub,          \* subscriptions; each is created at most once (random ids)
  Reader,       \* consumers, each with a cursor and one call at a time
  Resource,     \* resource keys
  On,           \* the resource of a subscription
  Of,           \* the subscription of a reader
  Conditional,  \* the subscriptions with a condition
  Retain,       \* MAX_UI_EVENTS_PER_SUBSCRIPTION
  MaxLive,      \* MAX_UI_SUBSCRIPTIONS
  PageSize,     \* maxEvents of a read
  MaxEvents,    \* bound: when the source of a stream reports no more
  MaxLeases     \* bound: how many leases the actor is given

ASSUME SubscriptionAssumption ==
  On \in [Sub -> Resource] /\ Of \in [Reader -> Sub] /\ Conditional \subseteq Sub
ASSUME BoundAssumption ==
  /\ {Retain, MaxLive, PageSize} \subseteq Nat \ {0}
  /\ MaxEvents \in [Sub -> Nat] /\ MaxLeases \in Nat

VARIABLES
  open,     \* the actor has not been closed
  held,     \* the lease of the actor's claim on a resource, or 0
  leases,   \* how many leases the actor was given
  stream,   \* the records
  pump,     \* "off", "on" or "stopping": aborted, and not yet returned
  call,     \* where the call of a reader is
  cursor,   \* the nextCursor a reader got last
  told      \* history: the events a reader has got, or was told it lost

claimVars == <<open, held, leases>>
readVars == <<cursor, told>>
vars == <<claimVars, stream, pump, call, readVars>>

\* "changed" is ui_changed, or an overflow of the source; "met" is condition_met;
\* "end" is one of ownership_lost, closed and source_error.
Event == {"changed", "met", "end"}
Phase == {"none", "starting", "live", "ended", "gone"}
Stream == [phase : Phase, lease : 0 .. MaxLeases, met : BOOLEAN, journal : Seq(Event), dropped : Nat]
Call == [pc : {"idle", "waiting", "woken", "observing"}, from : Nat, late : BOOLEAN]
NoCall == [pc |-> "idle", from |-> 0, late |-> FALSE]

NoStreams ==
  /\ held = [r \in Resource |-> 0]
  /\ leases = 0
  /\ stream = [s \in Sub |->
       [phase |-> "none", lease |-> 0, met |-> FALSE, journal |-> <<>>, dropped |-> 0]]
  /\ pump = [s \in Sub |-> "off"]
  /\ call = [t \in Reader |-> NoCall]
  /\ cursor = [t \in Reader |-> 0]
  /\ told = [t \in Reader |-> {}]

Init == open = TRUE /\ NoStreams

--------------------------------------------------------------------------------
(* The journal.                                                              *)

Latest(r) == r.dropped + Len(r.journal)
EventAt(r, n) == r.journal[n - r.dropped]

\* append: what is not an end is refused once the stream is not active.
Log(r, e) ==
  IF r.phase # "live" /\ ~(r.phase = "ended" /\ e = "end") THEN r
  ELSE IF Len(r.journal) < Retain THEN [r EXCEPT !.journal = Append(@, e)]
  ELSE [r EXCEPT !.journal = Append(Tail(@), e), !.dropped = @ + 1]

\* What read returns from a cursor: the events after first up to next, and
\* whether some before them are lost.
Page(r, from) ==
  LET over == from < r.dropped
      first == IF over THEN r.dropped ELSE from
      last == first + PageSize - (IF over THEN 1 ELSE 0)
      next == IF last < Latest(r) THEN last ELSE Latest(r)
  IN  [over |-> over, first |-> first, next |-> next]

Empty(p) == ~p.over /\ p.next = p.first
Changed(r, p) == p.over \/ \E n \in p.first + 1 .. p.next : EventAt(r, n) = "changed"

\* close, invalidateResource, closeActor, closeAll: the streams of S end.
EndStreams(S) ==
  [s \in Sub |-> IF s \in S THEN Log([stream[s] EXCEPT !.phase = "ended"], "end") ELSE stream[s]]
Live == {s \in Sub : stream[s].phase = "live"}
LiveOn(r) == {s \in Live : On[s] = r}

\* stopUiSubscriptionPump.
Stop(S) == pump' = [s \in Sub |-> IF s \in S /\ pump[s] = "on" THEN "stopping" ELSE pump[s]]

\* notify: the waiters of the streams of S.
Notified(S) ==
  [t \in Reader |->
     IF Of[t] \in S /\ call[t].pc = "waiting" THEN [call[t] EXCEPT !.pc = "woken"] ELSE call[t]]

End(S) ==
  /\ stream' = EndStreams(S)
  /\ Stop(S)

--------------------------------------------------------------------------------
(* Claims.  Whoever else owns a resource is not told from nobody.            *)

Grant(r) ==
  /\ leases < MaxLeases
  /\ leases' = leases + 1
  /\ held' = [held EXCEPT ![r] = leases + 1]

Reacquire(r) ==
  /\ open /\ held[r] = 0
  /\ Grant(r)
  /\ UNCHANGED <<open, stream, pump, call, readVars>>

\* The claim expires; nobody tells the store.
Lapse(r) ==
  /\ held[r] # 0
  /\ held' = [held EXCEPT ![r] = 0]
  /\ UNCHANGED <<open, leases, stream, pump, call, readVars>>

\* release or handoff of claim_resource.
LoseClaim(r) ==
  /\ open /\ held[r] # 0
  /\ held' = [held EXCEPT ![r] = 0]
  /\ End(LiveOn(r))
  /\ call' = Notified(LiveOn(r))
  /\ UNCHANGED <<open, leases, readVars>>

CloseActor ==
  /\ open
  /\ open' = FALSE
  /\ held' = [r \in Resource |-> 0]
  /\ End(Live)
  /\ call' = Notified(Live)
  /\ UNCHANGED <<leases, readVars>>

\* closeAllUiSubscriptionPumps: the session of the host ends.
Shutdown ==
  /\ End(Live)
  /\ call' = Notified(Live)
  /\ UNCHANGED <<claimVars, readVars>>

--------------------------------------------------------------------------------
(* Subscriptions.                                                            *)

\* subscribe_ui up to its wait for a cursor of the source: it has the claim.
Subscribe(s) ==
  /\ open /\ stream[s].phase = "none"
  /\ IF held[On[s]] = 0 THEN Grant(On[s]) ELSE UNCHANGED <<held, leases>>
  /\ stream' = [stream EXCEPT ![s].phase = "starting", ![s].lease = held'[On[s]]]
  /\ UNCHANGED <<open, pump, call, readVars>>

\* The source has answered: create, and its pump starts.  The claim may be lost.
Create(s) ==
  /\ stream[s].phase = "starting"
  /\ Cardinality(Live) < MaxLive
  /\ \E met \in BOOLEAN :
       /\ met => s \in Conditional
       /\ stream' = [stream EXCEPT ![s].phase = "live", ![s].met = met]
  /\ pump' = [pump EXCEPT ![s] = "on"]
  /\ UNCHANGED <<claimVars, call, readVars>>

\* No source, or too many streams: the claim stays.
CreateFails(s) ==
  /\ stream[s].phase = "starting"
  /\ stream' = [stream EXCEPT ![s].phase = "gone"]
  /\ UNCHANGED <<claimVars, pump, call, readVars>>

Unsubscribe(s) ==
  /\ open /\ stream[s].phase \in {"live", "ended"}
  /\ End({s} \cap Live)
  /\ call' = Notified({s})
  /\ UNCHANGED <<claimVars, readVars>>

\* gc: a stream that ended and was not read for five minutes, with its waiters.
Forget(s) ==
  /\ stream[s].phase = "ended"
  /\ stream' = [stream EXCEPT ![s].phase = "gone"]
  /\ UNCHANGED <<claimVars, pump, call, readVars>>

\* A batch of notifications: pumpNativeUiSubscription, pumpBrowserUiSubscription.
\* An aborted pump may have one in hand.
PumpReports(s) ==
  /\ pump[s] # "off"
  /\ Latest(stream[s]) < MaxEvents[s]
  /\ \/ stream' = [stream EXCEPT ![s] = Log(@, "changed")]
     \/ stream' = [stream EXCEPT ![s] = Log(Log(@, "changed"), "changed")]
  /\ call' = Notified({s})
  /\ UNCHANGED <<claimVars, pump, readVars>>

\* The source is lost or the claim cannot be renewed.
PumpFailsOpen(s) ==  \* mutant: reports the error and leaves the stream open
  /\ pump[s] = "on"
  /\ stream' = [stream EXCEPT ![s] = Log(@, "end")]
  /\ pump' = [pump EXCEPT ![s] = "off"]
  /\ call' = Notified({s})
  /\ UNCHANGED <<claimVars, readVars>>
PumpFails(s) ==
  /\ pump[s] = "on"
  /\ stream' = [stream EXCEPT ![s] =
       LET r == Log(@, "end")
       IN  IF r.phase = "live" THEN Log([r EXCEPT !.phase = "ended"], "end") ELSE r]
  /\ pump' = [pump EXCEPT ![s] = "off"]
  /\ call' = Notified({s})
  /\ UNCHANGED <<claimVars, readVars>>

PumpReturns(s) ==
  /\ pump[s] = "stopping"
  /\ pump' = [pump EXCEPT ![s] = "off"]
  /\ UNCHANGED <<claimVars, stream, call, readVars>>

Stale(s) == held[On[s]] # stream[s].lease

--------------------------------------------------------------------------------
(* read_ui_events.  The state of the streams it works from is stream', the    *)
(* calls are c.                                                              *)

WaitsOnEnded(r, from) == from >= Latest(r)  \* mutant: waits on an ended stream
Waits(r, from) == r.phase = "live" /\ from >= Latest(r)

\* The last read, from the cursor of the reader.
DeliverToLatest(t, c) ==  \* mutant: the next cursor passes what did not fit
  LET r == stream'[Of[t]]
      p == Page(r, cursor[t])
  IN  /\ call' = [c EXCEPT ![t] = NoCall]
      /\ IF r.phase = "gone" THEN UNCHANGED readVars
         ELSE /\ cursor' = [cursor EXCEPT ![t] = Latest(r)]
              /\ told' = [told EXCEPT ![t] =
                   @ \cup p.first + 1 .. p.next \cup (IF p.over THEN 1 .. r.dropped ELSE {})]
Deliver(t, c) ==
  LET r == stream'[Of[t]]
      p == Page(r, cursor[t])
  IN  /\ call' = [c EXCEPT ![t] = NoCall]
      /\ IF r.phase = "gone" THEN UNCHANGED readVars
         ELSE /\ cursor' = [cursor EXCEPT ![t] = p.next]
              /\ told' = [told EXCEPT ![t] =
                   @ \cup p.first + 1 .. p.next \cup (IF p.over THEN 1 .. r.dropped ELSE {})]

\* The loop from its head: a condition that is met ends it, else waitForEvents.
Loop(t, c, from, late) ==
  LET r == stream'[Of[t]] IN
  IF r.met THEN Deliver(t, c)
  ELSE /\ call' = [c EXCEPT ![t] =
            [pc |-> IF Waits(r, from) /\ ~late THEN "waiting" ELSE "woken",
             from |-> from, late |-> late]]
       /\ UNCHANGED readVars

\* A claim that cannot be renewed invalidates every stream of the resource.
StartRead(t) ==
  LET s == Of[t]
      lost == IF s \in Live /\ Stale(s) THEN LiveOn(On[s]) ELSE {}
  IN  /\ open /\ call[t].pc = "idle"
      /\ stream[s].phase \in {"live", "ended"}
      /\ End(lost)
      /\ Loop(t, Notified(lost), cursor[t], FALSE)
      /\ UNCHANGED claimVars

\* The wait is over: look at what there is, and observe if the interface changed.
LookIn(t) ==
  LET r == stream[Of[t]]
      p == Page(r, call[t].from)
      refresh == r.phase = "live" /\ Changed(r, p)
      done == Of[t] \notin Conditional \/ r.met \/ r.phase # "live" \/ call[t].late \/ Empty(p)
  IN  /\ call[t].pc = "woken"
      /\ UNCHANGED <<claimVars, stream, pump>>
      /\ \/ /\ refresh
            /\ call' = [call EXCEPT ![t].pc = "observing", ![t].from = p.next]
            /\ UNCHANGED readVars
         \/ ~refresh /\ (r.phase = "gone" \/ done) /\ Deliver(t, call)
         \/ ~refresh /\ r.phase # "gone" /\ ~done /\ Loop(t, call, p.next, call[t].late)

\* performObserve has answered; the condition is evaluated against what it saw.
Observed(t) ==
  LET s == Of[t] IN
  /\ call[t].pc = "observing"
  /\ \E met \in BOOLEAN :
       LET news == met /\ ~stream[s].met
           r == [(IF news THEN Log(stream[s], "met") ELSE stream[s]) EXCEPT !.met = met]
           c == IF news THEN Notified({s}) ELSE call
       IN  /\ met => s \in Conditional
           /\ stream' = [stream EXCEPT ![s] = r]
           /\ IF s \notin Conditional \/ met \/ r.phase # "live" \/ call[t].late
              THEN Deliver(t, c)
              ELSE Loop(t, c, call[t].from, FALSE)
  /\ UNCHANGED <<claimVars, pump>>

ObserveFails(t) ==
  /\ call[t].pc = "observing"
  /\ call' = [call EXCEPT ![t] = NoCall]
  /\ UNCHANGED <<claimVars, stream, pump, readVars>>

\* The deadline of the call, which the timer of a wait meets.
TimeUp(t) ==
  /\ call[t].pc # "idle" /\ ~call[t].late
  /\ call' = [call EXCEPT ![t].late = TRUE, ![t].pc = IF @ = "waiting" THEN "woken" ELSE @]
  /\ UNCHANGED <<claimVars, stream, pump, readVars>>

\* The request is aborted: its stream is closed.
CancelKeepsPump(t) ==  \* mutant: the pump goes on
  LET s == Of[t] IN
  /\ call[t].pc \in {"waiting", "observing"}
  /\ stream' = EndStreams({s} \cap Live)
  /\ call' = [Notified({s}) EXCEPT ![t] = NoCall]
  /\ UNCHANGED <<claimVars, pump, readVars>>
Cancel(t) ==
  LET s == Of[t] IN
  /\ call[t].pc \in {"waiting", "observing"}
  /\ End({s} \cap Live)
  /\ call' = [Notified({s}) EXCEPT ![t] = NoCall]
  /\ UNCHANGED <<claimVars, readVars>>

--------------------------------------------------------------------------------

Next ==
  \/ \E r \in Resource : Reacquire(r) \/ Lapse(r) \/ LoseClaim(r)
  \/ CloseActor \/ Shutdown
  \/ \E s \in Sub :
       \/ Subscribe(s) \/ Create(s) \/ CreateFails(s) \/ Unsubscribe(s) \/ Forget(s)
       \/ PumpReports(s) \/ PumpFails(s) \/ PumpReturns(s)
  \/ \E t \in Reader :
       \/ StartRead(t) \/ LookIn(t) \/ Observed(t) \/ ObserveFails(t)
       \/ TimeUp(t) \/ Cancel(t)

Spec == Init /\ [][Next]_vars

\* Timers fire, the helper answers or times out, and a pump renews its claim in
\* the last minute of the lease it knows.
Fairness ==
  /\ \A t \in Reader :
       WF_vars(LookIn(t)) /\ WF_vars(TimeUp(t)) /\ WF_vars(Observed(t) \/ ObserveFails(t))
  /\ \A s \in Sub : WF_vars(Stale(s) /\ PumpFails(s))
FairSpec == Spec /\ Fairness

--------------------------------------------------------------------------------
(* Properties.                                                               *)

\* The state is well formed; a journal is bounded.
TypeOK ==
  /\ open \in BOOLEAN
  /\ held \in [Resource -> 0 .. MaxLeases] /\ leases \in 0 .. MaxLeases
  /\ stream \in [Sub -> Stream]
  /\ \A s \in Sub : Len(stream[s].journal) <= Retain
  /\ pump \in [Sub -> {"off", "on", "stopping"}]
  /\ call \in [Reader -> Call]
  /\ cursor \in [Reader -> Nat] /\ told \in [Reader -> SUBSET Nat]

\* "Overflow is explicit": a reader has got every event its cursor has passed,
\* or was told that it lost it, however far it lags behind, whatever is dropped
\* between its wait and its last read, and however the stream ends.
NoSilentGap == \A t \in Reader : 1 .. cursor[t] \subseteq told[t]

\* A reader never waits for what is already there: neither for an event behind
\* its cursor nor on a stream that has ended and will never notify it.
NoLostWakeup ==
  \A t \in Reader :
    call[t].pc = "waiting" =>
      stream[Of[t]].phase = "live" /\ call[t].from >= Latest(stream[Of[t]])

\* A stream is live exactly as long as its pump is on: none is left without a
\* source, no source works for a stream that has ended.
StreamHasPump == \A s \in Sub : stream[s].phase = "live" <=> pump[s] = "on"

\* The end is the last thing that happens to a stream, and stays readable.
NothingAfterEnd ==
  [][\A s \in Sub :
       stream[s].phase = "ended" =>
         /\ stream'[s].journal = stream[s].journal
         /\ stream[s].journal[Len(stream[s].journal)] = "end"]_vars

\* "An old owner cannot continue observing through a stale lease": a stream
\* whose claim is lost, even one created after its claim was lost, ends, though
\* nobody reads it.
StaleStreamEnds == \A s \in Sub : stream[s].phase = "live" /\ Stale(s) ~> stream[s].phase = "ended"

\* A read ends, whatever happens to its stream.
CallEnds == \A t \in Reader : call[t].pc # "idle" ~> call[t].pc = "idle"

\* "Every change is confirmed through a fresh semantic successor state before
\* delivery": what a read says of a live stream has been looked at.
EveryChangeConfirmed ==
  [][\A t \in Reader :
       LET r == stream[Of[t]] IN
       /\ cursor'[t] # cursor[t]
       /\ r.phase = "live" /\ Changed(r, Page(r, cursor[t]))
       => call[t].pc = "observing"]_vars
================================================================================
