-------------------------- MODULE Observation_proofs --------------------------
(***************************************************************************)
(* Theorems about Observation, for every application whose windows are     *)
(* trees, every set of calls and every bound of a look and of the store:   *)
(* no state mixes what was read in different epochs, a ref names one       *)
(* element of its state, and a name or an action that moves to an element  *)
(* of a later look moves to one that looks the same; and an index that is  *)
(* complete while nothing has changed has the whole of the application.    *)
(***************************************************************************)
EXTENDS Observation, FiniteSetTheorems, SequenceTheorems, WellFoundedInduction, TLAPS

ObservationSafety == ObservationInit /\ [][ObservationNext]_oVars

IsState(st) ==
  st = [id |-> st.id, outline |-> st.outline, epoch |-> st.epoch, note |-> st.note, read |-> st.read,
        by |-> st.by, epochs |-> st.epochs, since |-> st.since, at |-> st.at]
IsCall(call) == call = [phase |-> call.phase, op |-> call.op, ref |-> call.ref, query |-> call.query, st |-> call.st]
IsIndex(x) == x = [phase |-> x.phase, outline |-> x.outline, epoch |-> x.epoch, epochs |-> x.epochs, since |-> x.since,
                   at |-> x.at, stale |-> x.stale]

\* Of a state, a copy of one, and the index: what was read lies between the
\* look it stems from and its own epoch.
SpanOK(x) == x.epoch \in Nat /\ x.since \in Nat /\ x.since <= x.epoch /\ x.epochs \subseteq x.since .. x.epoch
StateOK(st) == IsState(st) /\ SpanOK(st)
SavedOK(states) == \E S : states \in Seq(S) /\ \A st \in S : StateOK(st)
EpochInv ==
  /\ epoch \in Nat /\ IsIndex(index) /\ SpanOK(index)
  /\ SavedOK(saved)
  /\ calls = [c \in Calls |-> calls[c]] /\ \A c \in Calls : IsCall(calls[c]) /\ StateOK(calls[c].st)

\* Writing a record of one look into the store.
LEMMA PersistedOK == ASSUME NEW st, SavedOK(saved), StateOK(st) PROVE SavedOK(Persisted(st))
<1>1. PICK S : saved \in Seq(S) /\ \A x \in S : StateOK(x)
  BY DEF SavedOK
<1>2. PICK T : T = S \cup {st}
  OBVIOUS
<1>3. saved \in Seq(T) /\ st \in T /\ \A x \in T : StateOK(x)
  <2>1. \A i \in DOMAIN saved : saved[i] \in T
    BY <1>1, <1>2
  <2>2. Len(saved) \in Nat /\ saved = [i \in 1..Len(saved) |-> saved[i]]
    BY <1>1
  <2>3. saved \in Seq(T)
    BY <2>1, <2>2
  <2>4. QED BY <1>1, <1>2, <2>3
<1>4. ASSUME NEW k \in DOMAIN saved PROVE RemoveAt(saved, k) \in Seq(T)
  BY <1>3 DEF RemoveAt
<1>5. Without(st.id) \in Seq(T)
  <2>1. CASE st.id \in SavedIds
    <3>1. PICK k : k = CHOOSE i \in DOMAIN saved : saved[i].id = st.id
      OBVIOUS
    <3>2. k \in DOMAIN saved
      BY <2>1, <3>1 DEF SavedIds
    <3>3. QED BY <1>4, <2>1, <3>1, <3>2 DEF Without
  <2>2. CASE st.id \notin SavedIds
    BY <1>3, <2>2 DEF Without
  <2>3. QED BY <2>1, <2>2
<1>6. Append(Without(st.id), st) \in Seq(T) /\ Append(Without(st.id), st) # <<>>
  BY <1>3, <1>5
<1>7. Persisted(st) \in Seq(T)
  BY <1>3, <1>6 DEF Persisted
<1>8. QED BY <1>3, <1>7 DEF SavedOK

\* No call.
LEMMA IdleOK == IsCall(Idle) /\ StateOK(Idle.st)
<1>1. PICK st : /\ Idle = [phase |-> "idle", op |-> "none", ref |-> NoRef, query |-> "none", st |-> st]
                /\ \E i, o, n : st = [id |-> i, outline |-> o, epoch |-> 0, note |-> n, read |-> TRUE, by |-> "none",
                                      epochs |-> {}, since |-> 0, at |-> 0]
  BY Zenon DEF Idle
<1>2. IsCall(Idle) /\ Idle.st = st
  BY <1>1 DEF IsCall
<1>3. PICK i, o, n : st = [id |-> i, outline |-> o, epoch |-> 0, note |-> n, read |-> TRUE, by |-> "none",
                           epochs |-> {}, since |-> 0, at |-> 0]
  BY <1>1
<1>4. StateOK(st)
  BY <1>3 DEF StateOK, IsState, SpanOK
<1>5. QED BY <1>2, <1>4

\* An answer, and a failure.
LEMMA ReplyOK ==
  ASSUME EpochInv, NEW c \in Calls, NEW st, NEW told, StateOK(st), Reply(c, st, told)
  PROVE  SavedOK(saved') /\ calls' = [d \in Calls |-> calls'[d]] /\ \A d \in Calls : IsCall(calls'[d]) /\ StateOK(calls'[d].st)
<1>1. SavedOK(saved')
  BY PersistedOK DEF EpochInv, Reply
<1>2. IsCall(Idle) /\ StateOK(Idle.st)
  BY IdleOK
<1>3. calls' = [calls EXCEPT ![c] = Idle] /\ calls = [d \in Calls |-> calls[d]]
  BY DEF Reply, EpochInv
<1>4. calls' = [d \in Calls |-> calls'[d]] /\ \A d \in Calls : calls'[d] = IF d = c THEN Idle ELSE calls[d]
  BY <1>3
<1>5. \A d \in Calls : IsCall(calls[d]) /\ StateOK(calls[d].st)
  BY DEF EpochInv
<1>6. QED BY <1>1, <1>2, <1>4, <1>5

\* A failed call leaves no record.
LEMMA FailOK ==
  ASSUME EpochInv, NEW c \in Calls, Fail(c)
  PROVE  SavedOK(saved') /\ calls' = [d \in Calls |-> calls'[d]] /\ \A d \in Calls : IsCall(calls'[d]) /\ StateOK(calls'[d].st)
<1>2. IsCall(Idle) /\ StateOK(Idle.st)
  BY IdleOK
<1>3. calls' = [calls EXCEPT ![c] = Idle] /\ calls = [d \in Calls |-> calls[d]] /\ saved' = saved
  BY DEF Fail, EpochInv
<1>4. calls' = [d \in Calls |-> calls'[d]] /\ \A d \in Calls : calls'[d] = IF d = c THEN Idle ELSE calls[d]
  BY <1>3
<1>5. \A d \in Calls : IsCall(calls[d]) /\ StateOK(calls[d].st)
  BY DEF EpochInv
<1>6. QED BY <1>2, <1>3, <1>4, <1>5 DEF EpochInv

\* A call goes on with a state that is good.
LEMMA GoesOnOK ==
  ASSUME EpochInv, NEW c \in Calls, NEW call, IsCall(call), StateOK(call.st), calls' = [calls EXCEPT ![c] = call]
  PROVE  calls' = [d \in Calls |-> calls'[d]] /\ \A d \in Calls : IsCall(calls'[d]) /\ StateOK(calls'[d].st)
<1>1. calls = [d \in Calls |-> calls[d]]
  BY DEF EpochInv
<1>2. calls' = [d \in Calls |-> calls'[d]] /\ \A d \in Calls : calls'[d] = IF d = c THEN call ELSE calls[d]
  BY <1>1
<1>3. \A d \in Calls : IsCall(calls[d]) /\ StateOK(calls[d].st)
  BY DEF EpochInv
<1>4. QED BY <1>2, <1>3

\* A capture has one epoch, its own.
LEMMA CaptureOK ==
  ASSUME NEW st, NEW tree, NEW e \in Nat, NEW id, NEW x \in Captures(st, tree, e, id)
  PROVE  StateOK(x) /\ x.epoch = e /\ x.id = id
<1>1. PICK look : x = CaptureOf(st, look, e, id)
  BY DEF Captures
<1>2. PICK o, n : x = [id |-> id, outline |-> o, epoch |-> e, note |-> n, read |-> FALSE, by |-> "observe", epochs |-> {e}, since |-> e, at |-> changes]
  BY <1>1 DEF CaptureOf
<1>3. QED BY <1>2 DEF StateOK, IsState, SpanOK

\* The index begins with the span of its state.
LEMMA SeedOK == ASSUME NEW st, StateOK(st), SeedSemanticIndex(st) PROVE IsIndex(index') /\ SpanOK(index')
<1>1. PICK p : index' = [phase |-> p, outline |-> st.outline, epoch |-> st.epoch, epochs |-> st.epochs,
                         since |-> st.since, at |-> st.at, stale |-> FALSE]
  BY DEF SeedSemanticIndex
<1>2. QED BY <1>1 DEF IsIndex, StateOK, SpanOK

\* At the start nothing was read.
LEMMA EpochStart == ObservationInit => EpochInv
<1> SUFFICES ASSUME ObservationInit PROVE EpochInv
  OBVIOUS
<1>1. epoch = 0 /\ saved = <<>> /\ index = NoIndex /\ calls = [c \in Calls |-> Idle]
  BY DEF ObservationInit
<1>2. IsIndex(index) /\ SpanOK(index)
  <2>1. PICK o : index = [phase |-> "none", outline |-> o, epoch |-> 0, epochs |-> {}, since |-> 0, at |-> 0, stale |-> FALSE]
    BY <1>1, Zenon DEF NoIndex
  <2>2. QED BY <2>1 DEF IsIndex, SpanOK
<1>3. SavedOK(saved)
  <2>1. saved \in Seq({}) /\ \A st \in {} : StateOK(st)
    BY <1>1
  <2>2. QED BY <2>1 DEF SavedOK
<1>4. calls = [c \in Calls |-> calls[c]] /\ \A c \in Calls : calls[c] = Idle
  BY <1>1
<1>5. QED BY <1>1, <1>2, <1>3, <1>4, IdleOK DEF EpochInv

\* What the calls are left with.
CallsOK(all) == all = [c \in Calls |-> all[c]] /\ \A c \in Calls : IsCall(all[c]) /\ StateOK(all[c].st)

\* What is saved is good, and what a call takes up.
LEMMA SavedAreOK == ASSUME SavedOK(saved), NEW id \in SavedIds PROVE StateOK(Get(id))
<1>1. PICK S : saved \in Seq(S) /\ \A x \in S : StateOK(x)
  BY DEF SavedOK
<1>2. PICK i : i = CHOOSE j \in DOMAIN saved : saved[j].id = id
  OBVIOUS
<1>3. i \in DOMAIN saved
  BY <1>2 DEF SavedIds
<1>4. QED BY <1>1, <1>2, <1>3 DEF Get

\* One lemma for each step of a call: starting it,
LEMMA StepStart == ASSUME EpochInv, NEW c \in Calls, Start(c) PROVE EpochInv'
<1>1. PICK op, id, ref, query, st :
        /\ id \in SavedIds \cup {NoState}
        /\ st = IF id = NoState THEN Idle.st ELSE Get(id)
        /\ calls' = [calls EXCEPT ![c] = [phase |-> "run", op |-> op, ref |-> ref, query |-> query, st |-> st]]
  <2>1. PICK op \in Ops, id \in SavedIds \cup {NoState} :
          LET st == IF id = NoState THEN Idle.st ELSE Get(id) IN
            \E ref, query : calls' = [calls EXCEPT ![c] = [phase |-> "run", op |-> op, ref |-> ref, query |-> query, st |-> st]]
    BY DEF Start
  <2>2. PICK st : st = IF id = NoState THEN Idle.st ELSE Get(id)
    OBVIOUS
  <2>3. PICK ref, query : calls' = [calls EXCEPT ![c] = [phase |-> "run", op |-> op, ref |-> ref, query |-> query, st |-> st]]
    BY <2>1, <2>2
  <2>4. QED BY <2>1, <2>2, <2>3, Zenon
<1>2. StateOK(st)
  BY <1>1, IdleOK, SavedAreOK DEF EpochInv
<1>3. PICK call : call = [phase |-> "run", op |-> op, ref |-> ref, query |-> query, st |-> st]
  OBVIOUS
<1>4. IsCall(call) /\ call.st = st
  BY <1>3 DEF IsCall
<1>5. CallsOK(calls')
  BY <1>1, <1>2, <1>3, <1>4, GoesOnOK DEF CallsOK
<1>6. UNCHANGED <<epoch, index, saved>>
  BY DEF Start
<1>7. QED BY <1>5, <1>6 DEF EpochInv, CallsOK

\* observing,
LEMMA StepObserve == ASSUME EpochInv, NEW c \in Calls, ObserveUi(c) PROVE EpochInv'
<1>1. PICK st \in Captures(calls[c].st, ui, epoch, nextState) : SeedSemanticIndex(st) /\ Reply(c, st, Told(st, {}))
  BY DEF ObserveUi
<1>2. StateOK(st)
  BY CaptureOK DEF EpochInv
<1>3. SavedOK(saved') /\ CallsOK(calls')
  BY <1>1, <1>2, ReplyOK DEF CallsOK
<1>4. IsIndex(index') /\ SpanOK(index') /\ epoch' = epoch
  BY <1>1, <1>2, SeedOK DEF ObserveUi
<1>5. QED BY <1>3, <1>4 DEF EpochInv, CallsOK

\* expanding,
LEMMA StepExpand == ASSUME EpochInv, NEW c \in Calls, ExpandUi(c) PROVE EpochInv'
<1> DEFINE st == calls[c].st
<1>2. StateOK(st) /\ UNCHANGED <<epoch, index>>
  BY DEF EpochInv, ExpandUi
<1>3. \/ Fail(c)
      \/ \E told : Reply(c, st, told)
      \/ st.epoch = epoch /\ \E o, told : Reply(c, [st EXCEPT !.outline = o, !.epochs = @ \cup {epoch}], told)
  <2> DEFINE w == CHOOSE x \in Named(st.outline, calls[c].ref) : TRUE
             n == st.outline.nodes[w].next
  <2>1. \/ Fail(c) \/ Reply(c, st, Told(st, {w}))
        \/ /\ st.epoch = epoch
           /\ \E look \in BoundedLooks(ui, w, n) :
                \E o \in {GraftScopedOutline(st.outline, look, n > 0)} :
                  \E grown \in {[st EXCEPT !.outline = o, !.epochs = @ \cup {epoch}]} : Reply(c, grown, Told(grown, {w}))
    BY Zenon DEF ExpandUi
  <2> HIDE DEF st, w, n
  <2>2. ASSUME NEW look, NEW o, NEW grown, grown \in {[st EXCEPT !.outline = o, !.epochs = @ \cup {epoch}]},
               st.epoch = epoch, Reply(c, grown, Told(grown, {w}))
        PROVE  st.epoch = epoch /\ \E p, told : Reply(c, [st EXCEPT !.outline = p, !.epochs = @ \cup {epoch}], told)
    <3>1. PICK told : told = Told(grown, {w})
      OBVIOUS
    <3>2. Reply(c, [st EXCEPT !.outline = o, !.epochs = @ \cup {epoch}], told)
      BY <2>2, <3>1
    <3>3. QED BY <2>2, <3>2
  <2>3. QED BY <2>1, <2>2
<1> HIDE DEF st
<1>4. ASSUME st.epoch = epoch, NEW o PROVE StateOK([st EXCEPT !.outline = o, !.epochs = @ \cup {epoch}])
  <2>1. PICK x : x = [st EXCEPT !.outline = o, !.epochs = st.epochs \cup {epoch}]
    OBVIOUS
  <2>2. IsState(x) /\ x.epochs = st.epochs \cup {epoch} /\ x.since = st.since /\ x.epoch = st.epoch
    BY <1>2, <2>1 DEF StateOK, IsState
  <2>3. SpanOK(x)
    BY <1>2, <1>4, <2>2 DEF StateOK, SpanOK
  <2>4. QED BY <2>1, <2>2, <2>3 DEF StateOK
<1>5. SavedOK(saved') /\ CallsOK(calls')
  BY <1>2, <1>3, <1>4, ReplyOK, FailOK DEF CallsOK
<1>6. QED BY <1>2, <1>5 DEF EpochInv, CallsOK

\* searching,
LEMMA StepSearch == ASSUME EpochInv, NEW c \in Calls, SearchUi(c) \/ SearchWaits(c) PROVE EpochInv'
<1>1. UNCHANGED <<epoch, index, saved>> /\ \E phase : calls' = [calls EXCEPT ![c].phase = phase]
  BY DEF SearchUi, SearchWaits
<1>2. PICK phase : calls' = [calls EXCEPT ![c].phase = phase]
  BY <1>1
<1>3. PICK old, call : old = calls[c] /\ call = [old EXCEPT !.phase = phase]
  OBVIOUS
<1>4. IsCall(old) /\ StateOK(old.st) /\ calls' = [calls EXCEPT ![c] = call]
  BY <1>2, <1>3 DEF EpochInv
<1>5. IsCall(call) /\ call.st = old.st
  BY <1>3, <1>4 DEF IsCall
<1>6. CallsOK(calls')
  BY <1>4, <1>5, GoesOnOK DEF CallsOK
<1>7. QED BY <1>1, <1>6 DEF EpochInv, CallsOK

\* taking over the outline of the index,
LEMMA StepAdopt == ASSUME EpochInv, NEW c \in Calls, SearchAdopts(c) PROVE EpochInv'
<1>1. PICK st : st = calls[c].st
  OBVIOUS
<1>2. IsCall(calls[c]) /\ StateOK(st) /\ SpanOK(index) /\ UNCHANGED <<epoch, index>>
  BY <1>1 DEF EpochInv, SearchAdopts
<1>3. PICK adopted, n : adopted = [st EXCEPT !.id = nextState, !.outline = index.outline, !.by = "index",
                                            !.epochs = index.epochs, !.since = index.since, !.at = index.at, !.note = n]
                        /\ n = NoteFromLook(st.note, index.outline)
  OBVIOUS
<1>4. /\ IsState(adopted) /\ adopted.epochs = index.epochs /\ adopted.since = index.since /\ adopted.epoch = st.epoch
  BY <1>2, <1>3 DEF StateOK, IsState
<1>5. \/ calls' = [calls EXCEPT ![c].phase = "found", ![c].st = st] /\ saved' = saved
      \/ /\ calls' = [calls EXCEPT ![c].phase = "found", ![c].st = adopted] /\ saved' = Persisted(adopted)
         /\ index.epoch = st.epoch
  <2>1. adopted = [st EXCEPT !.id = nextState, !.outline = index.outline, !.by = "index",
                            !.epochs = index.epochs, !.since = index.since, !.at = index.at, !.note = NoteFromLook(@, index.outline)]
    BY <1>3
  <2>2. QED BY <1>1, <2>1 DEF SearchAdopts, IndexFor
<1>6. PICK next : next \in {st, adopted} /\ calls' = [calls EXCEPT ![c].phase = "found", ![c].st = next]
                  /\ (saved' = saved \/ saved' = Persisted(next)) /\ (next = adopted => next = st \/ index.epoch = st.epoch)
  BY <1>5
<1>7. StateOK(next)
  BY <1>2, <1>4, <1>6 DEF StateOK, SpanOK
<1>8. SavedOK(saved')
  BY <1>6, <1>7, PersistedOK DEF EpochInv
<1>9. CallsOK(calls')
  <2>1. PICK old, call : old = calls[c] /\ call = [old EXCEPT !.phase = "found", !.st = next]
    OBVIOUS
  <2>2. calls' = [calls EXCEPT ![c] = call]
    BY <1>6, <2>1
  <2>3. IsCall(call) /\ call.st = next
    BY <1>2, <2>1 DEF IsCall
  <2>4. QED BY <1>7, <2>2, <2>3, GoesOnOK DEF CallsOK
<1>10. QED BY <1>2, <1>8, <1>9 DEF EpochInv, CallsOK

\* searching by a look of its own,
LEMMA StepReads == ASSUME EpochInv, NEW c \in Calls, SearchReads(c) PROVE EpochInv'
<1>1. PICK st : st = calls[c].st
  OBVIOUS
<1>2. StateOK(st) /\ UNCHANGED <<epoch, index>>
  BY <1>1 DEF EpochInv, SearchReads
<1>3. \/ Fail(c)
      \/ \E told : Reply(c, st, told)
      \/ \E seen \in Captures(st, ui, epoch, nextState) : \E told : Reply(c, [seen EXCEPT !.read = TRUE], told)
  BY <1>1 DEF SearchReads
<1>4. ASSUME NEW seen \in Captures(st, ui, epoch, nextState) PROVE StateOK([seen EXCEPT !.read = TRUE])
  <2>1. PICK x : x = [seen EXCEPT !.read = TRUE]
    OBVIOUS
  <2>2. StateOK(seen)
    BY CaptureOK DEF EpochInv
  <2>3. IsState(x) /\ x.epochs = seen.epochs /\ x.since = seen.since /\ x.epoch = seen.epoch
    BY <2>1, <2>2 DEF StateOK, IsState
  <2>4. QED BY <2>1, <2>2, <2>3 DEF StateOK, SpanOK
<1>5. SavedOK(saved') /\ CallsOK(calls')
  BY <1>2, <1>3, <1>4, ReplyOK, FailOK DEF CallsOK
<1>6. QED BY <1>2, <1>5 DEF EpochInv, CallsOK

\* and recovering an action whose state is stale.
LEMMA StepRecover == ASSUME EpochInv, NEW c \in Calls, RecoverAct(c) PROVE EpochInv'
<1>1. PICK fresh \in Captures(calls[c].st, ui, epoch, nextState) :
        /\ SeedSemanticIndex(fresh)
        /\ \/ (\E ref : calls' = [calls EXCEPT ![c].phase = "again", ![c].st = fresh, ![c].ref = ref]) /\ UNCHANGED saved
           \/ Fail(c)
  BY DEF RecoverAct
<1>2. StateOK(fresh) /\ IsCall(calls[c]) /\ epoch' = epoch
  BY CaptureOK DEF EpochInv, RecoverAct
<1>3. IsIndex(index') /\ SpanOK(index')
  BY <1>1, <1>2, SeedOK
<1>4. ASSUME NEW ref, calls' = [calls EXCEPT ![c].phase = "again", ![c].st = fresh, ![c].ref = ref] PROVE CallsOK(calls')
  <2>1. PICK old, call : old = calls[c] /\ call = [old EXCEPT !.phase = "again", !.st = fresh, !.ref = ref]
    OBVIOUS
  <2>2. calls' = [calls EXCEPT ![c] = call]
    BY <1>4, <2>1
  <2>3. IsCall(call) /\ call.st = fresh
    BY <1>2, <2>1 DEF IsCall
  <2>4. QED BY <1>2, <2>2, <2>3, GoesOnOK DEF CallsOK
<1>5. SavedOK(saved') /\ CallsOK(calls')
  BY <1>1, <1>4, FailOK DEF CallsOK, EpochInv
<1>6. QED BY <1>2, <1>3, <1>5 DEF EpochInv, CallsOK

\* The successor of an act begins at the epoch the act has made, or keeps what
\* was read before at the epoch it was made at.
LEMMA StepAct == ASSUME EpochInv, NEW c \in Calls, ActUi(c) PROVE EpochInv'
<1>1. PICK st : st = calls[c].st
  OBVIOUS
<1>2. StateOK(st) /\ epoch \in Nat /\ epoch + 1 \in Nat
  BY <1>1 DEF EpochInv
<1>3. CASE Fail(c) /\ UNCHANGED <<ui, epoch, nextState, index>>
  <2>1. SavedOK(saved') /\ CallsOK(calls')
    BY <1>3, FailOK DEF CallsOK
  <2>2. QED BY <1>3, <2>1 DEF EpochInv, CallsOK
<1>4. ASSUME NEW w, NEW tree, NEW ref, ~Stale(st, w), epoch' = epoch + 1,
             NEW seen \in Captures(st, tree, epoch + 1, nextState) \cup Edits(st, w, epoch + 1, nextState),
             SeedSemanticIndex(Acted(seen, ref)), NEW told, Reply(c, Acted(seen, ref), told)
      PROVE  EpochInv'
  <2>1. StateOK(seen)
    <3>1. CASE seen \in Captures(st, tree, epoch + 1, nextState)
      BY <1>2, <3>1, CaptureOK
    <3>2. CASE seen \in Edits(st, w, epoch + 1, nextState)
      <4>1. PICK o, n, id : seen = [st EXCEPT !.id = id, !.outline = o, !.epoch = epoch + 1, !.by = "edit",
                                             !.note = n, !.epochs = st.epochs \cup {epoch + 1}]
        BY <3>2 DEF Edits, EditOf
      <4>2. IsState(seen) /\ seen.epoch = epoch + 1 /\ seen.since = st.since /\ seen.epochs = st.epochs \cup {epoch + 1}
        BY <1>2, <4>1 DEF StateOK, IsState
      <4>3. st.epoch = epoch
        BY <1>4 DEF Stale
      <4>4. SpanOK(seen)
        BY <1>2, <4>2, <4>3 DEF StateOK, SpanOK
      <4>5. QED BY <4>2, <4>4 DEF StateOK
    <3>3. QED BY <1>4, <3>1, <3>2
  <2>2. StateOK(Acted(seen, ref))
    <3>1. PICK n : Acted(seen, ref) = [seen EXCEPT !.note = n]
      BY DEF Acted
    <3>2. PICK x : x = [seen EXCEPT !.note = n]
      OBVIOUS
    <3>3. IsState(x) /\ x.epochs = seen.epochs /\ x.since = seen.since /\ x.epoch = seen.epoch
      BY <2>1, <3>2 DEF StateOK, IsState
    <3>4. QED BY <2>1, <3>1, <3>2, <3>3 DEF StateOK, SpanOK
  <2>3. IsIndex(index') /\ SpanOK(index')
    BY <1>4, <2>2, SeedOK
  <2>4. SavedOK(saved') /\ CallsOK(calls')
    BY <1>4, <2>2, ReplyOK DEF CallsOK
  <2>5. QED BY <1>2, <1>4, <2>3, <2>4 DEF EpochInv, CallsOK
<1>5. CASE \E w : /\ ~Stale(st, w) /\ epoch' = epoch + 1
                  /\ \E tree : \E seen \in IF calls[c].op = "press" THEN Captures(st, tree, epoch + 1, nextState)
                                            ELSE Edits(st, w, epoch + 1, nextState) :
                       \E next \in {Acted(seen, calls[c].ref)} : SeedSemanticIndex(next) /\ Reply(c, next, ToldChanges(st, next))
  <2>1. PICK w : /\ ~Stale(st, w) /\ epoch' = epoch + 1
                 /\ \E tree : \E seen \in IF calls[c].op = "press" THEN Captures(st, tree, epoch + 1, nextState)
                                           ELSE Edits(st, w, epoch + 1, nextState) :
                      \E next \in {Acted(seen, calls[c].ref)} : SeedSemanticIndex(next) /\ Reply(c, next, ToldChanges(st, next))
    BY <1>5
  <2>2. PICK tree : \E seen \in IF calls[c].op = "press" THEN Captures(st, tree, epoch + 1, nextState)
                                ELSE Edits(st, w, epoch + 1, nextState) :
                      \E next \in {Acted(seen, calls[c].ref)} : SeedSemanticIndex(next) /\ Reply(c, next, ToldChanges(st, next))
    BY <2>1
  <2>3. PICK seen \in Captures(st, tree, epoch + 1, nextState) \cup Edits(st, w, epoch + 1, nextState) :
          SeedSemanticIndex(Acted(seen, calls[c].ref)) /\ Reply(c, Acted(seen, calls[c].ref), ToldChanges(st, Acted(seen, calls[c].ref)))
    BY <2>2
  <2>4. QED BY <1>4, <2>1, <2>3
<1>6. QED BY <1>1, <1>3, <1>5, Zenon DEF ActUi

\* A slice of the crawl, or its end.
LEMMA StepCrawl == ASSUME EpochInv, CrawlSlice \/ CrawlEnd PROVE EpochInv'
<1>1. UNCHANGED <<epoch, saved, calls>> /\ epoch \in Nat /\ IsIndex(index) /\ SpanOK(index)
  BY DEF CrawlSlice, CrawlEnd, EpochInv
<1>2. IsIndex(index') /\ SpanOK(index')
  <2>1. \/ \E p : index' = [index EXCEPT !.phase = p]
        \/ \E o : index' = [index EXCEPT !.outline = o, !.stale = TRUE]
        \/ index.epoch = epoch /\ \E o, p : index' = [index EXCEPT !.outline = o, !.epochs = index.epochs \cup {epoch}, !.phase = p]
    <3>1. CASE CrawlEnd
      BY <3>1 DEF CrawlEnd
    <3>2. CASE CrawlSlice
      <4>1. PICK w : \/ \E o, p : index' = [index EXCEPT !.outline = o, !.epochs = index.epochs \cup {epoch}, !.phase = p]
                     \/ index' = [index EXCEPT !.outline.nodes[w].trunc = FALSE, !.outline.nodes[w].next = 0, !.stale = TRUE]
        BY <3>2 DEF CrawlSlice
      <4>2. index.epoch = epoch
        BY <3>2 DEF CrawlSlice
      <4>3. QED BY <4>1, <4>2
    <3>3. QED BY <3>1, <3>2
  <2>2. ASSUME NEW p, index' = [index EXCEPT !.phase = p] PROVE IsIndex(index') /\ SpanOK(index')
    <3>1. PICK x : x = [index EXCEPT !.phase = p]
      OBVIOUS
    <3>2. IsIndex(x) /\ x.epochs = index.epochs /\ x.since = index.since /\ x.epoch = index.epoch
      BY <1>1, <3>1 DEF IsIndex
    <3>3. QED BY <1>1, <2>2, <3>1, <3>2 DEF SpanOK
  <2>3. ASSUME NEW o, index' = [index EXCEPT !.outline = o, !.stale = TRUE] PROVE IsIndex(index') /\ SpanOK(index')
    <3>1. PICK x : x = [index EXCEPT !.outline = o, !.stale = TRUE]
      OBVIOUS
    <3>2. IsIndex(x) /\ x.epochs = index.epochs /\ x.since = index.since /\ x.epoch = index.epoch
      BY <1>1, <3>1 DEF IsIndex
    <3>3. QED BY <1>1, <2>3, <3>1, <3>2 DEF SpanOK
  <2>4. ASSUME index.epoch = epoch, NEW o, NEW p,
               index' = [index EXCEPT !.outline = o, !.epochs = index.epochs \cup {epoch}, !.phase = p]
        PROVE  IsIndex(index') /\ SpanOK(index')
    <3>1. PICK x : x = [index EXCEPT !.outline = o, !.epochs = index.epochs \cup {epoch}, !.phase = p]
      OBVIOUS
    <3>2. IsIndex(x) /\ x.epochs = index.epochs \cup {epoch} /\ x.since = index.since /\ x.epoch = index.epoch
      BY <1>1, <3>1 DEF IsIndex
    <3>3. QED BY <1>1, <2>4, <3>1, <3>2 DEF SpanOK
  <2>5. QED BY <2>1, <2>2, <2>3, <2>4
<1>3. QED BY <1>1, <1>2 DEF EpochInv

\* Every step keeps EpochInv.
LEMMA EpochStep == EpochInv /\ [ObservationNext]_oVars => EpochInv'
<1> SUFFICES ASSUME EpochInv, [ObservationNext]_oVars PROVE EpochInv'
  OBVIOUS
<1>1. CASE UserChange \/ Rest \/ UNCHANGED oVars
  BY <1>1 DEF UserChange, Rest, oVars, EpochInv
<1>2. CASE CrawlSlice \/ CrawlEnd
  BY <1>2, StepCrawl
<1>3. ASSUME NEW c \in Calls, Start(c) \/ CallStep(c) PROVE EpochInv'
  <2>1. CASE InspectUi(c)
    <3>1. StateOK(calls[c].st) /\ Reply(c, calls[c].st, {}) /\ UNCHANGED <<epoch, index>>
      BY <2>1 DEF EpochInv, InspectUi
    <3>2. SavedOK(saved') /\ CallsOK(calls')
      BY <3>1, ReplyOK DEF CallsOK
    <3>3. QED BY <3>1, <3>2 DEF EpochInv, CallsOK
  <2>2. QED BY <1>3, <2>1, StepStart, StepObserve, StepExpand, StepSearch, StepAdopt, StepReads, StepRecover, StepAct DEF CallStep
<1>4. QED BY <1>1, <1>2, <1>3 DEF ObservationNext

\* A state holds what was read since the look it stems from and up to its own
\* epoch (persistOperation, crawlSemanticIndex, captureEditedTargets).
THEOREM EpochsDoNotMix == ObservationSafety => []OneEpochPerState
<1>1. EpochInv => OneEpochPerState
  BY DEF EpochInv, SavedOK, StateOK, SpanOK, OneEpochPerState
<1>2. QED BY <1>1, EpochStart, EpochStep, PTL DEF ObservationSafety

--------------------------------------------------------------------------------
(* Numbers, finite sets and sequences.                                       *)

\* Induction, as a fact about a set of numbers.
LEMMA SetInduction ==
  ASSUME NEW S, 0 \in S, \A n \in Nat : n \in S => n + 1 \in S
  PROVE  \A n \in Nat : n \in S
<1> DEFINE T == {n \in Nat : n \notin S}
<1> SUFFICES ASSUME T # {} PROVE FALSE
  OBVIOUS
<1>1. PICK m \in T : \A k \in T : ~(k < m)
  <2> HIDE DEF T
  <2>1. T \subseteq Nat
    BY DEF T
  <2>2. PICK m \in T : \A k \in T : ~(<<k, m>> \in OpToRel(<, Nat))
    BY <2>1, WFMin, NatLessThanWellFounded, Zenon
  <2>3. \A k \in T : k < m => <<k, m>> \in OpToRel(<, Nat)
    BY <2>1 DEF OpToRel
  <2> QED
    BY <2>2, <2>3
<1>2. m \in Nat /\ m # 0 /\ m - 1 \in Nat /\ m - 1 < m
  OBVIOUS
<1>3. m - 1 \notin T
  <2> HIDE DEF T
  <2> QED
    BY <1>1, <1>2
<1>4. (m - 1) + 1 \in S
  BY <1>2, <1>3
<1> QED
  BY <1>2, <1>4

\* A finite set of numbers that is not empty has a greatest one: Max.
LEMMA MaxOfFinite ==
  ASSUME NEW S, IsFiniteSet(S), S # {}, S \subseteq Int
  PROVE  Max(S) \in S /\ \A x \in S : x <= Max(S)
<1> DEFINE n == Cardinality(S)
<1>0. n \in Nat
  BY FS_CardinalityType
<1>1. PICK f : f \in Bijection(1 .. n, S)
  BY FS_CardinalityType DEF ExistsBijection
<1> HIDE DEF n
<1>2. \A x \in S : \E j \in 1 .. n : f[j] = x
  BY <1>1 DEF Bijection, Surjection
<1>3. \A j \in 1 .. n : f[j] \in S
  BY <1>1 DEF Bijection, Injection
<1> DEFINE P == {k \in Nat : (k >= 1 /\ k <= n) => \E m \in 1 .. k : \A j \in 1 .. k : f[j] <= f[m]}
<1>4. 0 \in P
  OBVIOUS
<1>5. ASSUME NEW k \in Nat, k \in P PROVE k + 1 \in P
  <2> SUFFICES ASSUME k + 1 <= n PROVE \E m \in 1 .. k + 1 : \A j \in 1 .. k + 1 : f[j] <= f[m]
    OBVIOUS
  <2>1. \A j \in 1 .. k + 1 : f[j] \in Int
    <3>1. \A j \in 1 .. k + 1 : j \in 1 .. n
      BY <1>0
    <3> QED BY <1>3, <3>1
  <2>2. CASE k = 0
    BY <2>1, <2>2
  <2>3. CASE k # 0
    <3>1. PICK m \in 1 .. k : \A j \in 1 .. k : f[j] <= f[m]
      BY <1>0, <1>5, <2>3
    <3>2. f[m] \in Int /\ f[k + 1] \in Int
      BY <2>1
    <3>3. CASE f[k + 1] <= f[m]
      <4>1. \A j \in 1 .. k + 1 : f[j] <= f[m]
        BY <3>1, <3>3
      <4> QED BY <4>1
    <3>4. CASE f[m] < f[k + 1]
      <4>1. \A j \in 1 .. k + 1 : f[j] <= f[k + 1]
        BY <2>1, <3>1, <3>2, <3>4
      <4> QED BY <4>1
    <3> QED BY <3>2, <3>3, <3>4
  <2> QED BY <2>2, <2>3
<1>6. n \in P
  <2> HIDE DEF P
  <2> QED BY <1>0, <1>4, <1>5, SetInduction
<1>7. n >= 1
  <2>1. PICK x \in S : TRUE
    OBVIOUS
  <2>2. PICK j \in 1 .. n : f[j] = x
    BY <1>2
  <2> QED BY <1>0, <2>2
<1>8. PICK m \in 1 .. n : \A j \in 1 .. n : f[j] <= f[m]
  BY <1>0, <1>6, <1>7
<1>9. f[m] \in S /\ \A x \in S : f[m] >= x
  BY <1>2, <1>3, <1>8
<1>10. Max(S) \in S /\ \A y \in S : Max(S) >= y
  BY <1>9 DEF Max
<1> QED BY <1>10

\* A set that takes in what belongs to its members, round after round, is
\* closed after as many rounds as there are things.
LEMMA RoundsClose ==
  ASSUME NEW W, IsFiniteSet(W), NEW K, \A x \in W : K[x] \subseteq W,
         NEW S, NEW r, r \in S[0], \A n \in 0 .. Cardinality(W) : S[n] \subseteq W,
         \A n \in 1 .. Cardinality(W) : \A y : y \in S[n] <=> (y \in S[n - 1] \/ \E x \in S[n - 1] : y \in K[x])
  PROVE  r \in S[Cardinality(W)] /\ \A x \in S[Cardinality(W)] : K[x] \subseteq S[Cardinality(W)]
<1>1. PICK N \in Nat : N = Cardinality(W)
  BY FS_CardinalityType
<1> DEFINE Closed(n) == \A x \in S[n] : K[x] \subseteq S[n]
           P == {n \in Nat : n <= N => r \in S[n] /\ (Closed(n) \/ Cardinality(S[n]) >= n + 1)}
<1>2. \A n \in 0 .. N : IsFiniteSet(S[n]) /\ Cardinality(S[n]) \in Nat /\ Cardinality(S[n]) <= N
  BY <1>1, FS_Subset, FS_CardinalityType
<1>3. 0 \in P
  <2>1. IsFiniteSet(S[0]) /\ Cardinality(S[0]) \in Nat /\ S[0] # {}
    BY <1>1, <1>2
  <2>2. Cardinality(S[0]) # 0
    BY <2>1, FS_EmptySet
  <2> QED BY <2>1, <2>2
<1>4. ASSUME NEW n \in Nat, n \in P PROVE n + 1 \in P
  <2> SUFFICES ASSUME n + 1 <= N PROVE r \in S[n + 1] /\ (Closed(n + 1) \/ Cardinality(S[n + 1]) >= n + 2)
    OBVIOUS
  <2>1. r \in S[n] /\ (Closed(n) \/ Cardinality(S[n]) >= n + 1) /\ n \in 0 .. N /\ n + 1 \in 1 .. N /\ (n + 1) - 1 = n
    BY <1>1, <1>4
  <2>2. \A y : y \in S[n + 1] <=> (y \in S[n] \/ \E x \in S[n] : y \in K[x])
    BY <1>1, <2>1
  <2>3. CASE Closed(n)
    <3>1. S[n + 1] = S[n]
      BY <2>2, <2>3
    <3> QED BY <2>1, <2>3, <3>1
  <2>4. CASE ~Closed(n)
    <3>1. S[n] \subseteq S[n + 1] /\ S[n] # S[n + 1]
      BY <2>2, <2>4
    <3>2. /\ IsFiniteSet(S[n + 1]) /\ Cardinality(S[n]) \in Nat /\ Cardinality(S[n + 1]) \in Nat
      BY <1>1, <1>2, <2>1
    <3>3. Cardinality(S[n]) <= Cardinality(S[n + 1]) /\ Cardinality(S[n]) # Cardinality(S[n + 1])
      BY <3>1, <3>2, FS_Subset
    <3>4. Cardinality(S[n]) >= n + 1
      BY <2>1, <2>4
    <3>5. Cardinality(S[n + 1]) >= n + 2
      <4> HIDE DEF Closed
      <4> QED BY <3>2, <3>3, <3>4
    <3> QED BY <2>1, <3>1, <3>5
  <2> QED BY <2>3, <2>4
<1>5. N \in P
  <2> HIDE DEF P
  <2> QED BY <1>1, <1>3, <1>4, SetInduction
<1>6. r \in S[N] /\ (Closed(N) \/ Cardinality(S[N]) >= N + 1)
  BY <1>1, <1>5
<1>7. Cardinality(S[N]) \in Nat /\ Cardinality(S[N]) <= N
  BY <1>1, <1>2
<1>8. Closed(N)
  <2> HIDE DEF Closed
  <2> QED BY <1>1, <1>6, <1>7
<1> QED BY <1>1, <1>6, <1>8

\* Table only makes TLC store a function; it is the function.
LEMMA TableIs == ASSUME NEW f PROVE Table(f) = f
BY DEF Table

\* The elements of a sequence.
LEMMA ToSetIs == ASSUME NEW s PROVE \A x : x \in ToSet(s) <=> \E i \in DOMAIN s : s[i] = x
BY DEF ToSet

\* The elements of two sequences put together.
LEMMA JoinedToSet ==
  ASSUME NEW X, NEW s \in Seq(X), NEW t \in Seq(X)
  PROVE  s \o t \in Seq(X) /\ \A x : x \in ToSet(s \o t) <=> x \in ToSet(s) \/ x \in ToSet(t)
<1>1. s \o t \in Seq(X) /\ Len(s) \in Nat /\ Len(t) \in Nat /\ Len(s \o t) = Len(s) + Len(t)
  OBVIOUS
<1>2. \A i \in 1 .. Len(s) + Len(t) : (s \o t)[i] = IF i <= Len(s) THEN s[i] ELSE t[i - Len(s)]
  OBVIOUS
<1>3. DOMAIN s = 1 .. Len(s) /\ DOMAIN t = 1 .. Len(t) /\ DOMAIN (s \o t) = 1 .. Len(s) + Len(t)
  OBVIOUS
<1>4. \A i \in DOMAIN s : i \in DOMAIN (s \o t) /\ (s \o t)[i] = s[i]
  BY <1>1, <1>2, <1>3
<1>5. \A i \in DOMAIN t : i + Len(s) \in DOMAIN (s \o t) /\ (s \o t)[i + Len(s)] = t[i]
  BY <1>1, <1>2, <1>3
<1>6. \A i \in DOMAIN (s \o t) : (s \o t)[i] \in ToSet(s) \/ (s \o t)[i] \in ToSet(t)
  <2> SUFFICES ASSUME NEW i \in DOMAIN (s \o t) PROVE (s \o t)[i] \in ToSet(s) \/ (s \o t)[i] \in ToSet(t)
    OBVIOUS
  <2>1. CASE i <= Len(s)
    BY <1>2, <1>3, <2>1, ToSetIs
  <2>2. CASE i > Len(s)
    <3>1. i - Len(s) \in DOMAIN t /\ (s \o t)[i] = t[i - Len(s)]
      BY <1>1, <1>2, <1>3, <2>2
    <3> QED BY <3>1, ToSetIs
  <2> QED BY <1>1, <1>3, <2>1, <2>2
<1>7. \A x : x \in ToSet(s \o t) => x \in ToSet(s) \/ x \in ToSet(t)
  BY <1>6, ToSetIs
<1>8. \A x : x \in ToSet(s) => x \in ToSet(s \o t)
  <2> SUFFICES ASSUME NEW x, x \in ToSet(s) PROVE x \in ToSet(s \o t)
    OBVIOUS
  <2>1. PICK i \in DOMAIN s : s[i] = x
    BY ToSetIs
  <2> QED BY <1>4, <2>1, ToSetIs
<1>9. \A x : x \in ToSet(t) => x \in ToSet(s \o t)
  <2> SUFFICES ASSUME NEW x, x \in ToSet(t) PROVE x \in ToSet(s \o t)
    OBVIOUS
  <2>1. PICK i \in DOMAIN t : t[i] = x
    BY ToSetIs
  <2> QED BY <1>5, <2>1, ToSetIs
<1> QED BY <1>1, <1>7, <1>8, <1>9

\* Two sequences put together, place by place.
LEMMA JoinedAt ==
  ASSUME NEW X, NEW s \in Seq(X), NEW t \in Seq(X), NEW m \in Nat, m = Len(s), NEW n \in Nat, n = Len(t)
  PROVE  /\ s \o t \in Seq(X) /\ DOMAIN (s \o t) = 1 .. m + n
         /\ \A i \in 1 .. m + n : (s \o t)[i] = IF i <= m THEN s[i] ELSE t[i - m]
OBVIOUS

\* The recursive definition of FlattenSeq has a solution.
FlatUpTo(f, seqs, n) == f = [i \in 1 .. n |-> IF i = 1 THEN seqs[i] ELSE f[i - 1] \o seqs[i]]

LEMMA FlatExists == ASSUME NEW seqs, NEW n \in Nat PROVE \E f : FlatUpTo(f, seqs, n)
<1> DEFINE S == {m \in Nat : \E f : FlatUpTo(f, seqs, m)}
<1>1. 0 \in S
  <2> DEFINE f == [i \in 1 .. 0 |-> 0]
  <2>1. FlatUpTo(f, seqs, 0)
    BY DEF FlatUpTo
  <2> QED BY <2>1
<1>2. ASSUME NEW m \in Nat, m \in S PROVE m + 1 \in S
  <2>1. PICK f : FlatUpTo(f, seqs, m)
    BY <1>2
  <2> DEFINE v == IF m = 0 THEN seqs[m + 1] ELSE f[m] \o seqs[m + 1]
             g == [i \in 1 .. m + 1 |-> IF i = m + 1 THEN v ELSE f[i]]
  <2>2. \A i \in 1 .. m : f[i] = IF i = 1 THEN seqs[i] ELSE f[i - 1] \o seqs[i]
    BY <2>1, Zenon DEF FlatUpTo
  <2>3. ASSUME NEW i \in 1 .. m + 1 PROVE g[i] = IF i = 1 THEN seqs[i] ELSE g[i - 1] \o seqs[i]
    <3>1. CASE i = m + 1
      <4>1. g[i] = v /\ (i = 1 <=> m = 0) /\ (i # 1 => g[i - 1] = f[m])
        BY <3>1
      <4> HIDE DEF g
      <4> QED BY <3>1, <4>1
    <3>2. CASE i # m + 1
      <4>1. i \in 1 .. m /\ g[i] = f[i] /\ (i # 1 => g[i - 1] = f[i - 1])
        BY <3>2
      <4> HIDE DEF g
      <4> QED BY <2>2, <4>1
    <3> QED BY <3>1, <3>2
  <2>4. g = [i \in 1 .. m + 1 |-> IF i = 1 THEN seqs[i] ELSE g[i - 1] \o seqs[i]]
    <3>1. g = [i \in 1 .. m + 1 |-> g[i]]
      OBVIOUS
    <3> HIDE DEF g
    <3> QED BY <2>3, <3>1
  <2>5. FlatUpTo(g, seqs, m + 1)
    BY <2>4, Zenon DEF FlatUpTo
  <2> HIDE DEF g
  <2> QED BY <2>5
<1>3. n \in S
  <2> HIDE DEF S
  <2> QED BY <1>1, <1>2, SetInduction
<1> QED BY <1>3

\* What is in a sequence of sequences, one after another.
LEMMA FlattenIs ==
  ASSUME NEW X, NEW seqs \in Seq(Seq(X))
  PROVE  FlattenSeq(seqs) \in Seq(X) /\ \A x : x \in ToSet(FlattenSeq(seqs)) <=> \E i \in DOMAIN seqs : x \in ToSet(seqs[i])
<1>1. PICK N \in Nat : N = Len(seqs) /\ DOMAIN seqs = 1 .. N /\ \A i \in 1 .. N : seqs[i] \in Seq(X)
  OBVIOUS
<1>2. CASE N = 0
  <2>1. FlattenSeq(seqs) = seqs /\ seqs = <<>>
    BY <1>1, <1>2 DEF FlattenSeq
  <2> QED BY <1>1, <1>2, <2>1, ToSetIs
<1>3. CASE N > 0
  <2> DEFINE flat == CHOOSE f : FlatUpTo(f, seqs, N)
  <2>1. FlatUpTo(flat, seqs, N)
    BY <1>1, FlatExists
  <2>2. FlattenSeq(seqs) = flat[N]
    BY <1>1, <1>3 DEF FlattenSeq, FlatUpTo
  <2> HIDE DEF flat
  <2>3. \A i \in 1 .. N : flat[i] = IF i = 1 THEN seqs[i] ELSE flat[i - 1] \o seqs[i]
    BY <2>1, Zenon DEF FlatUpTo
  <2> DEFINE Good(k) == flat[k] \in Seq(X) /\ \A x : x \in ToSet(flat[k]) <=> \E i \in 1 .. k : x \in ToSet(seqs[i])
             S == {k \in Nat : (k >= 1 /\ k <= N) => Good(k)}
  <2>4. 0 \in S
    OBVIOUS
  <2>5. ASSUME NEW k \in Nat, k \in S PROVE k + 1 \in S
    <3> SUFFICES ASSUME k + 1 <= N PROVE Good(k + 1)
      OBVIOUS
    <3>1. seqs[k + 1] \in Seq(X) /\ k + 1 \in 1 .. N
      BY <1>1
    <3>2. CASE k = 0
      <4>1. flat[k + 1] = seqs[k + 1] /\ \A i \in 1 .. k + 1 : i = k + 1
        BY <2>3, <3>1, <3>2
      <4>2. k + 1 \in 1 .. k + 1
        OBVIOUS
      <4> QED BY <3>1, <4>1, <4>2
    <3>3. CASE k # 0
      <4>1. flat[k + 1] = flat[k] \o seqs[k + 1] /\ Good(k)
        <5>1. (k + 1) - 1 = k /\ k + 1 # 1 /\ k >= 1 /\ k <= N
          BY <3>3
        <5>2. Good(k)
          BY <2>5, <5>1
        <5>3. flat[k + 1] = flat[(k + 1) - 1] \o seqs[k + 1]
          BY <2>3, <3>1, <5>1
        <5> HIDE DEF Good
        <5> QED BY <5>1, <5>2, <5>3
      <4>2. flat[k + 1] \in Seq(X) /\ \A x : x \in ToSet(flat[k + 1]) <=> x \in ToSet(flat[k]) \/ x \in ToSet(seqs[k + 1])
        BY <3>1, <4>1, JoinedToSet
      <4>3. \A i \in 1 .. k + 1 : i \in 1 .. k \/ i = k + 1
        OBVIOUS
      <4>4. k + 1 \in 1 .. k + 1 /\ \A i \in 1 .. k : i \in 1 .. k + 1
        OBVIOUS
      <4> QED BY <4>1, <4>2, <4>3, <4>4
    <3> QED BY <3>2, <3>3
  <2>6. N \in S
    <3> HIDE DEF S
    <3> QED BY <1>1, <2>4, <2>5, SetInduction
  <2>7. Good(N)
    BY <1>1, <1>3, <2>6
  <2> QED BY <1>1, <2>2, <2>7
<1> QED BY <1>1, <1>2, <1>3

\* A sequence without what is not in S.
LEMMA OnlyIs ==
  ASSUME NEW X, NEW seq \in Seq(X), NEW S
  PROVE  Only(seq, S) \in Seq(X \cap S) /\ \A x : x \in ToSet(Only(seq, S)) <=> x \in ToSet(seq) /\ x \in S
<1> DEFINE parts == [i \in DOMAIN seq |-> IF seq[i] \in S THEN <<seq[i]>> ELSE <<>>]
<1>1. \A i \in DOMAIN seq : seq[i] \in X
  OBVIOUS
<1>2. \A i \in DOMAIN seq : parts[i] \in Seq(X \cap S) /\ \A x : x \in ToSet(parts[i]) <=> x = seq[i] /\ x \in S
  <2> SUFFICES ASSUME NEW i \in DOMAIN seq
      PROVE parts[i] \in Seq(X \cap S) /\ \A x : x \in ToSet(parts[i]) <=> x = seq[i] /\ x \in S
    OBVIOUS
  <2>1. CASE seq[i] \in S
    <3>1. parts[i] = <<seq[i]>> /\ seq[i] \in X \cap S
      BY <1>1, <2>1
    <3>2. PICK e : e = seq[i] /\ e \in X \cap S /\ parts[i] = <<e>>
      BY <3>1
    <3>3. <<e>> \in Seq(X \cap S) /\ \A x : x \in ToSet(<<e>>) <=> x = e
      BY <3>2 DEF ToSet
    <3> HIDE DEF parts
    <3> QED BY <2>1, <3>2, <3>3
  <2>2. CASE seq[i] \notin S
    <3>1. parts[i] = <<>>
      BY <2>2
    <3>2. <<>> \in Seq(X \cap S) /\ \A x : x \notin ToSet(<<>>)
      BY DEF ToSet
    <3> HIDE DEF parts
    <3> QED BY <2>2, <3>1, <3>2
  <2> QED BY <2>1, <2>2
<1>3. DOMAIN parts = 1 .. Len(seq) /\ DOMAIN seq = 1 .. Len(seq) /\ Len(seq) \in Nat /\ parts = [i \in 1 .. Len(seq) |-> parts[i]]
  OBVIOUS
<1>4. Only(seq, S) = FlattenSeq(parts)
  BY DEF Only
<1> HIDE DEF parts
<1>5. parts \in Seq(Seq(X \cap S))
  BY <1>2, <1>3
<1>6. Only(seq, S) \in Seq(X \cap S) /\ \A x : x \in ToSet(Only(seq, S)) <=> \E i \in DOMAIN seq : x \in ToSet(parts[i])
  BY <1>3, <1>4, <1>5, FlattenIs
<1>7. \A x : (\E i \in DOMAIN seq : x \in ToSet(parts[i])) <=> (\E i \in DOMAIN seq : x = seq[i]) /\ x \in S
  BY <1>2
<1> QED BY <1>6, <1>7, ToSetIs

\* An element of a sequence stands at its Position.
LEMMA PositionIs == ASSUME NEW seq, NEW x, x \in ToSet(seq) PROVE Position(seq, x) \in DOMAIN seq /\ seq[Position(seq, x)] = x
BY DEF Position, ToSet

--------------------------------------------------------------------------------
(* Trees: what the queue and the depth-first order of an outline reach.      *)

Closed(o) == \A w \in Wires(o) : Kids(o, w) \in Seq(Wires(o))
\* every element hangs from the root
Connected(o) ==
  /\ o.root \in Wires(o)
  /\ \A T \in SUBSET Wires(o) : (o.root \in T /\ \A w \in T : ToSet(Kids(o, w)) \subseteq T) => T = Wires(o)

\* The elements of a sequence over T are in T.
LEMMA KidsIn == ASSUME NEW T, NEW kids \in Seq(T) PROVE ToSet(kids) \subseteq T
BY DEF ToSet

NextLevel(o, last) ==
  LET level == FlattenSeq([i \in DOMAIN last.level |-> Kids(o, last.level[i])])
  IN [level |-> level, all |-> last.all \o level]
LevelsUpTo(f, o, top, n) ==
  f = [k \in 0 .. n |-> IF k = 0 THEN [level |-> top, all |-> top] ELSE NextLevel(o, f[k - 1])]

\* The recursive definition in LevelsFrom has a solution,
LEMMA LevelsExist == ASSUME NEW o, NEW top, NEW n \in Nat PROVE \E f : LevelsUpTo(f, o, top, n)
<1> DEFINE S == {m \in Nat : \E f : LevelsUpTo(f, o, top, m)}
<1>1. 0 \in S
  <2> DEFINE f == [k \in 0 .. 0 |-> [level |-> top, all |-> top]]
  <2>1. LevelsUpTo(f, o, top, 0)
    BY DEF LevelsUpTo
  <2> QED BY <2>1
<1>2. ASSUME NEW m \in Nat, m \in S PROVE m + 1 \in S
  <2>1. PICK f : LevelsUpTo(f, o, top, m)
    BY <1>2
  <2> DEFINE g == [k \in 0 .. m + 1 |-> IF k = m + 1 THEN NextLevel(o, f[m]) ELSE f[k]]
  <2>2. \A k \in 0 .. m : f[k] = IF k = 0 THEN [level |-> top, all |-> top] ELSE NextLevel(o, f[k - 1])
    BY <2>1, Zenon DEF LevelsUpTo
  <2>3. ASSUME NEW k \in 0 .. m + 1 PROVE g[k] = IF k = 0 THEN [level |-> top, all |-> top] ELSE NextLevel(o, g[k - 1])
    <3>1. CASE k = m + 1
      <4>1. g[k] = NextLevel(o, f[m]) /\ k # 0 /\ g[k - 1] = f[m]
        BY <3>1
      <4> HIDE DEF g
      <4> QED BY <4>1
    <3>2. CASE k # m + 1
      <4>1. k \in 0 .. m /\ g[k] = f[k] /\ (k # 0 => g[k - 1] = f[k - 1])
        BY <3>2
      <4> HIDE DEF g
      <4> QED BY <2>2, <4>1
    <3> QED BY <3>1, <3>2
  <2>4. g = [k \in 0 .. m + 1 |-> IF k = 0 THEN [level |-> top, all |-> top] ELSE NextLevel(o, g[k - 1])]
    <3>1. g = [k \in 0 .. m + 1 |-> g[k]]
      OBVIOUS
    <3> HIDE DEF g
    <3> QED BY <2>3, <3>1
  <2>5. LevelsUpTo(g, o, top, m + 1)
    BY <2>4, Zenon DEF LevelsUpTo
  <2> HIDE DEF g
  <2> QED BY <2>5
<1>3. n \in S
  <2> HIDE DEF S
  <2> QED BY <1>1, <1>2, SetInduction
<1> QED BY <1>3

LevelsRun(o, top, f) ==
  /\ LevelsFrom(o, top) = f[Cardinality(Wires(o))].all /\ f[0] = [level |-> top, all |-> top]
  /\ \A k \in 1 .. Cardinality(Wires(o)) : f[k] = NextLevel(o, f[k - 1])

\* so LevelsFrom is what its last round leaves.
LEMMA LevelsAre == ASSUME NEW o, NEW top, IsFiniteSet(Wires(o)) PROVE \E f : LevelsRun(o, top, f)
<1> DEFINE N == Cardinality(Wires(o))
           upTo == CHOOSE f : LevelsUpTo(f, o, top, N)
<1>1. N \in Nat
  BY FS_CardinalityType
<1>2. LevelsUpTo(upTo, o, top, N)
  <2> HIDE DEF N
  <2> QED BY <1>1, LevelsExist
<1>3. LevelsFrom(o, top) = upTo[N].all
  BY DEF LevelsFrom, LevelsUpTo, NextLevel
<1> HIDE DEF upTo, N
<1>4. \A k \in 0 .. N : upTo[k] = IF k = 0 THEN [level |-> top, all |-> top] ELSE NextLevel(o, upTo[k - 1])
  BY <1>2, Zenon DEF LevelsUpTo
<1>5. upTo[0] = [level |-> top, all |-> top] /\ \A k \in 1 .. N : upTo[k] = NextLevel(o, upTo[k - 1])
  BY <1>1, <1>4
<1>6. LevelsRun(o, top, upTo)
  BY <1>3, <1>5 DEF N, LevelsRun
<1> QED BY <1>6

\* One level: the children of the one before.
LEMMA NextLevelIs ==
  ASSUME NEW o, NEW T, \A x \in T : Kids(o, x) \in Seq(T), NEW last, last.level \in Seq(T), last.all \in Seq(T)
  PROVE  LET next == NextLevel(o, last)
         IN /\ next.level \in Seq(T) /\ next.all \in Seq(T)
            /\ \A y : y \in ToSet(next.level) <=> \E x \in ToSet(last.level) : y \in ToSet(Kids(o, x))
            /\ \A y : y \in ToSet(next.all) <=> y \in ToSet(last.all) \/ y \in ToSet(next.level)
<1> DEFINE next == NextLevel(o, last)
           rows == [i \in DOMAIN last.level |-> Kids(o, last.level[i])]
<1>1. DOMAIN last.level = 1 .. Len(last.level) /\ Len(last.level) \in Nat /\ \A i \in DOMAIN last.level : last.level[i] \in T
  OBVIOUS
<1>2. rows \in Seq(Seq(T)) /\ DOMAIN rows = DOMAIN last.level /\ \A i \in DOMAIN rows : rows[i] = Kids(o, last.level[i])
  BY <1>1
<1>3. next.level = FlattenSeq(rows) /\ next.all = last.all \o FlattenSeq(rows)
  BY DEF NextLevel
<1> HIDE DEF rows, next
<1>4. FlattenSeq(rows) \in Seq(T) /\ \A y : y \in ToSet(FlattenSeq(rows)) <=> \E i \in DOMAIN rows : y \in ToSet(rows[i])
  BY <1>2, FlattenIs
<1>5. next.all \in Seq(T) /\ \A y : y \in ToSet(next.all) <=> y \in ToSet(last.all) \/ y \in ToSet(next.level)
  BY <1>3, <1>4, JoinedToSet
<1>6. \A y : (\E i \in DOMAIN rows : y \in ToSet(rows[i])) <=> \E x \in ToSet(last.level) : y \in ToSet(Kids(o, x))
  BY <1>2, ToSetIs
<1> QED BY <1>3, <1>4, <1>5, <1>6 DEF next

\* The levels below an element do not leave a set that is closed under kids.
LEMMA LevelsIn ==
  ASSUME NEW o, IsFiniteSet(Wires(o)), NEW T, \A x \in T : Kids(o, x) \in Seq(T), NEW w \in T
  PROVE  LevelsFrom(o, <<w>>) \in Seq(T)
<1> DEFINE N == Cardinality(Wires(o))
<1>1. N \in Nat
  BY FS_CardinalityType
<1>2. PICK f : /\ LevelsFrom(o, <<w>>) = f[N].all /\ f[0] = [level |-> <<w>>, all |-> <<w>>]
               /\ \A k \in 1 .. N : f[k] = NextLevel(o, f[k - 1])
  <2>1. PICK f : LevelsRun(o, <<w>>, f)
    BY LevelsAre
  <2> QED BY <2>1 DEF LevelsRun
<1> HIDE DEF N
<1> DEFINE S == {k \in Nat : k <= N => f[k].level \in Seq(T) /\ f[k].all \in Seq(T)}
<1>3. 0 \in S
  <2>1. f[0].level = <<w>> /\ f[0].all = <<w>> /\ <<w>> \in Seq(T)
    BY <1>2
  <2> QED BY <2>1
<1>4. ASSUME NEW k \in Nat, k \in S PROVE k + 1 \in S
  <2> SUFFICES ASSUME k + 1 <= N PROVE f[k + 1].level \in Seq(T) /\ f[k + 1].all \in Seq(T)
    OBVIOUS
  <2>1. f[k].level \in Seq(T) /\ f[k].all \in Seq(T) /\ f[k + 1] = NextLevel(o, f[k])
    BY <1>1, <1>2, <1>4
  <2> QED BY <2>1, NextLevelIs
<1>5. N \in S
  <2> HIDE DEF S
  <2> QED BY <1>1, <1>3, <1>4, SetInduction
<1> QED BY <1>1, <1>2, <1>5

\* What is below an element is closed under kids.
LEMMA BelowIs ==
  ASSUME NEW o, IsFiniteSet(Wires(o)), Closed(o), NEW w \in Wires(o)
  PROVE  /\ Below(o, w) \subseteq Wires(o) /\ w \in Below(o, w)
         /\ \A x \in Below(o, w) : ToSet(Kids(o, x)) \subseteq Below(o, w)
<1> DEFINE N == Cardinality(Wires(o))
           W == Wires(o)
<1>1. N \in Nat /\ \A x \in W : Kids(o, x) \in Seq(W)
  BY FS_CardinalityType DEF Closed
<1>2. PICK f : /\ LevelsFrom(o, <<w>>) = f[N].all /\ f[0] = [level |-> <<w>>, all |-> <<w>>]
               /\ \A k \in 1 .. N : f[k] = NextLevel(o, f[k - 1])
  <2>1. PICK f : LevelsRun(o, <<w>>, f)
    BY LevelsAre
  <2> QED BY <2>1 DEF LevelsRun
<1> DEFINE Good(k) == /\ f[k].level \in Seq(W) /\ f[k].all \in Seq(W)
                      /\ \A y \in ToSet(f[k].level) : y \in ToSet(f[k].all)
                      /\ \A x \in ToSet(f[k].all) : x \in ToSet(f[k].level) \/ ToSet(Kids(o, x)) \subseteq ToSet(f[k].all)
           P == {k \in Nat : k <= N => Good(k)}
<1>3. 0 \in P
  <2>1. f[0].level = <<w>> /\ f[0].all = <<w>> /\ <<w>> \in Seq(W)
    BY <1>2
  <2> QED BY <2>1
<1>4. ASSUME NEW k \in Nat, k \in P, k + 1 <= N
      PROVE  /\ Good(k + 1)
             /\ \A y : y \in ToSet(f[k + 1].all) <=> y \in ToSet(f[k].all) \/ \E x \in ToSet(f[k].all) : y \in ToSet(Kids(o, x))
  <2> HIDE DEF N, W
  <2>1. Good(k) /\ f[k + 1] = NextLevel(o, f[k])
    BY <1>1, <1>2, <1>4
  <2>2. /\ f[k + 1].level \in Seq(W) /\ f[k + 1].all \in Seq(W)
        /\ \A y : y \in ToSet(f[k + 1].level) <=> \E x \in ToSet(f[k].level) : y \in ToSet(Kids(o, x))
        /\ \A y : y \in ToSet(f[k + 1].all) <=> y \in ToSet(f[k].all) \/ y \in ToSet(f[k + 1].level)
    BY <1>1, <2>1, NextLevelIs
  <2>3. \A y : y \in ToSet(f[k + 1].all) <=> y \in ToSet(f[k].all) \/ \E x \in ToSet(f[k].all) : y \in ToSet(Kids(o, x))
    BY <2>1, <2>2
  <2>4. \A x \in ToSet(f[k + 1].all) : x \in ToSet(f[k + 1].level) \/ ToSet(Kids(o, x)) \subseteq ToSet(f[k + 1].all)
    BY <2>2, <2>3
  <2> QED BY <2>2, <2>3, <2>4
<1>5. \A k \in Nat : k \in P
  <2>1. \A k \in Nat : k \in P => k + 1 \in P
    <3> HIDE DEF Good
    <3> QED BY <1>4
  <2> HIDE DEF P
  <2> QED BY <1>3, <2>1, SetInduction
<1> DEFINE K == [x \in W |-> ToSet(Kids(o, x))]
           S == [k \in 0 .. N |-> ToSet(f[k].all)]
<1>6. \A x \in W : K[x] \subseteq W
  BY <1>1, KidsIn
<1>7. \A k \in 0 .. N : f[k].all \in Seq(W) /\ S[k] \subseteq W
  <2> SUFFICES ASSUME NEW k \in 0 .. N PROVE f[k].all \in Seq(W) /\ S[k] \subseteq W
    OBVIOUS
  <2>1. f[k].all \in Seq(W)
    BY <1>1, <1>5
  <2> QED BY <2>1, KidsIn
<1>8. w \in S[0]
  <2>1. f[0].all = <<w>> /\ S[0] = ToSet(f[0].all)
    BY <1>1, <1>2
  <2> QED BY <2>1 DEF ToSet
<1>9. \A k \in 1 .. N : \A y : y \in S[k] <=> (y \in S[k - 1] \/ \E x \in S[k - 1] : y \in K[x])
  <2> SUFFICES ASSUME NEW k \in 1 .. N, NEW y PROVE y \in S[k] <=> (y \in S[k - 1] \/ \E x \in S[k - 1] : y \in K[x])
    OBVIOUS
  <2>1. k - 1 \in Nat /\ (k - 1) + 1 = k /\ k - 1 \in 0 .. N /\ k <= N
    BY <1>1
  <2>2. y \in ToSet(f[k].all) <=> y \in ToSet(f[k - 1].all) \/ \E x \in ToSet(f[k - 1].all) : y \in ToSet(Kids(o, x))
    BY <1>4, <1>5, <2>1
  <2>3. S[k] = ToSet(f[k].all) /\ S[k - 1] = ToSet(f[k - 1].all) /\ \A x \in S[k - 1] : x \in W /\ K[x] = ToSet(Kids(o, x))
    BY <1>1, <1>7, <2>1
  <2> HIDE DEF S, K
  <2> QED BY <2>2, <2>3
<1>10. w \in S[N] /\ \A x \in S[N] : K[x] \subseteq S[N]
  <2> HIDE DEF S, K
  <2> QED BY <1>6, <1>7, <1>8, <1>9, RoundsClose
<1>11. Below(o, w) = S[N]
  BY <1>1, <1>2 DEF Below
<1>12. \A x \in S[N] : K[x] = ToSet(Kids(o, x))
  BY <1>1, <1>7
<1>13. S[N] \subseteq W
  BY <1>1, <1>7
<1> HIDE DEF S, K
<1> QED BY <1>10, <1>11, <1>12, <1>13

\* The queue of an outline goes through all of its elements.
LEMMA BreadthFirstCovers ==
  ASSUME NEW o, IsFiniteSet(Wires(o)), Closed(o), Connected(o)
  PROVE  BreadthFirst(o) \in Seq(Wires(o)) /\ ToSet(BreadthFirst(o)) = Wires(o)
<1>1. BreadthFirst(o) \in Seq(Wires(o))
  BY LevelsIn DEF BreadthFirst, Closed, Connected
<1>2. ToSet(BreadthFirst(o)) = Below(o, o.root)
  BY DEF BreadthFirst, Below
<1>3. /\ Below(o, o.root) \subseteq Wires(o) /\ o.root \in Below(o, o.root)
      /\ \A x \in Below(o, o.root) : ToSet(Kids(o, x)) \subseteq Below(o, o.root)
  BY BelowIs DEF Connected
<1>4. Below(o, o.root) = Wires(o)
  BY <1>3 DEF Connected
<1> QED BY <1>1, <1>2, <1>4

DepthUpTo(f, o, n) ==
  f = [k \in 0 .. n |-> [w \in Wires(o) |->
         IF k = 0 THEN <<w>> ELSE <<w>> \o FlattenSeq([i \in DOMAIN Kids(o, w) |-> f[k - 1][Kids(o, w)[i]]])]]
DepthRow(o, last, w) == <<w>> \o FlattenSeq([i \in DOMAIN Kids(o, w) |-> last[Kids(o, w)[i]]])

\* The recursive definition in DepthFirst has a solution,
LEMMA DepthExists == ASSUME NEW o, NEW n \in Nat PROVE \E f : DepthUpTo(f, o, n)
<1> DEFINE S == {m \in Nat : \E f : DepthUpTo(f, o, m)}
           Row(f, k) == [w \in Wires(o) |->
                           IF k = 0 THEN <<w>> ELSE <<w>> \o FlattenSeq([i \in DOMAIN Kids(o, w) |-> f[k - 1][Kids(o, w)[i]]])]
<1>1. 0 \in S
  <2> DEFINE f == [k \in 0 .. 0 |-> [w \in Wires(o) |-> <<w>>]]
  <2>1. \A k \in 0 .. 0 : f[k] = Row(f, k)
    OBVIOUS
  <2>2. f = [k \in 0 .. 0 |-> Row(f, k)]
    <3>1. f = [k \in 0 .. 0 |-> f[k]]
      OBVIOUS
    <3> HIDE DEF f, Row
    <3> QED BY <2>1, <3>1
  <2>3. DepthUpTo(f, o, 0)
    BY <2>2, Zenon DEF DepthUpTo
  <2> HIDE DEF f
  <2> QED BY <2>3
<1>2. ASSUME NEW m \in Nat, m \in S PROVE m + 1 \in S
  <2>1. PICK f : DepthUpTo(f, o, m)
    BY <1>2
  <2> DEFINE v == Row(f, m + 1)
             g == [k \in 0 .. m + 1 |-> IF k = m + 1 THEN v ELSE f[k]]
  <2>2. \A k \in 0 .. m : f[k] = Row(f, k)
    BY <2>1, Zenon DEF DepthUpTo
  <2>3. ASSUME NEW k \in 0 .. m + 1 PROVE g[k] = Row(g, k)
    <3>1. k # 0 => k - 1 \in 0 .. m /\ g[k - 1] = f[k - 1]
      OBVIOUS
    <3>2. Row(g, k) = Row(f, k)
      <4> HIDE DEF g
      <4>1. CASE k = 0
        BY <4>1
      <4>2. CASE k # 0
        BY <3>1, <4>2
      <4> QED BY <4>1, <4>2
    <3>3. g[k] = Row(f, k)
      <4>1. CASE k = m + 1
        <5>1. g[k] = v
          BY <4>1
        <5> QED BY <4>1, <5>1
      <4>2. CASE k # m + 1
        <5>1. g[k] = f[k] /\ k \in 0 .. m
          BY <4>2
        <5> HIDE DEF g, Row
        <5> QED BY <2>2, <5>1
      <4> QED BY <4>1, <4>2
    <3> HIDE DEF g, Row
    <3> QED BY <3>2, <3>3
  <2>4. g = [k \in 0 .. m + 1 |-> Row(g, k)]
    <3>1. g = [k \in 0 .. m + 1 |-> g[k]]
      OBVIOUS
    <3> HIDE DEF g, Row
    <3> QED BY <2>3, <3>1
  <2>5. DepthUpTo(g, o, m + 1)
    BY <2>4, Zenon DEF DepthUpTo
  <2> HIDE DEF g
  <2> QED BY <2>5
<1>3. n \in S
  <2> HIDE DEF S
  <2> QED BY <1>1, <1>2, SetInduction
<1> QED BY <1>3

DepthRun(o, top, f) ==
  /\ DepthFirst(o, top) = f[Cardinality(Wires(o))][top]
  /\ \A w \in Wires(o) : f[0][w] = <<w>>
  /\ \A k \in 1 .. Cardinality(Wires(o)) : \A w \in Wires(o) : f[k][w] = DepthRow(o, f[k - 1], w)

\* so DepthFirst is what its last round leaves.
LEMMA DepthIs == ASSUME NEW o, NEW top \in Wires(o), IsFiniteSet(Wires(o)) PROVE \E f : DepthRun(o, top, f)
<1> DEFINE N == Cardinality(Wires(o))
           under == CHOOSE f : DepthUpTo(f, o, N)
<1>1. N \in Nat
  BY FS_CardinalityType
<1>2. DepthUpTo(under, o, N)
  <2> HIDE DEF N
  <2> QED BY <1>1, DepthExists
<1>3. DepthFirst(o, top) = under[N][top]
  BY DEF DepthFirst, DepthUpTo
<1> HIDE DEF under, N
<1>4. \A k \in 0 .. N : under[k] = [w \in Wires(o) |->
         IF k = 0 THEN <<w>> ELSE <<w>> \o FlattenSeq([i \in DOMAIN Kids(o, w) |-> under[k - 1][Kids(o, w)[i]]])]
  BY <1>2, Zenon DEF DepthUpTo
<1>5. \A w \in Wires(o) : under[0][w] = <<w>>
  <2>1. 0 \in 0 .. N
    BY <1>1
  <2>2. under[0] = [w \in Wires(o) |->
           IF 0 = 0 THEN <<w>> ELSE <<w>> \o FlattenSeq([i \in DOMAIN Kids(o, w) |-> under[0 - 1][Kids(o, w)[i]]])]
    BY <1>4, <2>1
  <2>3. under[0] = [w \in Wires(o) |-> <<w>>]
    BY <2>2
  <2> QED BY <2>3
<1>6. \A k \in 1 .. N : \A w \in Wires(o) : under[k][w] = DepthRow(o, under[k - 1], w)
  <2> SUFFICES ASSUME NEW k \in 1 .. N, NEW w \in Wires(o) PROVE under[k][w] = DepthRow(o, under[k - 1], w)
    OBVIOUS
  <2>1. k \in 0 .. N /\ k # 0
    BY <1>1
  <2>2. under[k] = [x \in Wires(o) |->
           IF k = 0 THEN <<x>> ELSE <<x>> \o FlattenSeq([i \in DOMAIN Kids(o, x) |-> under[k - 1][Kids(o, x)[i]]])]
    BY <1>4, <2>1
  <2>3. under[k][w] = <<w>> \o FlattenSeq([i \in DOMAIN Kids(o, w) |-> under[k - 1][Kids(o, w)[i]]])
    BY <2>1, <2>2
  <2> QED BY <2>3 DEF DepthRow
<1>7. DepthRun(o, top, under)
  BY <1>3, <1>5, <1>6 DEF N, DepthRun
<1> QED BY <1>7

\* An element and what its children have below them.
LEMMA DepthRowIs ==
  ASSUME NEW o, Closed(o), NEW last, \A x \in Wires(o) : last[x] \in Seq(Wires(o)), NEW w \in Wires(o)
  PROVE  /\ DepthRow(o, last, w) \in Seq(Wires(o))
         /\ \A y : y \in ToSet(DepthRow(o, last, w)) <=> y = w \/ \E x \in ToSet(Kids(o, w)) : y \in ToSet(last[x])
<1> DEFINE rows == [i \in DOMAIN Kids(o, w) |-> last[Kids(o, w)[i]]]
           W == Wires(o)
<1>1. Kids(o, w) \in Seq(W)
  BY DEF Closed
<1>2. PICK kids \in Seq(W) : kids = Kids(o, w)
  BY <1>1
<1>3. DOMAIN kids = 1 .. Len(kids) /\ Len(kids) \in Nat /\ \A i \in DOMAIN kids : kids[i] \in W
  BY <1>2
<1>4. rows \in Seq(Seq(W)) /\ DOMAIN rows = DOMAIN kids /\ \A i \in DOMAIN rows : rows[i] = last[kids[i]]
  BY <1>2, <1>3
<1>5. DepthRow(o, last, w) = <<w>> \o FlattenSeq(rows)
  BY DEF DepthRow
<1> HIDE DEF rows, W
<1>6. FlattenSeq(rows) \in Seq(W) /\ \A y : y \in ToSet(FlattenSeq(rows)) <=> \E i \in DOMAIN rows : y \in ToSet(rows[i])
  BY <1>4, FlattenIs
<1>7. <<w>> \in Seq(W) /\ \A y : y \in ToSet(<<w>>) <=> y = w
  BY DEF W, ToSet
<1>8. /\ <<w>> \o FlattenSeq(rows) \in Seq(W)
      /\ \A y : y \in ToSet(<<w>> \o FlattenSeq(rows)) <=> y \in ToSet(<<w>>) \/ y \in ToSet(FlattenSeq(rows))
  BY <1>6, <1>7, JoinedToSet
<1>9. \A y : (\E i \in DOMAIN rows : y \in ToSet(rows[i])) <=> \E x \in ToSet(kids) : y \in ToSet(last[x])
  BY <1>4, ToSetIs
<1> QED BY <1>2, <1>5, <1>6, <1>7, <1>8, <1>9 DEF W

\* So does the depth-first order.
LEMMA DepthFirstCovers ==
  ASSUME NEW o, IsFiniteSet(Wires(o)), Closed(o), Connected(o)
  PROVE  DepthFirst(o, o.root) \in Seq(Wires(o)) /\ ToSet(DepthFirst(o, o.root)) = Wires(o)
<1> DEFINE N == Cardinality(Wires(o))
           W == Wires(o)
<1>1. N \in Nat /\ (\A x \in W : Kids(o, x) \in Seq(W)) /\ o.root \in W
  BY FS_CardinalityType DEF Closed, Connected
<1>2. PICK f : /\ DepthFirst(o, o.root) = f[N][o.root]
               /\ \A w \in W : f[0][w] = <<w>>
               /\ \A k \in 1 .. N : \A w \in W : f[k][w] = DepthRow(o, f[k - 1], w)
  <2>1. PICK f : DepthRun(o, o.root, f)
    BY <1>1, DepthIs
  <2> QED BY <2>1 DEF DepthRun
<1> DEFINE T(k, w) == ToSet(f[k][w])
           Typed(k) == \A w \in W : f[k][w] \in Seq(W)
           Grown(k) == \A w \in W : \A y : y \in T(k + 1, w) <=> y \in T(k, w) \/ \E x \in T(k, w) : y \in ToSet(Kids(o, x))
<1>3. \A k \in Nat : k <= N => Typed(k)
  <2> DEFINE P == {k \in Nat : k <= N => Typed(k)}
  <2>1. 0 \in P
    <3>1. \A w \in W : <<w>> \in Seq(W)
      OBVIOUS
    <3>2. Typed(0)
      BY <1>2, <3>1
    <3> QED BY <3>2
  <2>2. ASSUME NEW k \in Nat, k \in P PROVE k + 1 \in P
    <3> SUFFICES ASSUME k + 1 <= N, NEW w \in W PROVE f[k + 1][w] \in Seq(W)
      OBVIOUS
    <3> HIDE DEF N, W
    <3>1. Typed(k) /\ f[k + 1][w] = DepthRow(o, f[k], w)
      BY <1>1, <1>2, <2>2
    <3> QED BY <3>1, DepthRowIs DEF W
  <2> HIDE DEF P
  <2>3. \A k \in Nat : k \in P
    BY <2>1, <2>2, SetInduction
  <2> QED BY <2>3 DEF P
<1>4. ASSUME NEW k \in Nat, k + 1 <= N, NEW w \in W
      PROVE  \A y : y \in T(k + 1, w) <=> y = w \/ \E x \in ToSet(Kids(o, w)) : y \in T(k, x)
  <2> HIDE DEF N, W
  <2>1. Typed(k) /\ f[k + 1][w] = DepthRow(o, f[k], w)
    BY <1>1, <1>2, <1>3, <1>4
  <2> QED BY <2>1, DepthRowIs DEF W
<1>5. \A w \in W : \A y : y \in T(0, w) <=> y = w
  BY <1>2 DEF ToSet
<1>6. \A w \in W : ToSet(Kids(o, w)) \subseteq W
  BY <1>1, KidsIn
<1>7. \A k \in Nat : k + 1 <= N => Grown(k)
  <2> DEFINE P == {k \in Nat : k + 1 <= N => Grown(k)}
  <2> HIDE DEF T, N, W
  <2>1. 0 \in P
    <3> SUFFICES ASSUME 0 + 1 <= N, NEW w \in W, NEW y
                 PROVE  y \in T(0 + 1, w) <=> y \in T(0, w) \/ \E x \in T(0, w) : y \in ToSet(Kids(o, x))
      OBVIOUS
    <3>1. y \in T(0 + 1, w) <=> y = w \/ \E x \in ToSet(Kids(o, w)) : y \in T(0, x)
      BY <1>4
    <3>2. (\E x \in ToSet(Kids(o, w)) : y \in T(0, x)) <=> y \in ToSet(Kids(o, w))
      BY <1>5, <1>6
    <3>3. (\E x \in T(0, w) : y \in ToSet(Kids(o, x))) <=> y \in ToSet(Kids(o, w))
      BY <1>5
    <3> QED BY <1>5, <3>1, <3>2, <3>3
  <2>2. ASSUME NEW k \in Nat, k \in P PROVE k + 1 \in P
    <3> SUFFICES ASSUME (k + 1) + 1 <= N, NEW w \in W, NEW y
                 PROVE  y \in T((k + 1) + 1, w) <=> y \in T(k + 1, w) \/ \E x \in T(k + 1, w) : y \in ToSet(Kids(o, x))
      OBVIOUS
    <3>1. Grown(k) /\ k + 1 \in Nat /\ k + 1 <= N
      BY <1>1, <2>2
    <3>2. y \in T((k + 1) + 1, w) <=> y = w \/ \E x \in ToSet(Kids(o, w)) : y \in T(k + 1, x)
      BY <1>4, <3>1
    <3>3. \A z : z \in T(k + 1, w) <=> z = w \/ \E x \in ToSet(Kids(o, w)) : z \in T(k, x)
      BY <1>4, <3>1
    <3>4. \A v \in ToSet(Kids(o, w)) : y \in T(k + 1, v) <=> y \in T(k, v) \/ \E x \in T(k, v) : y \in ToSet(Kids(o, x))
      BY <1>6, <3>1
    <3>5. (\E v \in ToSet(Kids(o, w)) : y \in T(k + 1, v)) <=>
            \/ \E v \in ToSet(Kids(o, w)) : y \in T(k, v)
            \/ \E v \in ToSet(Kids(o, w)) : \E x \in T(k, v) : y \in ToSet(Kids(o, x))
      BY <3>4
    <3>6. (\E x \in T(k + 1, w) : y \in ToSet(Kids(o, x))) <=>
            \/ y \in ToSet(Kids(o, w))
            \/ \E v \in ToSet(Kids(o, w)) : \E x \in T(k, v) : y \in ToSet(Kids(o, x))
      BY <3>3
    <3>7. y \in ToSet(Kids(o, w)) => \E v \in ToSet(Kids(o, w)) : y \in T(k + 1, v)
      <4> SUFFICES ASSUME y \in ToSet(Kids(o, w)) PROVE y \in T(k + 1, y)
        OBVIOUS
      <4>1. y \in W
        BY <1>6
      <4> QED BY <1>4, <3>1, <4>1
    <3> QED BY <3>2, <3>3, <3>5, <3>6, <3>7
  <2> HIDE DEF P
  <2>3. \A k \in Nat : k \in P
    BY <2>1, <2>2, SetInduction
  <2> QED BY <2>3 DEF P
<1> DEFINE K == [x \in W |-> ToSet(Kids(o, x))]
           S == [k \in 0 .. N |-> T(k, o.root)]
<1>8. \A k \in 0 .. N : f[k][o.root] \in Seq(W) /\ S[k] \subseteq W
  <2> SUFFICES ASSUME NEW k \in 0 .. N PROVE f[k][o.root] \in Seq(W) /\ S[k] \subseteq W
    OBVIOUS
  <2>1. f[k][o.root] \in Seq(W)
    BY <1>1, <1>3
  <2> QED BY <2>1, KidsIn
<1>9. o.root \in S[0]
  <2> HIDE DEF T, N, W
  <2>1. o.root \in T(0, o.root)
    BY <1>1, <1>5
  <2>2. 0 \in 0 .. N
    BY <1>1
  <2> QED BY <2>1, <2>2
<1>10. \A k \in 1 .. N : \A y : y \in S[k] <=> (y \in S[k - 1] \/ \E x \in S[k - 1] : y \in K[x])
  <2> SUFFICES ASSUME NEW k \in 1 .. N, NEW y PROVE y \in S[k] <=> (y \in S[k - 1] \/ \E x \in S[k - 1] : y \in K[x])
    OBVIOUS
  <2>1. k - 1 \in Nat /\ (k - 1) + 1 = k /\ k - 1 \in 0 .. N /\ k <= N
    BY <1>1
  <2>2. y \in T(k, o.root) <=> y \in T(k - 1, o.root) \/ \E x \in T(k - 1, o.root) : y \in ToSet(Kids(o, x))
    <3> HIDE DEF T
    <3>1. Grown(k - 1)
      BY <1>7, <2>1
    <3> QED BY <1>1, <2>1, <3>1
  <2>3. S[k] = T(k, o.root) /\ S[k - 1] = T(k - 1, o.root) /\ \A x \in S[k - 1] : x \in W /\ K[x] = ToSet(Kids(o, x))
    BY <1>1, <1>8, <2>1
  <2> HIDE DEF S, K, T
  <2> QED BY <2>2, <2>3
<1>11. o.root \in S[N] /\ \A x \in S[N] : K[x] \subseteq S[N]
  <2>1. \A x \in W : K[x] \subseteq W
    BY <1>6
  <2> HIDE DEF S, K
  <2> QED BY <1>8, <1>9, <1>10, <2>1, RoundsClose
<1>12. S[N] = W
  <2>1. S[N] \in SUBSET W /\ \A x \in S[N] : ToSet(Kids(o, x)) \subseteq S[N]
    <3>1. N \in 0 .. N
      BY <1>1
    <3>2. S[N] \in SUBSET W
      BY <1>8, <3>1
    <3>3. \A x \in W : K[x] = ToSet(Kids(o, x))
      OBVIOUS
    <3> HIDE DEF S, K
    <3> QED BY <1>11, <3>2, <3>3
  <2> HIDE DEF S
  <2> QED BY <1>11, <2>1 DEF Connected
<1> QED BY <1>1, <1>2, <1>8, <1>12

--------------------------------------------------------------------------------
(* The walk of the helper.                                                   *)

\* A walk that has come to s: who was met and is no longer queued is a node with
\* its kids, who is queued a node without.
Queued(s) == {s.queue[i][1] : i \in DOMAIN s.queue}
Met(s) == DOMAIN s.nodes
Alike(n, m) == IsNode(n) /\ n.role = m.role
WalkOK(tree, w0, s) ==
  /\ Met(s) \subseteq Wires(tree) /\ w0 \in Met(s)
  /\ \A x \in Met(s) : /\ Alike(s.nodes[x], tree.nodes[x]) /\ s.nodes[x].kids \in Seq(Met(s))
                       /\ ToSet(s.nodes[x].kids) \subseteq ToSet(Kids(tree, x))
  /\ s.queue \in Seq(Met(s) \X Nat)
  /\ \A i, j \in DOMAIN s.queue : s.queue[i][1] = s.queue[j][1] => i = j
  /\ \A x \in Queued(s) : s.nodes[x].kids = <<>>
  /\ \A x \in Met(s) : x # w0 => \E p \in Met(s) : p \notin Queued(s) /\ x \in ToSet(Kids(tree, p))
  /\ \A T \in SUBSET Met(s) : (w0 \in T /\ \A x \in T : ToSet(s.nodes[x].kids) \subseteq T) => T = Met(s)

\* A node has a page of the children, from the one after "from" on, and tells
\* whether that is all.
HasPage(tree, x, n, from) ==
  \E m \in Nat : /\ from <= m /\ m <= Len(Kids(tree, x)) /\ n.kids = SubSeq(Kids(tree, x), from + 1, m)
                 /\ IF n.trunc THEN n.next = m ELSE n.next = 0 /\ m = Len(Kids(tree, x))
From(w0, first, x) == IF x = w0 THEN first ELSE 0
WalkReads(tree, w0, first, s) ==
  /\ \A i \in DOMAIN s.queue : s.queue[i][2] = From(w0, first, s.queue[i][1])
  /\ \A x \in Met(s) : /\ s.nodes[x].live = tree.nodes[x].live
                       /\ x \notin Queued(s) => HasPage(tree, x, s.nodes[x], From(w0, first, x))

\* A walk does not come back to where it began: that would be a circle.
LEMMA NoWayBack ==
  ASSUME NEW tree, IsTree(tree), NEW w0, NEW s, WalkOK(tree, w0, s), NEW p \in Met(s)
  PROVE  w0 \notin ToSet(Kids(tree, p))
<1> SUFFICES ASSUME w0 \in ToSet(Kids(tree, p)) PROVE FALSE
  OBVIOUS
<1>1. Met(s) \subseteq Wires(tree) /\ Met(s) # {}
  BY DEF WalkOK
<1>2. PICK x \in Met(s) : Parents(tree, x) \cap Met(s) = {}
  BY <1>1 DEF IsTree
<1>3. \E q \in Met(s) : x \in ToSet(Kids(tree, q))
  BY DEF WalkOK
<1>4. PICK q \in Met(s) : x \in ToSet(Kids(tree, q))
  BY <1>3
<1>5. q \in Parents(tree, x)
  BY <1>1, <1>4, ToSetIs DEF Parents
<1> QED BY <1>2, <1>5

\* A page of the children of an element.
Once(seq) == \A i, j \in DOMAIN seq : seq[i] = seq[j] => i = j
RestOf(kids, from) == SubSeq(kids, from + 1, Len(kids))
PageOf(rest, room) == SubSeq(rest, 1, Min({Len(rest), room}))

\* The first m elements of a sequence.
LEMMA StartIs ==
  ASSUME NEW X, NEW s \in Seq(X), NEW m \in Nat, m <= Len(s)
  PROVE  SubSeq(s, 1, m) \in Seq(X) /\ Len(SubSeq(s, 1, m)) = m /\ \A i \in 1 .. m : SubSeq(s, 1, m)[i] = s[i]
OBVIOUS

\* A page is a part of the children, each of them once.
LEMMA PageIs ==
  ASSUME NEW X, NEW kids \in Seq(X), Once(kids),
         NEW from \in Nat, NEW room \in Nat
  PROVE  LET rest == RestOf(kids, from)
             page == PageOf(rest, room)
         IN /\ page \in Seq(X) /\ Len(page) \in Nat /\ Len(rest) \in Nat /\ ToSet(page) \subseteq ToSet(kids)
            /\ Once(page)
<1>0. PICK rest, page : rest = RestOf(kids, from) /\ page = PageOf(rest, room)
  OBVIOUS
<1>1. PICK n \in Nat : n = Len(kids) /\ DOMAIN kids = 1 .. n /\ \A i \in 1 .. n : kids[i] \in X
  OBVIOUS
<1>2. /\ rest \in Seq(X) /\ Len(rest) = IF from + 1 <= n THEN n - (from + 1) + 1 ELSE 0
      /\ \A i \in 1 .. n - (from + 1) + 1 : rest[i] = kids[(from + 1) + i - 1]
  <2>1. from + 1 \in Int /\ n \in Int /\ \A i \in from + 1 .. n : kids[i] \in X
    BY <1>1
  <2>2. /\ SubSeq(kids, from + 1, n) \in Seq(X) /\ Len(SubSeq(kids, from + 1, n)) = IF from + 1 <= n THEN n - (from + 1) + 1 ELSE 0
        /\ \A i \in 1 .. n - (from + 1) + 1 : SubSeq(kids, from + 1, n)[i] = kids[(from + 1) + i - 1]
    BY <2>1, SubSeqProperties
  <2> QED BY <1>0, <1>1, <2>2 DEF RestOf
<1>3. PICK a \in Nat : a = Len(rest) /\ DOMAIN rest = 1 .. a /\ (\A i \in 1 .. a : rest[i] \in X)
                       /\ \A i \in 1 .. a : i + from \in 1 .. n /\ rest[i] = kids[i + from]
  <2>0. PICK r \in Seq(X) : r = rest
    BY <1>2
  <2>1. PICK a \in Nat : a = Len(rest) /\ DOMAIN rest = 1 .. a /\ \A i \in 1 .. a : rest[i] \in X
    <3>1. Len(r) \in Nat /\ DOMAIN r = 1 .. Len(r) /\ \A i \in 1 .. Len(r) : r[i] \in X
      OBVIOUS
    <3> QED BY <2>0, <3>1
  <2>2. a = IF from + 1 <= n THEN n - from ELSE 0
    BY <1>1, <1>2, <2>1
  <2>3. \A i \in 1 .. a : i + from \in 1 .. n /\ i \in 1 .. n - (from + 1) + 1 /\ (from + 1) + i - 1 = i + from
    BY <1>1, <2>2
  <2>4. \A i \in 1 .. a : rest[i] = kids[i + from]
    BY <1>2, <2>3
  <2> QED BY <2>1, <2>3, <2>4
<1>4. PICK m : m = Min({Len(rest), room})
  OBVIOUS
<1>5. m \in Nat /\ m <= a
  <2>2. \E x \in {a, room} : \A y \in {a, room} : x <= y
    <3>1. CASE a <= room
      BY <3>1
    <3>2. CASE room <= a
      BY <3>2
    <3> QED BY <3>1, <3>2
  <2>3. Min({a, room}) \in {a, room} /\ \A y \in {a, room} : Min({a, room}) <= y
    BY <2>2 DEF Min
  <2> QED BY <1>3, <1>4, <2>3
<1>6. page = SubSeq(rest, 1, m)
  BY <1>0, <1>4 DEF PageOf
<1>7. page \in Seq(X) /\ DOMAIN page = 1 .. m /\ \A i \in 1 .. m : i \in DOMAIN rest /\ page[i] = rest[i]
  <2>1. rest \in Seq(X) /\ m <= Len(rest)
    BY <1>2, <1>3, <1>5
  <2>2. page \in Seq(X) /\ Len(page) = m /\ \A i \in 1 .. m : page[i] = rest[i]
    BY <1>5, <1>6, <2>1, StartIs
  <2>3. DOMAIN page = 1 .. m /\ \A i \in 1 .. m : i \in 1 .. a
    BY <1>3, <1>5, <2>2
  <2> QED BY <1>3, <2>2, <2>3
<1>8. \A i \in DOMAIN page : i \in DOMAIN rest /\ i + from \in 1 .. n /\ page[i] = kids[i + from]
  BY <1>3, <1>7
<1>9. ToSet(page) \subseteq ToSet(kids)
  <2>1. \A i \in DOMAIN page : \E j \in DOMAIN kids : kids[j] = page[i]
    BY <1>1, <1>8
  <2> SUFFICES ASSUME NEW x \in ToSet(page) PROVE x \in ToSet(kids)
    OBVIOUS
  <2>2. PICK i \in DOMAIN page : page[i] = x
    BY ToSetIs
  <2>3. PICK j \in DOMAIN kids : kids[j] = page[i]
    BY <2>1
  <2> QED BY <2>2, <2>3, ToSetIs
<1>10. \A i, j \in DOMAIN page : page[i] = page[j] => i = j
  <2> SUFFICES ASSUME NEW i \in DOMAIN page, NEW j \in DOMAIN page, page[i] = page[j] PROVE i = j
    OBVIOUS
  <2>1. kids[i + from] = kids[j + from] /\ i + from \in DOMAIN kids /\ j + from \in DOMAIN kids
    BY <1>1, <1>8
  <2>2. i + from = j + from
    BY <2>1 DEF Once
  <2> QED BY <1>5, <1>7, <2>2
<1>11. Len(page) \in Nat /\ Len(rest) \in Nat
  BY <1>2, <1>7
<1> QED BY <1>0, <1>7, <1>9, <1>10, <1>11 DEF Once

\* It goes from the one after "from" to some m-th.
LEMMA PageReads ==
  ASSUME NEW X, NEW kids \in Seq(X), NEW from \in Nat, from <= Len(kids), NEW room \in Nat
  PROVE  \E m \in Nat : /\ from <= m /\ m <= Len(kids) /\ PageOf(RestOf(kids, from), room) = SubSeq(kids, from + 1, m)
                        /\ Len(PageOf(RestOf(kids, from), room)) = m - from /\ Len(RestOf(kids, from)) = Len(kids) - from
<1>1. PICK n \in Nat : n = Len(kids) /\ \A i \in 1 .. n : kids[i] \in X
  OBVIOUS
<1>2. PICK rest : rest = SubSeq(kids, from + 1, n) /\ rest \in Seq(X) /\ Len(rest) = n - from
  <2>1. from + 1 \in Int /\ n \in Int /\ \A i \in from + 1 .. n : kids[i] \in X
    BY <1>1
  <2>2. SubSeq(kids, from + 1, n) \in Seq(X) /\ Len(SubSeq(kids, from + 1, n)) = IF from + 1 <= n THEN n - (from + 1) + 1 ELSE 0
    BY <2>1, SubSeqProperties
  <2>3. Len(SubSeq(kids, from + 1, n)) = n - from
    BY <1>1, <2>2
  <2> QED BY <2>2, <2>3
<1>3. PICK p : p = Min({Len(rest), room})
  OBVIOUS
<1>4. PICK a \in Nat : a = n - from
  <2>1. n - from \in Nat
    BY <1>1
  <2> QED BY <2>1
<1>5. p \in Nat /\ p <= a
  <2>2. \E x \in {a, room} : \A y \in {a, room} : x <= y
    <3>1. CASE a <= room
      BY <3>1
    <3>2. CASE room <= a
      BY <3>2
    <3> QED BY <3>1, <3>2
  <2>3. Min({a, room}) \in {a, room} /\ \A y \in {a, room} : Min({a, room}) <= y
    BY <2>2 DEF Min
  <2> QED BY <1>2, <1>3, <1>4, <2>3
<1>6. PICK page : page = SubSeq(rest, 1, p) /\ Len(page) = p
  BY <1>2, <1>4, <1>5, StartIs
<1>7. page = SubSeq(kids, from + 1, from + p)
  <2>1. CASE p = 0
    <3>1. SubSeq(rest, 1, p) = <<>> /\ SubSeq(kids, from + 1, from + p) = <<>>
      BY <2>1, SubSeqEmpty
    <3> QED BY <1>6, <3>1
  <2>2. CASE p # 0
    <3>1. PICK i \in 1 .. Len(kids), j \in 1 .. Len(kids) : i = from + 1 /\ j = n
      BY <1>1, <1>4, <1>5, <2>2
    <3>2. 1 \in 1 .. j - i + 1 /\ p \in 1 .. j - i + 1 /\ i + 1 - 1 = from + 1 /\ i + p - 1 = from + p
      BY <1>1, <1>4, <1>5, <2>2, <3>1
    <3>3. SubSeq(SubSeq(kids, i, j), 1, p) = SubSeq(kids, i + 1 - 1, i + p - 1)
      BY <3>2, SubSeqOfSubSeq
    <3> QED BY <1>2, <1>6, <3>1, <3>2, <3>3
  <2> QED BY <2>1, <2>2
<1>8. rest = RestOf(kids, from) /\ page = PageOf(rest, room)
  BY <1>1, <1>2, <1>3, <1>6 DEF RestOf, PageOf
<1>9. from + p \in Nat /\ from <= from + p /\ from + p <= Len(kids) /\ p = (from + p) - from /\ n = Len(kids)
  BY <1>1, <1>4, <1>5
<1> QED BY <1>2, <1>6, <1>7, <1>8, <1>9

\* A walk begins well,
LEMMA WalkStarts ==
  ASSUME NEW tree, IsTree(tree), NEW w0 \in Wires(tree), NEW first \in Nat, NEW s,
         s = [queue |-> << <<w0, first>> >>, nodes |-> [x \in {w0} |-> [tree.nodes[w0] EXCEPT !.kids = <<>>]]]
  PROVE  WalkOK(tree, w0, s) /\ WalkReads(tree, w0, first, s)
<1>1. PICK node : node = tree.nodes[w0] /\ IsNode(node)
  BY DEF IsTree
<1>2. PICK bare : bare = [node EXCEPT !.kids = <<>>]
  OBVIOUS
<1>3. Alike(bare, node) /\ bare.kids = <<>> /\ bare.live = node.live
  BY <1>1, <1>2 DEF Alike, IsNode
<1>4. Met(s) = {w0} /\ s.nodes[w0] = bare /\ s.queue = << <<w0, first>> >>
  BY <1>1, <1>2 DEF Met
<1>5. s.queue \in Seq(Met(s) \X Nat) /\ DOMAIN s.queue = {1} /\ s.queue[1] = <<w0, first>>
  BY <1>4
<1>6. Queued(s) = {w0}
  BY <1>5 DEF Queued
<1>7. <<>> \in Seq(Met(s)) /\ ToSet(<<>>) = {}
  BY DEF ToSet
<1>8. Met(s) \subseteq Wires(tree) /\ w0 \in Met(s) /\ \A x \in Met(s) : x = w0
  BY <1>4
<1>9. \A i, j \in DOMAIN s.queue : i = j
  BY <1>5
<1>10. s.nodes[w0].kids = <<>> /\ Alike(s.nodes[w0], tree.nodes[w0])
  BY <1>1, <1>3, <1>4
<1>11. \A x \in Met(s) : /\ Alike(s.nodes[x], tree.nodes[x]) /\ s.nodes[x].kids \in Seq(Met(s))
                          /\ ToSet(s.nodes[x].kids) \subseteq ToSet(Kids(tree, x))
  BY <1>7, <1>8, <1>10
<1>12. \A T \in SUBSET Met(s) : w0 \in T => T = Met(s)
  BY <1>8
<1>13. \A x \in Queued(s) : s.nodes[x].kids = <<>>
  BY <1>6, <1>10
<1>14. WalkOK(tree, w0, s)
  BY <1>5, <1>8, <1>9, <1>11, <1>12, <1>13 DEF WalkOK
<1>15. \A i \in DOMAIN s.queue : s.queue[i][2] = From(w0, first, s.queue[i][1])
  BY <1>5 DEF From
<1>16. \A x \in Met(s) : x \in Queued(s) /\ s.nodes[x].live = tree.nodes[x].live
  BY <1>1, <1>3, <1>4, <1>6
<1> QED BY <1>14, <1>15, <1>16 DEF WalkReads

\* and a step of it keeps what WalkOK says.
LEMMA WalkGoesOn ==
  ASSUME NEW tree, IsTree(tree), NEW w0 \in Wires(tree), NEW limit \in Nat, NEW s, WalkOK(tree, w0, s),
         s.queue # <<>>, Cardinality(Met(s)) < limit
  PROVE  /\ WalkOK(tree, w0, WalkStep(tree, s, limit))
         /\ \A first \in Nat : (first <= Len(Kids(tree, w0)) /\ WalkReads(tree, w0, first, s)) =>
              WalkReads(tree, w0, first, WalkStep(tree, s, limit))
<1> DEFINE w == Head(s.queue)[1]
           from == Head(s.queue)[2]
           rest == SubSeq(Kids(tree, w), from + 1, Len(Kids(tree, w)))
           page == SubSeq(rest, 1, Min({Len(rest), limit - Cardinality(DOMAIN s.nodes)}))
           more == Len(page) < Len(rest)
           tail == [i \in DOMAIN page |-> <<page[i], 0>>]
           Tell(x) == IF x = w THEN [s.nodes[w] EXCEPT !.kids = page, !.trunc = more, !.next = IF more THEN from + Len(page) ELSE 0]
                      ELSE IF x \in DOMAIN s.nodes THEN s.nodes[x]
                      ELSE [tree.nodes[x] EXCEPT !.kids = <<>>]
           told == [x \in DOMAIN s.nodes \cup ToSet(page) |-> Tell(x)]
           next == WalkStep(tree, s, limit)
<1>0. next = [queue |-> Tail(s.queue) \o tail, nodes |-> Table(told)]
  BY Zenon DEF WalkStep
<1>1. /\ w = Head(s.queue)[1] /\ from = Head(s.queue)[2] /\ Met(s) = DOMAIN s.nodes
      /\ rest = SubSeq(Kids(tree, w), from + 1, Len(Kids(tree, w)))
      /\ page = SubSeq(rest, 1, Min({Len(rest), limit - Cardinality(Met(s))}))
      /\ more <=> Len(page) < Len(rest)
  BY DEF Met
<1> HIDE DEF w, from, rest, page, more, told, next
<1>2. PICK len \in Nat : len = Len(s.queue) /\ DOMAIN s.queue = 1 .. len /\ len >= 1
  BY DEF WalkOK
<1>3. Head(s.queue) = s.queue[1] /\ s.queue[1] \in Met(s) \X Nat
  BY <1>2 DEF WalkOK
<1>4. w = s.queue[1][1] /\ w \in Met(s) /\ from \in Nat /\ w \in Queued(s) /\ w \in Wires(tree)
  <2>1. w = s.queue[1][1] /\ from = s.queue[1][2]
    BY <1>1, <1>3
  <2>2. s.queue[1][1] \in Met(s) /\ s.queue[1][2] \in Nat /\ 1 \in DOMAIN s.queue
    BY <1>2, <1>3
  <2>3. Met(s) \subseteq Wires(tree)
    BY DEF WalkOK
  <2> QED BY <2>1, <2>2, <2>3 DEF Queued
<1>5. IsFiniteSet(Met(s)) /\ Cardinality(Met(s)) \in Nat
  BY FS_Subset, FS_CardinalityType DEF WalkOK, IsTree
<1>6. PICK room \in Nat : room = limit - Cardinality(Met(s))
  BY <1>5
<1>7. PICK kids : kids = Kids(tree, w) /\ kids \in Seq(Wires(tree)) /\ \A i, j \in DOMAIN kids : kids[i] = kids[j] => i = j
  BY <1>4 DEF IsTree
<1>8. rest = RestOf(kids, from) /\ page = PageOf(rest, room)
  BY <1>1, <1>6, <1>7 DEF RestOf, PageOf
<1>10. /\ page \in Seq(Wires(tree)) /\ Len(page) \in Nat /\ Len(rest) \in Nat /\ ToSet(page) \subseteq ToSet(kids)
       /\ \A i, j \in DOMAIN page : page[i] = page[j] => i = j
  <2>1. room \in Nat /\ from \in Nat /\ kids \in Seq(Wires(tree))
    BY <1>4, <1>6, <1>7
  <2>2. Once(kids)
    BY <1>7 DEF Once
  <2>3. PICK q, r : r = RestOf(kids, from) /\ q = PageOf(RestOf(kids, from), room)
    OBVIOUS
  <2>4. q \in Seq(Wires(tree)) /\ Len(q) \in Nat /\ Len(r) \in Nat /\ ToSet(q) \subseteq ToSet(kids) /\ Once(q)
    BY <2>1, <2>2, <2>3, PageIs
  <2> QED BY <1>8, <2>3, <2>4 DEF Once
<1>12. next.queue = Tail(s.queue) \o tail /\ next.nodes = [x \in Met(s) \cup ToSet(page) |-> Tell(x)]
  <2> HIDE DEF tail, Tell
  <2>1. next.queue = Tail(s.queue) \o tail /\ next.nodes = told
    BY <1>0, TableIs
  <2> QED BY <1>1, <2>1 DEF told
<1>13. Met(next) = Met(s) \cup ToSet(page) /\ \A x \in Met(next) : next.nodes[x] = Tell(x)
  BY <1>12 DEF Met
\* Who is on the page is met for the first time.
<1>14. \A x \in ToSet(page) : x \notin Met(s) /\ x \in Wires(tree)
  <2> SUFFICES ASSUME NEW x \in ToSet(page) PROVE x \notin Met(s) /\ x \in Wires(tree)
    OBVIOUS
  <2>1. x \in ToSet(Kids(tree, w)) /\ x \in Wires(tree)
    BY <1>7, <1>10, KidsIn
  <2>2. x # w0
    BY <1>4, <2>1, NoWayBack
  <2>3. ASSUME x \in Met(s) PROVE FALSE
    <3>1. PICK p \in Met(s) : p \notin Queued(s) /\ x \in ToSet(Kids(tree, p))
      BY <2>2, <2>3 DEF WalkOK
    <3>2. p \in Wires(tree)
      BY <3>1 DEF WalkOK
    <3>3. p = w
      BY <1>4, <2>1, <3>1, <3>2, ToSetIs DEF IsTree
    <3> QED BY <1>4, <3>1, <3>3
  <2> QED BY <2>1, <2>3
<1>15. /\ Alike(Tell(w), tree.nodes[w]) /\ Tell(w).kids = page /\ Tell(w).live = s.nodes[w].live
       /\ Tell(w).trunc = more /\ Tell(w).next = IF more THEN from + Len(page) ELSE 0
  <2>1. PICK n, k : n = s.nodes[w] /\ k = (IF more THEN from + Len(page) ELSE 0)
    OBVIOUS
  <2>2. Alike(n, tree.nodes[w]) /\ k \in Nat
    BY <1>4, <1>10, <2>1 DEF WalkOK
  <2>3. PICK m : m = [n EXCEPT !.kids = page, !.trunc = more, !.next = k]
    OBVIOUS
  <2>4. Alike(m, tree.nodes[w]) /\ m.kids = page /\ m.live = n.live /\ m.trunc = more /\ m.next = k
    BY <2>2, <2>3 DEF Alike, IsNode
  <2>5. Tell(w) = m
    BY <2>1, <2>3
  <2> HIDE DEF Tell
  <2> QED BY <2>1, <2>4, <2>5
<1>16. \A x \in Met(s) : x # w => Tell(x) = s.nodes[x]
  BY <1>1
<1>17. \A x \in ToSet(page) : Alike(Tell(x), tree.nodes[x]) /\ Tell(x).kids = <<>> /\ Tell(x).live = tree.nodes[x].live
  <2> SUFFICES ASSUME NEW x \in ToSet(page)
               PROVE  Alike(Tell(x), tree.nodes[x]) /\ Tell(x).kids = <<>> /\ Tell(x).live = tree.nodes[x].live
    OBVIOUS
  <2>1. PICK n : n = tree.nodes[x] /\ IsNode(n)
    BY <1>14 DEF IsTree
  <2>2. PICK m : m = [n EXCEPT !.kids = <<>>]
    OBVIOUS
  <2>3. Alike(m, n) /\ m.kids = <<>> /\ m.live = n.live
    BY <2>1, <2>2 DEF Alike, IsNode
  <2>4. x # w /\ x \notin Met(s)
    BY <1>4, <1>14
  <2>5. Tell(x) = m
    BY <1>1, <2>1, <2>2, <2>4
  <2> HIDE DEF Tell
  <2> QED BY <2>1, <2>3, <2>5
<1> HIDE DEF Tell
<1>18. Met(next) \subseteq Wires(tree) /\ w0 \in Met(next) /\ Met(s) \subseteq Met(next) /\ ToSet(page) \subseteq Met(next)
  BY <1>13, <1>14 DEF WalkOK
<1>19. /\ \A x \in Met(next) : Alike(next.nodes[x], tree.nodes[x])
       /\ next.nodes[w].kids = page
       /\ \A x \in Met(s) : x # w => next.nodes[x].kids = s.nodes[x].kids
       /\ \A x \in ToSet(page) : next.nodes[x].kids = <<>>
  <2>1. \A x \in Met(s) : Alike(s.nodes[x], tree.nodes[x])
    BY DEF WalkOK
  <2> QED BY <1>4, <1>13, <1>15, <1>16, <1>17, <1>18, <2>1
<1>20. \A x \in Met(next) : next.nodes[x].kids \in Seq(Met(next)) /\ ToSet(next.nodes[x].kids) \subseteq ToSet(Kids(tree, x))
  <2> SUFFICES ASSUME NEW x \in Met(next)
               PROVE  next.nodes[x].kids \in Seq(Met(next)) /\ ToSet(next.nodes[x].kids) \subseteq ToSet(Kids(tree, x))
    OBVIOUS
  <2>1. CASE x = w
    <3>1. page \in Seq(ToSet(page))
      <4>1. \A i \in 1 .. Len(page) : page[i] \in ToSet(page)
        BY <1>10, ToSetIs
      <4> QED BY <1>10, <4>1
    <3>2. page \in Seq(Met(next))
      BY <1>18, <3>1
    <3> QED BY <1>7, <1>10, <1>19, <2>1, <3>2
  <2>2. CASE x \in Met(s) /\ x # w
    <3>1. s.nodes[x].kids \in Seq(Met(s)) /\ ToSet(s.nodes[x].kids) \subseteq ToSet(Kids(tree, x))
      BY <2>2 DEF WalkOK
    <3>2. s.nodes[x].kids \in Seq(Met(next))
      BY <1>18, <3>1
    <3> QED BY <1>19, <2>2, <3>1, <3>2
  <2>3. CASE x \in ToSet(page)
    <3>1. <<>> \in Seq(Met(next)) /\ ToSet(<<>>) = {}
      BY DEF ToSet
    <3> QED BY <1>19, <2>3, <3>1
  <2> QED BY <1>13, <2>1, <2>2, <2>3
\* The queue.
<1>21. PICK k \in Nat : k = Len(page) /\ DOMAIN page = 1 .. k
  BY <1>10
<1>22. /\ next.queue \in Seq(Met(next) \X Nat) /\ DOMAIN next.queue = 1 .. (len - 1) + k
       /\ \A i \in 1 .. (len - 1) + k : next.queue[i] = IF i <= len - 1 THEN s.queue[i + 1] ELSE <<page[i - (len - 1)], 0>>
  <2>1. /\ Tail(s.queue) \in Seq(Met(next) \X Nat) /\ Len(Tail(s.queue)) = len - 1
        /\ \A i \in 1 .. len - 1 : Tail(s.queue)[i] = s.queue[i + 1]
    <3>1. s.queue \in Seq(Met(s) \X Nat) /\ s.queue # <<>>
      BY DEF WalkOK
    <3>2. s.queue \in Seq(Met(next) \X Nat)
      <4>1. Met(s) \X Nat \subseteq Met(next) \X Nat
        BY <1>18
      <4> QED BY <3>1, <4>1
    <3> QED BY <1>2, <3>2
  <2>2. tail \in Seq(Met(next) \X Nat) /\ Len(tail) = k /\ \A i \in 1 .. k : tail[i] = <<page[i], 0>>
    <3>1. \A i \in 1 .. k : page[i] \in Met(next)
      BY <1>18, <1>21, ToSetIs
    <3> QED BY <1>21, <3>1
  <2> HIDE DEF tail
  <2>3. \E m \in Nat : m = len - 1
    <3>1. len - 1 \in Nat
      BY <1>2
    <3> QED BY <3>1
  <2>8. PICK m \in Nat : m = len - 1
    BY <2>3
  <2>4. PICK q : q = Tail(s.queue) /\ q \in Seq(Met(next) \X Nat) /\ Len(q) = m /\ \A i \in 1 .. m : q[i] = s.queue[i + 1]
    BY <2>1, <2>8
  <2>5. /\ q \o tail \in Seq(Met(next) \X Nat) /\ DOMAIN (q \o tail) = 1 .. m + k
        /\ \A i \in 1 .. m + k : (q \o tail)[i] = IF i <= m THEN q[i] ELSE tail[i - m]
    <3>1. PICK t : t = tail
      OBVIOUS
    <3>2. t \in Seq(Met(next) \X Nat) /\ k = Len(t) /\ m = Len(q)
      BY <2>2, <2>4, <3>1
    <3>3. /\ q \o t \in Seq(Met(next) \X Nat) /\ DOMAIN (q \o t) = 1 .. m + k
          /\ \A i \in 1 .. m + k : (q \o t)[i] = IF i <= m THEN q[i] ELSE t[i - m]
      <4>1. PICK X : X = Met(next) \X Nat
        OBVIOUS
      <4>2. q \in Seq(X) /\ t \in Seq(X) /\ m = Len(q) /\ k = Len(t)
        BY <2>4, <3>2, <4>1
      <4>3. /\ q \o t \in Seq(X) /\ DOMAIN (q \o t) = 1 .. m + k
            /\ \A i \in 1 .. m + k : (q \o t)[i] = IF i <= m THEN q[i] ELSE t[i - m]
        BY <4>2, JoinedAt
      <4> QED BY <4>1, <4>3
    <3> QED BY <3>1, <3>3
  <2>6. \A i \in 1 .. m + k : IF i <= m THEN q[i] = s.queue[i + 1] ELSE tail[i - m] = <<page[i - m], 0>>
    <3> SUFFICES ASSUME NEW i \in 1 .. m + k PROVE IF i <= m THEN q[i] = s.queue[i + 1] ELSE tail[i - m] = <<page[i - m], 0>>
      OBVIOUS
    <3>1. CASE i <= m
      BY <2>4, <3>1
    <3>2. CASE ~(i <= m)
      <4>1. i - m \in 1 .. k
        BY <3>2
      <4> QED BY <2>2, <3>2, <4>1
    <3> QED BY <3>1, <3>2
  <2>7. next.queue = q \o tail
    BY <1>12, <2>4
  <2> QED BY <2>5, <2>6, <2>7, <2>8
<1>23. \A i \in DOMAIN next.queue : next.queue[i][1] = IF i <= len - 1 THEN s.queue[i + 1][1] ELSE page[i - (len - 1)]
  <2>1. \A x : <<x, 0>>[1] = x
    OBVIOUS
  <2> QED BY <1>22, <2>1
<1>24. \A i \in 1 .. len - 1 : i + 1 \in DOMAIN s.queue /\ s.queue[i + 1][1] \in Met(s)
  <2>1. \A i \in DOMAIN s.queue : s.queue[i] \in Met(s) \X Nat
    BY DEF WalkOK
  <2> QED BY <1>2, <2>1
<1>25. \A i \in DOMAIN next.queue : ~(i <= len - 1) => i - (len - 1) \in DOMAIN page /\ page[i - (len - 1)] \in ToSet(page)
  BY <1>2, <1>21, <1>22, ToSetIs
<1>26. \A i, j \in DOMAIN next.queue : next.queue[i][1] = next.queue[j][1] => i = j
  <2> SUFFICES ASSUME NEW i \in DOMAIN next.queue, NEW j \in DOMAIN next.queue, next.queue[i][1] = next.queue[j][1] PROVE i = j
    OBVIOUS
  <2>1. i \in Nat /\ j \in Nat /\ i >= 1 /\ j >= 1
    BY <1>2, <1>22
  <2>2. CASE i <= len - 1 /\ j <= len - 1
    <3>1. i + 1 \in DOMAIN s.queue /\ j + 1 \in DOMAIN s.queue /\ s.queue[i + 1][1] = s.queue[j + 1][1]
      BY <1>2, <1>23, <1>24, <2>1, <2>2
    <3>2. i + 1 = j + 1
      BY <3>1 DEF WalkOK
    <3> QED BY <2>1, <3>2
  <2>3. CASE ~(i <= len - 1) /\ ~(j <= len - 1)
    <3>1. i - (len - 1) = j - (len - 1)
      BY <1>10, <1>23, <1>25, <2>3
    <3> QED BY <1>2, <2>1, <3>1
  <2>4. CASE (i <= len - 1) # (j <= len - 1)
    BY <1>14, <1>23, <1>24, <1>25, <2>1, <2>4
  <2> QED BY <2>2, <2>3, <2>4
<1>27. /\ \A x \in Queued(next) : (x \in Queued(s) /\ x # w) \/ x \in ToSet(page)
       /\ w \notin Queued(next)
  <2>1. \A i \in DOMAIN next.queue : (next.queue[i][1] \in Queued(s) /\ next.queue[i][1] # w) \/ next.queue[i][1] \in ToSet(page)
    <3> SUFFICES ASSUME NEW i \in DOMAIN next.queue
                 PROVE  (next.queue[i][1] \in Queued(s) /\ next.queue[i][1] # w) \/ next.queue[i][1] \in ToSet(page)
      OBVIOUS
    <3>1. CASE i <= len - 1
      <4>1. i \in 1 .. len - 1 /\ i + 1 # 1
        BY <1>2, <1>22, <3>1
      <4>2. i + 1 \in DOMAIN s.queue /\ 1 \in DOMAIN s.queue /\ i + 1 # 1
        BY <1>2, <1>24, <4>1
      <4>3. s.queue[i + 1][1] # w
        BY <1>4, <4>2 DEF WalkOK
      <4> QED BY <1>23, <3>1, <4>2, <4>3 DEF Queued
    <3>2. CASE ~(i <= len - 1)
      BY <1>23, <1>25, <3>2
    <3> QED BY <3>1, <3>2
  <2>2. w \notin ToSet(page)
    BY <1>4, <1>14
  <2> QED BY <2>1, <2>2 DEF Queued
<1>28. \A x \in Queued(next) : next.nodes[x].kids = <<>>
  <2>1. \A x \in Queued(s) : x \in Met(s) /\ s.nodes[x].kids = <<>>
    <3>1. \A i \in DOMAIN s.queue : s.queue[i][1] \in Met(s)
      BY DEF WalkOK
    <3> QED BY <3>1 DEF WalkOK, Queued
  <2> QED BY <1>19, <1>27, <2>1
<1>29. \A x \in Met(next) : x # w0 => \E p \in Met(next) : p \notin Queued(next) /\ x \in ToSet(Kids(tree, p))
  <2> SUFFICES ASSUME NEW x \in Met(next), x # w0
               PROVE  \E p \in Met(next) : p \notin Queued(next) /\ x \in ToSet(Kids(tree, p))
    OBVIOUS
  <2>1. CASE x \in ToSet(page)
    BY <1>4, <1>7, <1>10, <1>18, <1>27, <2>1
  <2>2. CASE x \in Met(s)
    <3>1. PICK p \in Met(s) : p \notin Queued(s) /\ x \in ToSet(Kids(tree, p))
      BY <2>2 DEF WalkOK
    <3> QED BY <1>14, <1>18, <1>27, <3>1
  <2> QED BY <1>13, <2>1, <2>2
\* Everything hangs from where the walk began.
<1>30. ASSUME NEW T \in SUBSET Met(next), w0 \in T, \A x \in T : ToSet(next.nodes[x].kids) \subseteq T PROVE T = Met(next)
  <2>1. PICK U : U = T \cap Met(s)
    OBVIOUS
  <2>2. w0 \in U /\ U \in SUBSET Met(s)
    BY <1>30, <2>1 DEF WalkOK
  <2>3. \A x \in U : ToSet(s.nodes[x].kids) \subseteq U
    <3> SUFFICES ASSUME NEW x \in U PROVE ToSet(s.nodes[x].kids) \subseteq U
      OBVIOUS
    <3>1. CASE x = w
      <4>1. s.nodes[w].kids = <<>>
        BY <1>4 DEF WalkOK
      <4> QED BY <3>1, <4>1 DEF ToSet
    <3>2. CASE x # w
      <4>1. x \in Met(s) /\ x \in T /\ next.nodes[x].kids = s.nodes[x].kids
        BY <1>19, <2>1, <3>2
      <4>2. s.nodes[x].kids \in Seq(Met(s))
        BY <4>1 DEF WalkOK
      <4> QED BY <1>30, <2>1, <4>1, <4>2, KidsIn
    <3> QED BY <3>1, <3>2
  <2>4. U = Met(s)
    BY <2>2, <2>3 DEF WalkOK
  <2>5. w \in T /\ ToSet(page) \subseteq T
    BY <1>4, <1>19, <1>30, <2>1, <2>4
  <2> QED BY <1>13, <2>1, <2>4, <2>5
<1>31. /\ Met(next) \subseteq Wires(tree) /\ w0 \in Met(next)
       /\ \A x \in Met(next) : /\ Alike(next.nodes[x], tree.nodes[x]) /\ next.nodes[x].kids \in Seq(Met(next))
                               /\ ToSet(next.nodes[x].kids) \subseteq ToSet(Kids(tree, x))
       /\ next.queue \in Seq(Met(next) \X Nat)
  BY <1>18, <1>19, <1>20, <1>22
<1>32. WalkOK(tree, w0, next)
  BY <1>26, <1>28, <1>29, <1>30, <1>31 DEF WalkOK
\* What was read.
<1>33. ASSUME NEW first \in Nat, first <= Len(Kids(tree, w0)), WalkReads(tree, w0, first, s)
       PROVE  WalkReads(tree, w0, first, next)
  <2>1. from = From(w0, first, w)
    <3>1. 1 \in DOMAIN s.queue
      BY <1>2
    <3>2. s.queue[1][2] = From(w0, first, s.queue[1][1])
      BY <1>33, <3>1 DEF WalkReads
    <3> QED BY <1>1, <1>3, <3>2
  <2>2. from <= Len(kids) /\ Len(kids) \in Nat
    BY <1>7, <1>33, <2>1 DEF From
  <2>3. PICK m \in Nat : /\ from <= m /\ m <= Len(kids) /\ page = SubSeq(kids, from + 1, m)
                         /\ Len(page) = m - from /\ Len(rest) = Len(kids) - from
    BY <1>4, <1>6, <1>7, <1>8, <2>2, PageReads
  <2>4. HasPage(tree, w, next.nodes[w], from)
    <3>1. PICK n : n = next.nodes[w] /\ n.kids = page /\ n.trunc = more /\ n.next = IF more THEN from + Len(page) ELSE 0
      BY <1>4, <1>13, <1>15
    <3>2. IF n.trunc THEN n.next = m ELSE n.next = 0 /\ m = Len(kids)
      <4>1. PICK a, b, size : a = Len(page) /\ b = Len(rest) /\ size = Len(kids)
        OBVIOUS
      <4>2. more <=> a < b
        BY <1>1, <4>1, Zenon
      <4>3. a = m - from /\ b = size - from /\ m \in Nat /\ size \in Nat /\ from \in Nat /\ m <= size
        BY <1>4, <2>2, <2>3, <4>1
      <4>4. CASE a < b
        <5>1. n.trunc /\ n.next = from + a
          BY <3>1, <4>1, <4>2, <4>4, Zenon
        <5>2. from + a = m
          BY <4>3
        <5> QED BY <5>1, <5>2, Zenon
      <4>5. CASE ~(a < b)
        <5>1. ~n.trunc /\ n.next = 0
          BY <3>1, <4>1, <4>2, <4>5, Zenon
        <5>2. m = size
          BY <4>3, <4>5
        <5> QED BY <4>1, <5>1, <5>2, Zenon
      <4> QED BY <4>4, <4>5
    <3> QED BY <1>7, <2>3, <3>1, <3>2 DEF HasPage
  <2>5. \A i \in DOMAIN next.queue : next.queue[i][2] = From(w0, first, next.queue[i][1])
    <3> SUFFICES ASSUME NEW i \in DOMAIN next.queue PROVE next.queue[i][2] = From(w0, first, next.queue[i][1])
      OBVIOUS
    <3>1. CASE i <= len - 1
      <4>1. i \in 1 .. len - 1 /\ next.queue[i] = s.queue[i + 1]
        <5>1. i \in 1 .. (len - 1) + k
          BY <1>22
        <5>2. i \in 1 .. len - 1
          BY <1>2, <3>1, <5>1
        <5> QED BY <1>22, <3>1, <5>1, <5>2
      <4>2. i + 1 \in DOMAIN s.queue
        BY <1>24, <4>1
      <4> QED BY <1>33, <4>1, <4>2 DEF WalkReads
    <3>2. CASE ~(i <= len - 1)
      <4>1. PICK x : x = page[i - (len - 1)] /\ x \in ToSet(page)
        BY <1>25, <3>2
      <4>2. next.queue[i] = <<x, 0>>
        BY <1>22, <3>2, <4>1
      <4>3. x # w0
        BY <1>14, <4>1 DEF WalkOK
      <4> QED BY <4>2, <4>3 DEF From
    <3> QED BY <3>1, <3>2
  <2>6. /\ \A x \in Queued(s) : x # w => x \in Queued(next)
        /\ \A x \in ToSet(page) : x \in Queued(next)
    <3>1. ASSUME NEW x \in Queued(s), x # w PROVE x \in Queued(next)
      <4>1. PICK j \in DOMAIN s.queue : s.queue[j][1] = x
        BY DEF Queued
      <4>2. j - 1 \in 1 .. (len - 1) + k /\ j - 1 <= len - 1 /\ (j - 1) + 1 = j
        <5>1. j # 1 /\ j \in 1 .. len
          BY <1>2, <1>4, <3>1, <4>1
        <5> QED BY <5>1
      <4>3. next.queue[j - 1][1] = x /\ j - 1 \in DOMAIN next.queue
        BY <1>22, <1>23, <4>1, <4>2
      <4> QED BY <4>3 DEF Queued
    <3>2. ASSUME NEW x \in ToSet(page) PROVE x \in Queued(next)
      <4>1. PICK j \in 1 .. k : page[j] = x
        BY <1>21, ToSetIs
      <4>2. PICK i : i = (len - 1) + j /\ i \in 1 .. (len - 1) + k /\ ~(i <= len - 1) /\ i - (len - 1) = j
        <5>1. PICK i : i = (len - 1) + j
          OBVIOUS
        <5>2. len \in Nat /\ len >= 1 /\ k \in Nat /\ j \in Nat /\ 1 <= j /\ j <= k
          BY <1>2, <1>21, <4>1
        <5>3. i \in 1 .. (len - 1) + k /\ ~(i <= len - 1) /\ i - (len - 1) = j
          BY <5>1, <5>2
        <5> QED BY <5>1, <5>3
      <4>3. next.queue[i][1] = x /\ i \in DOMAIN next.queue
        BY <1>22, <1>23, <4>1, <4>2
      <4> QED BY <4>3 DEF Queued
    <3> QED BY <3>1, <3>2
  <2>7. ASSUME NEW x \in Met(next)
        PROVE  /\ next.nodes[x].live = tree.nodes[x].live
               /\ x \notin Queued(next) => HasPage(tree, x, next.nodes[x], From(w0, first, x))
    <3>1. CASE x = w
      <4>1. next.nodes[x].live = tree.nodes[x].live
        BY <1>4, <1>13, <1>15, <1>33, <2>7, <3>1 DEF WalkReads
      <4> QED BY <2>1, <2>4, <3>1, <4>1
    <3>2. CASE x \in Met(s) /\ x # w
      <4>1. next.nodes[x] = s.nodes[x]
        BY <1>13, <1>16, <2>7, <3>2
      <4> QED BY <1>33, <2>6, <3>2, <4>1 DEF WalkReads
    <3>3. CASE x \in ToSet(page)
      BY <1>13, <1>17, <2>6, <2>7, <3>3
    <3> QED BY <1>13, <2>7, <3>1, <3>2, <3>3
  <2> QED BY <2>5, <2>7 DEF WalkReads
<1> QED BY <1>32, <1>33 DEF next

NextWalk(tree, s, limit) ==
  IF s.queue = <<>> \/ Cardinality(DOMAIN s.nodes) >= limit THEN s ELSE WalkStep(tree, s, limit)
WalkStart(tree, w0, first) == [queue |-> << <<w0, first>> >>, nodes |-> [x \in {w0} |-> [tree.nodes[w0] EXCEPT !.kids = <<>>]]]
WalkUpTo(f, tree, w0, first, limit, n) ==
  f = [k \in 0 .. n |-> IF k = 0 THEN WalkStart(tree, w0, first) ELSE NextWalk(tree, f[k - 1], limit)]
Entries(s, x) == {j \in DOMAIN s.queue : s.queue[j][1] = x}
Ended(s) ==
  [x \in DOMAIN s.nodes |->
     IF Entries(s, x) = {} THEN s.nodes[x]
     ELSE [s.nodes[x] EXCEPT !.trunc = TRUE, !.next = s.queue[CHOOSE j \in Entries(s, x) : TRUE][2]]]

\* The recursive definition in Walk has a solution.
LEMMA WalkExists == ASSUME NEW tree, NEW w0, NEW first, NEW limit, NEW n \in Nat PROVE \E f : WalkUpTo(f, tree, w0, first, limit, n)
<1> DEFINE S == {m \in Nat : \E f : WalkUpTo(f, tree, w0, first, limit, m)}
           Go(f, k) == IF k = 0 THEN WalkStart(tree, w0, first) ELSE NextWalk(tree, f[k - 1], limit)
<1>1. 0 \in S
  <2> DEFINE f == [k \in 0 .. 0 |-> WalkStart(tree, w0, first)]
  <2>1. WalkUpTo(f, tree, w0, first, limit, 0)
    BY DEF WalkUpTo
  <2> QED BY <2>1
<1>2. ASSUME NEW m \in Nat, m \in S PROVE m + 1 \in S
  <2>1. PICK f : WalkUpTo(f, tree, w0, first, limit, m)
    BY <1>2
  <2> DEFINE g == [k \in 0 .. m + 1 |-> IF k = m + 1 THEN NextWalk(tree, f[m], limit) ELSE f[k]]
  <2>2. \A k \in 0 .. m : f[k] = Go(f, k)
    BY <2>1, Zenon DEF WalkUpTo
  <2>3. ASSUME NEW k \in 0 .. m + 1 PROVE g[k] = Go(g, k)
    <3>1. CASE k = m + 1
      <4>1. g[k] = NextWalk(tree, f[m], limit) /\ k # 0 /\ g[k - 1] = f[m]
        BY <3>1
      <4> HIDE DEF g
      <4> QED BY <4>1
    <3>2. CASE k # m + 1
      <4>1. k \in 0 .. m /\ g[k] = f[k] /\ (k # 0 => g[k - 1] = f[k - 1])
        BY <3>2
      <4> HIDE DEF g
      <4> QED BY <2>2, <4>1
    <3> QED BY <3>1, <3>2
  <2>4. g = [k \in 0 .. m + 1 |-> Go(g, k)]
    <3>1. g = [k \in 0 .. m + 1 |-> g[k]]
      OBVIOUS
    <3> HIDE DEF g
    <3> QED BY <2>3, <3>1
  <2>5. WalkUpTo(g, tree, w0, first, limit, m + 1)
    BY <2>4, Zenon DEF WalkUpTo
  <2> HIDE DEF g
  <2> QED BY <2>5
<1>3. n \in S
  <2> HIDE DEF S
  <2> QED BY <1>1, <1>2, SetInduction
<1> QED BY <1>3

\* The walk is what its last step left.
LEMMA WalkEnds ==
  ASSUME NEW tree, IsTree(tree), NEW w0 \in Wires(tree), NEW first \in Nat, NEW limit \in Nat
  PROVE  \E s : /\ WalkOK(tree, w0, s) /\ Walk(tree, w0, first, limit) = Ended(s)
                /\ first <= Len(Kids(tree, w0)) => WalkReads(tree, w0, first, s)
<1> DEFINE N == Cardinality(Wires(tree))
           walked == CHOOSE f : WalkUpTo(f, tree, w0, first, limit, N)
<1>1. N \in Nat
  BY FS_CardinalityType DEF IsTree
<1>2. WalkUpTo(walked, tree, w0, first, limit, N)
  <2> HIDE DEF N
  <2> QED BY <1>1, WalkExists
<1>3. Walk(tree, w0, first, limit) = Table(Ended(walked[N]))
  BY Zenon DEF Walk, WalkUpTo, NextWalk, WalkStart, Ended, Entries
<1>4. Walk(tree, w0, first, limit) = Ended(walked[N])
  BY <1>3, TableIs
<1> HIDE DEF walked, N
<1>5. \A k \in 0 .. N : walked[k] = IF k = 0 THEN WalkStart(tree, w0, first) ELSE NextWalk(tree, walked[k - 1], limit)
  BY <1>2, Zenon DEF WalkUpTo
<1> DEFINE Good(s) == WalkOK(tree, w0, s) /\ (first <= Len(Kids(tree, w0)) => WalkReads(tree, w0, first, s))
           S == {k \in Nat : k <= N => Good(walked[k])}
<1>6. 0 \in S
  <2>1. walked[0] = WalkStart(tree, w0, first)
    BY <1>1, <1>5
  <2>2. Good(WalkStart(tree, w0, first))
    BY WalkStarts DEF WalkStart
  <2> QED BY <2>1, <2>2
<1>7. ASSUME NEW k \in Nat, k \in S PROVE k + 1 \in S
  <2> SUFFICES ASSUME k + 1 <= N PROVE Good(walked[k + 1])
    OBVIOUS
  <2>1. PICK s : s = walked[k]
    OBVIOUS
  <2>2. Good(s) /\ walked[k + 1] = NextWalk(tree, s, limit)
    BY <1>1, <1>5, <1>7, <2>1
  <2>3. CASE s.queue = <<>> \/ Cardinality(DOMAIN s.nodes) >= limit
    BY <2>2, <2>3 DEF NextWalk
  <2>4. CASE ~(s.queue = <<>> \/ Cardinality(DOMAIN s.nodes) >= limit)
    <3>1. Cardinality(Met(s)) \in Nat
      BY <2>2, FS_Subset, FS_CardinalityType DEF WalkOK, IsTree
    <3>2. s.queue # <<>> /\ Cardinality(Met(s)) < limit
      BY <2>4, <3>1 DEF Met
    <3> QED BY <2>2, <2>4, <3>2, WalkGoesOn DEF NextWalk
  <2> QED BY <2>3, <2>4
<1>8. N \in S
  <2> HIDE DEF S
  <2> QED BY <1>1, <1>6, <1>7, SetInduction
<1>9. Good(walked[N])
  BY <1>1, <1>8
<1> QED BY <1>4, <1>9

\* A look: a finite tree whose elements all hang from its root, which is the
\* child of none of them.
IsLook(o) ==
  /\ o = [root |-> o.root, nodes |-> o.nodes] /\ IsFiniteSet(Wires(o))
  /\ \A x \in Wires(o) : IsNode(o.nodes[x])
  /\ Closed(o) /\ Connected(o)
  /\ \A x \in Wires(o) : o.root \notin ToSet(Kids(o, x))

\* Every bounded look at a tree is a look, from the element that was asked for.
LEMMA LooksAre ==
  ASSUME NEW tree, IsTree(tree), NEW w0 \in Wires(tree), NEW first \in Nat, NEW look \in BoundedLooks(tree, w0, first)
  PROVE  IsLook(look) /\ look.root = w0
<1>1. PICK limit \in Slices : look = [root |-> w0, nodes |-> Walk(tree, w0, first, limit)]
  BY DEF BoundedLooks
<1>2. limit \in Nat
  BY <1>1, ObservationAssumption
<1>3. PICK s : WalkOK(tree, w0, s) /\ Walk(tree, w0, first, limit) = Ended(s)
  BY <1>2, WalkEnds
<1>4. look = [root |-> look.root, nodes |-> look.nodes] /\ look.root = w0 /\ look.nodes = Ended(s)
  BY <1>1, <1>3
<1>5. Wires(look) = Met(s) /\ \A x \in Met(s) : look.nodes[x] = Ended(s)[x]
  BY <1>4 DEF Ended, Met, Wires
<1>6. \A x \in Met(s) : IsNode(look.nodes[x]) /\ Kids(look, x) = s.nodes[x].kids
  <2> SUFFICES ASSUME NEW x \in Met(s) PROVE IsNode(look.nodes[x]) /\ Kids(look, x) = s.nodes[x].kids
    OBVIOUS
  <2>1. PICK n : n = s.nodes[x] /\ IsNode(n)
    BY <1>3 DEF WalkOK, Alike
  <2>2. CASE Entries(s, x) = {}
    BY <1>5, <2>1, <2>2 DEF Ended, Met, Kids
  <2>3. CASE Entries(s, x) # {}
    <3>1. PICK j : j = CHOOSE i \in Entries(s, x) : TRUE
      OBVIOUS
    <3>2. j \in DOMAIN s.queue
      BY <2>3, <3>1 DEF Entries
    <3>3. PICK k : k = s.queue[j][2]
      OBVIOUS
    <3>4. k \in Nat
      BY <1>3, <3>2, <3>3 DEF WalkOK
    <3>5. PICK m : m = [n EXCEPT !.trunc = TRUE, !.next = k]
      OBVIOUS
    <3>6. IsNode(m) /\ m.kids = n.kids
      BY <2>1, <3>4, <3>5 DEF IsNode
    <3>7. Ended(s)[x] = m
      BY <2>1, <2>3, <3>1, <3>3, <3>5 DEF Ended, Met
    <3> QED BY <1>5, <2>1, <3>6, <3>7 DEF Kids
  <2> QED BY <2>2, <2>3
<1>7. IsFiniteSet(Wires(look))
  BY <1>3, <1>5, FS_Subset DEF WalkOK, IsTree
<1>8. Closed(look) /\ Connected(look)
  <2>1. w0 \in Met(s) /\ \A x \in Met(s) : s.nodes[x].kids \in Seq(Met(s))
    BY <1>3 DEF WalkOK
  <2>2. ASSUME NEW T \in SUBSET Met(s), w0 \in T, \A x \in T : ToSet(Kids(look, x)) \subseteq T PROVE T = Met(s)
    <3>1. \A x \in T : ToSet(s.nodes[x].kids) \subseteq T
      BY <1>6, <2>2
    <3> QED BY <1>3, <2>2, <3>1 DEF WalkOK
  <2> QED BY <1>4, <1>5, <1>6, <2>1, <2>2 DEF Closed, Connected
<1>9. \A x \in Met(s) : w0 \notin ToSet(Kids(look, x))
  <2>1. \A x \in Met(s) : w0 \notin ToSet(Kids(tree, x))
    BY <1>3, NoWayBack
  <2>2. \A x \in Met(s) : ToSet(s.nodes[x].kids) \subseteq ToSet(Kids(tree, x))
    BY <1>3 DEF WalkOK
  <2> QED BY <1>6, <2>1, <2>2
<1> QED BY <1>4, <1>5, <1>6, <1>7, <1>8, <1>9 DEF IsLook

--------------------------------------------------------------------------------
(* Naming: every outline the code makes gives each element a ref of its own.  *)

\* What is left when detached documents are taken out still is a look.
LEMMA PruneIs == ASSUME NEW o, IsLook(o) PROVE IsLook(PruneDetachedWebAreas(o))
<1> DEFINE gone == UNION {Below(o, w) : w \in Detached(o)}
           L == Wires(o) \ gone
           p == PruneDetachedWebAreas(o)
<1>1. p = [o EXCEPT !.nodes = Table([w \in L |-> [o.nodes[w] EXCEPT !.kids = Only(@, L)]])]
  BY Zenon DEF PruneDetachedWebAreas
<1>2. Detached(o) \subseteq Wires(o) \ {o.root}
  BY DEF Detached, WebAreas
<1>3. \A x \in Wires(o) : Kids(o, x) \in Seq(Wires(o)) /\ ToSet(Kids(o, x)) \subseteq Wires(o) /\ o.root \notin ToSet(Kids(o, x))
  BY KidsIn DEF IsLook, Closed
<1>4. gone \subseteq Wires(o) /\ o.root \notin gone
  <2>1. \A w \in Wires(o) \ {o.root} : Below(o, w) \subseteq Wires(o) \ {o.root}
    <3> SUFFICES ASSUME NEW w \in Wires(o) \ {o.root} PROVE Below(o, w) \subseteq Wires(o) \ {o.root}
      OBVIOUS
    <3>1. PICK T : T = Wires(o) \ {o.root}
      OBVIOUS
    <3>2. \A x \in T : Kids(o, x) \in Seq(T)
      <4> SUFFICES ASSUME NEW x \in T PROVE Kids(o, x) \in Seq(T)
        OBVIOUS
      <4>1. PICK kids : kids = Kids(o, x) /\ kids \in Seq(Wires(o)) /\ o.root \notin ToSet(kids)
        BY <1>3, <3>1
      <4>2. \A i \in 1 .. Len(kids) : kids[i] \in T
        BY <3>1, <4>1, ToSetIs
      <4>3. kids \in Seq(T)
        BY <4>1, <4>2
      <4> QED BY <4>1, <4>3
    <3>3. LevelsFrom(o, <<w>>) \in Seq(T)
      BY <3>1, <3>2, LevelsIn DEF IsLook
    <3> QED BY <3>1, <3>3, KidsIn DEF Below
  <2> QED BY <1>2, <2>1
<1>5. \A x \in gone : ToSet(Kids(o, x)) \subseteq gone
  <2> SUFFICES ASSUME NEW w \in Detached(o), NEW x \in Below(o, w) PROVE ToSet(Kids(o, x)) \subseteq gone
    OBVIOUS
  <2>1. ToSet(Kids(o, x)) \subseteq Below(o, w)
    BY <1>2, BelowIs DEF IsLook
  <2> QED BY <2>1
<1> HIDE DEF gone, p
<1>6. p.root = o.root /\ p.nodes = [w \in L |-> [o.nodes[w] EXCEPT !.kids = Only(@, L)]] /\ p = [root |-> p.root, nodes |-> p.nodes]
  <2>1. o = [root |-> o.root, nodes |-> o.nodes]
    BY DEF IsLook
  <2>2. PICK t : t = [w \in L |-> [o.nodes[w] EXCEPT !.kids = Only(@, L)]]
    OBVIOUS
  <2>3. p = [o EXCEPT !.nodes = t]
    BY <1>1, <2>2, TableIs
  <2>4. p.root = o.root /\ p.nodes = t /\ p = [root |-> p.root, nodes |-> p.nodes]
    BY <2>1, <2>3
  <2> QED BY <2>2, <2>4
<1>7. Wires(p) = L /\ \A w \in L : p.nodes[w] = [o.nodes[w] EXCEPT !.kids = Only(@, L)]
  BY <1>6 DEF Wires
<1>8. \A w \in L : /\ IsNode(p.nodes[w]) /\ Kids(p, w) \in Seq(L)
                   /\ \A y : y \in ToSet(Kids(p, w)) <=> y \in ToSet(Kids(o, w)) /\ y \in L
  <2> HIDE DEF L
  <2> SUFFICES ASSUME NEW w \in L
               PROVE  /\ IsNode(p.nodes[w]) /\ Kids(p, w) \in Seq(L)
                      /\ \A y : y \in ToSet(Kids(p, w)) <=> y \in ToSet(Kids(o, w)) /\ y \in L
    OBVIOUS
  <2>0. w \in Wires(o) /\ L \subseteq Wires(o)
    BY DEF L
  <2>1. PICK n : n = o.nodes[w] /\ IsNode(n)
    BY <2>0 DEF IsLook
  <2>2. PICK kids : kids = Only(n.kids, L)
    OBVIOUS
  <2>3. PICK m : m = [n EXCEPT !.kids = kids]
    OBVIOUS
  <2>4. IsNode(m) /\ m.kids = kids
    BY <2>1, <2>3 DEF IsNode
  <2>5. p.nodes[w] = m
    BY <1>7, <2>1, <2>2, <2>3
  <2>6. n.kids = Kids(o, w) /\ Kids(o, w) \in Seq(Wires(o)) /\ Kids(p, w) = kids
    BY <1>3, <2>0, <2>1, <2>4, <2>5 DEF Kids
  <2>7. kids \in Seq(Wires(o) \cap L) /\ \A y : y \in ToSet(kids) <=> y \in ToSet(Kids(o, w)) /\ y \in L
    BY <2>2, <2>6, OnlyIs
  <2>8. Wires(o) \cap L = L
    BY <2>0
  <2> QED BY <2>4, <2>5, <2>6, <2>7, <2>8
<1>9. Closed(p) /\ IsFiniteSet(Wires(p))
  BY <1>7, <1>8, FS_Subset DEF Closed, IsLook
<1>10. Connected(p)
  <2>1. p.root \in L
    BY <1>4, <1>6 DEF IsLook, Connected
  <2>2. ASSUME NEW T \in SUBSET L, o.root \in T, \A x \in T : ToSet(Kids(p, x)) \subseteq T PROVE T = L
    <3>1. PICK U : U = T \cup gone
      OBVIOUS
    <3>2. U \in SUBSET Wires(o) /\ o.root \in U
      BY <1>4, <2>2, <3>1
    <3>3. \A x \in U : ToSet(Kids(o, x)) \subseteq U
      <4> SUFFICES ASSUME NEW x \in U, NEW y \in ToSet(Kids(o, x)) PROVE y \in U
        OBVIOUS
      <4>1. CASE x \in gone
        BY <1>5, <3>1, <4>1
      <4>2. CASE x \in T
        <5>1. y \in Wires(o)
          BY <1>3, <3>2
        <5>2. y \in L => y \in ToSet(Kids(p, x))
          BY <1>8, <2>2, <4>2
        <5> QED BY <2>2, <3>1, <4>2, <5>1, <5>2
      <4> QED BY <3>1, <4>1, <4>2
    <3>4. U = Wires(o)
      BY <3>2, <3>3 DEF IsLook, Connected
    <3> QED BY <2>2, <3>1, <3>4
  <2> QED BY <1>6, <1>7, <2>1, <2>2 DEF Connected
<1>11. \A x \in Wires(p) : p.root \notin ToSet(Kids(p, x))
  BY <1>3, <1>6, <1>7, <1>8
<1> QED BY <1>6, <1>7, <1>8, <1>9, <1>10, <1>11 DEF IsLook, p

\* An outline: finite, and no two elements share a ref.
IsOutline(o) ==
  /\ o = [root |-> o.root, nodes |-> o.nodes] /\ IsFiniteSet(Wires(o))
  /\ \A x \in Wires(o) : IsNode(o.nodes[x])
  /\ Closed(o)
  /\ \A w, x \in Wires(o) : o.nodes[w].ref = o.nodes[x].ref => w = x

\* The number of the next new ref is above every ref.
LEMMA NextRefIs ==
  ASSUME NEW o, IsFiniteSet(Wires(o)), \A w \in Wires(o) : o.nodes[w].ref \in Nat
  PROVE  NextRef(o) \in Nat /\ \A w \in Wires(o) : o.nodes[w].ref < NextRef(o)
<1>1. PICK W : W = Wires(o)
  OBVIOUS
<1>2. IsFiniteSet(Refs(o))
  <2>1. PICK f : f = [w \in W |-> o.nodes[w].ref]
    OBVIOUS
  <2>2. f \in Surjection(W, Refs(o))
    BY <1>1, <2>1 DEF Surjection, Refs
  <2> QED BY <1>1, <2>2, FS_Surjection
<1>3. PICK S : S = Refs(o) \cup {0}
  OBVIOUS
<1>4. IsFiniteSet(S) /\ S # {} /\ S \subseteq Nat
  <2>1. IsFiniteSet({0})
    BY FS_Singleton
  <2>2. IsFiniteSet(S)
    BY <1>2, <1>3, <2>1, FS_Union
  <2> QED BY <1>3, <2>2 DEF Refs
<1>5. Max(S) \in Nat /\ \A x \in S : x \in Nat /\ x <= Max(S)
  <2>1. S \subseteq Int
    BY <1>4
  <2>2. Max(S) \in S /\ \A x \in S : x <= Max(S)
    BY <1>4, <2>1, MaxOfFinite
  <2> QED BY <1>4, <2>2
<1>6. NextRef(o) = Max(S) + 1
  BY <1>3 DEF NextRef
<1>7. \A w \in Wires(o) : o.nodes[w].ref \in S
  BY <1>3 DEF Refs
<1>8. PICK m \in Nat : m = Max(S)
  BY <1>5
<1>9. \A w \in Wires(o) : o.nodes[w].ref \in Nat /\ o.nodes[w].ref <= m
  BY <1>5, <1>7, <1>8
<1> QED BY <1>6, <1>8, <1>9

\* The outline o with other refs.
Renamed(p, o, R) ==
  /\ p = [root |-> p.root, nodes |-> p.nodes] /\ p.root = o.root /\ Wires(p) = Wires(o)
  /\ \A w \in Wires(o) : p.nodes[w] = [o.nodes[w] EXCEPT !.ref = R[w]]

\* Two nodes of which the same is told.
SameLooks(n, m) ==
  n.role = m.role /\ n.ident = m.ident /\ n.kind = m.kind /\ n.label = m.label /\ n.value = m.value
\* Refs that differ from element to element make a look an outline.
LEMMA RenamedIs ==
  ASSUME NEW o, IsLook(o), NEW R, \A w \in Wires(o) : R[w] \in Nat, \A w, x \in Wires(o) : R[w] = R[x] => w = x,
         NEW p, Renamed(p, o, R)
  PROVE  /\ IsOutline(p)
         /\ \A w \in Wires(o) : p.nodes[w].ref = R[w] /\ SameLooks(p.nodes[w], o.nodes[w])
<1>1. \A w \in Wires(o) : /\ IsNode(p.nodes[w]) /\ p.nodes[w].ref = R[w] /\ p.nodes[w].kids = o.nodes[w].kids
                          /\ SameLooks(p.nodes[w], o.nodes[w])
  <2> SUFFICES ASSUME NEW w \in Wires(o)
               PROVE  /\ IsNode(p.nodes[w]) /\ p.nodes[w].ref = R[w] /\ p.nodes[w].kids = o.nodes[w].kids
                      /\ SameLooks(p.nodes[w], o.nodes[w])
    OBVIOUS
  <2>1. PICK n, r : n = o.nodes[w] /\ r = R[w] /\ IsNode(n) /\ r \in Nat
    BY DEF IsLook
  <2>2. PICK m : m = [n EXCEPT !.ref = r]
    OBVIOUS
  <2>3. IsNode(m) /\ m.ref = r /\ m.kids = n.kids /\ SameLooks(m, n)
    BY <2>1, <2>2 DEF IsNode, SameLooks
  <2>4. p.nodes[w] = m
    BY <2>1, <2>2 DEF Renamed
  <2> QED BY <2>1, <2>3, <2>4
<1>2. Wires(p) = Wires(o) /\ p = [root |-> p.root, nodes |-> p.nodes] /\ IsFiniteSet(Wires(p))
  BY DEF Renamed, IsLook
<1>3. Closed(p)
  BY <1>1, <1>2 DEF Closed, Kids, IsLook
<1>4. \A w, x \in Wires(p) : p.nodes[w].ref = p.nodes[x].ref => w = x
  BY <1>1, <1>2
<1> QED BY <1>1, <1>2, <1>3, <1>4 DEF IsOutline

SameNodes(p, o) ==
  /\ p.root = o.root /\ Wires(p) = Wires(o)
  /\ \A w \in Wires(o) : /\ p.nodes[w].kids = o.nodes[w].kids /\ p.nodes[w].trunc = o.nodes[w].trunc
                         /\ p.nodes[w].next = o.nodes[w].next

\* Only the refs are others.
LEMMA RenamedKeeps == ASSUME NEW o, IsLook(o), NEW R, NEW p, Renamed(p, o, R) PROVE SameNodes(p, o)
<1>1. ASSUME NEW w \in Wires(o)
      PROVE  /\ p.nodes[w].kids = o.nodes[w].kids /\ p.nodes[w].trunc = o.nodes[w].trunc
             /\ p.nodes[w].next = o.nodes[w].next
  <2>1. PICK n, r : n = o.nodes[w] /\ r = R[w]
    OBVIOUS
  <2>2. IsNode(n) /\ p.nodes[w] = [n EXCEPT !.ref = r]
    BY <2>1 DEF IsLook, Renamed
  <2> QED BY <2>1, <2>2 DEF IsNode
<1> QED BY <1>1 DEF SameNodes, Renamed

\* A record with another set of nodes.
LEMMA WithNodes ==
  ASSUME NEW o, o = [root |-> o.root, nodes |-> o.nodes], NEW t, NEW p, p = [o EXCEPT !.nodes = Table(t)]
  PROVE  p = [root |-> p.root, nodes |-> p.nodes] /\ p.root = o.root /\ p.nodes = t /\ Wires(p) = DOMAIN t
<1>1. PICK r, n : o = [root |-> r, nodes |-> n]
  OBVIOUS
<1>2. p = [o EXCEPT !.nodes = t]
  BY TableIs
<1>3. p = [root |-> r, nodes |-> t]
  BY <1>1, <1>2
<1> QED BY <1>1, <1>3 DEF Wires

\* A look that no state precedes is named in the order of its queue.
LEMMA BuildIs ==
  ASSUME NEW o, IsLook(o)
  PROVE  IsOutline(BuildOutline(o)) /\ SameNodes(BuildOutline(o), o)
         /\ BuildOutline(o).root = o.root /\ Wires(BuildOutline(o)) = Wires(o)
<1> DEFINE order == BreadthFirst(o)
           R == [w \in Wires(o) |-> Position(order, w)]
           t == [w \in Wires(o) |-> [o.nodes[w] EXCEPT !.ref = Position(order, w)]]
<1>1. PICK p : p = BuildOutline(o)
  OBVIOUS
<1>2. p = [o EXCEPT !.nodes = Table(t)]
  BY <1>1, Zenon DEF BuildOutline
<1>3. order \in Seq(Wires(o)) /\ ToSet(order) = Wires(o)
  BY BreadthFirstCovers DEF IsLook
<1> HIDE DEF order
<1>4. \A w \in Wires(o) : Position(order, w) \in DOMAIN order /\ order[Position(order, w)] = w
  BY <1>3, PositionIs
<1>5. \A w \in Wires(o) : R[w] \in Nat /\ order[R[w]] = w /\ R[w] = Position(order, w)
  BY <1>3, <1>4
<1>6. Renamed(p, o, R)
  <2>1. p = [root |-> p.root, nodes |-> p.nodes] /\ p.root = o.root /\ p.nodes = t /\ Wires(p) = DOMAIN t
    <3> HIDE DEF t
    <3> QED BY <1>2, WithNodes DEF IsLook
  <2>2. \A w \in Wires(o) : t[w] = [o.nodes[w] EXCEPT !.ref = R[w]]
    BY <1>5
  <2> QED BY <2>1, <2>2 DEF Renamed
<1> HIDE DEF R
<1>7. \A w, x \in Wires(o) : R[w] = R[x] => w = x
  BY <1>5
<1>8. IsOutline(p)
  BY <1>5, <1>6, <1>7, RenamedIs
<1>9. SameNodes(p, o)
  BY <1>6, RenamedKeeps
<1> QED BY <1>1, <1>6, <1>8, <1>9 DEF Renamed

\* The element of a set of one.
LEMMA OneOf == ASSUME NEW S, Cardinality(S) = 1, IsFiniteSet(S) PROVE S # {} /\ \A x, y \in S : x = y
<1>1. PICK x : S = {x}
  BY FS_Singleton
<1> QED BY <1>1

\* A ref that is carried over is one of the base, or none.
LEMMA StableIs ==
  ASSUME NEW base, IsOutline(base), NEW o, NEW keys, NEW w, NEW r, r = StableRef(base, o, keys, w), r # NoRef
  PROVE  \E b \in Wires(base) : /\ r = base.nodes[b].ref
                                /\ (b = w /\ WireIdentityCompatible(base.nodes[w], o.nodes[w])) \/ keys[b] = StructuralKey(o, w)
<1> DEFINE key == StructuralKey(o, w)
           same == {b \in Wires(base) : keys[b] = key}
           first == w \in Wires(base) /\ WireIdentityCompatible(base.nodes[w], o.nodes[w])
<1>1. r = IF first THEN base.nodes[w].ref ELSE IF Cardinality(same) = 1 THEN base.nodes[CHOOSE b \in same : TRUE].ref ELSE NoRef
  BY Zenon DEF StableRef
<1>2. CASE first
  BY <1>1, <1>2
<1>3. CASE ~first
  <2>1. Cardinality(same) = 1 /\ r = base.nodes[CHOOSE b \in same : TRUE].ref
    BY <1>1, <1>3
  <2>2. IsFiniteSet(same)
    BY FS_Subset DEF IsOutline
  <2>3. same # {}
    <3> HIDE DEF same
    <3> QED BY <2>1, <2>2, OneOf
  <2>4. PICK b : b = CHOOSE x \in same : TRUE
    OBVIOUS
  <2>5. b \in same
    BY <2>3, <2>4
  <2> QED BY <2>1, <2>4, <2>5
<1> QED BY <1>2, <1>3

\* Nothing in front of a sequence.
LEMMA LeadingNothing == ASSUME NEW X, NEW s \in Seq(X) PROVE <<>> \o s = s
OBVIOUS

KeysOf(base) == [b \in Wires(base) |-> StructuralKey(base, b)]
\* No two elements of a successor share a ref, and each has one that its base
\* gave to no one or the one that the base gave to whom it is taken for.
Successor(p, base, o) ==
  /\ IsOutline(p) /\ SameNodes(p, o) /\ Wires(p) = Wires(o) /\ p.root = o.root
  /\ \A w \in Wires(o) : SameLooks(p.nodes[w], o.nodes[w])
  /\ \A w \in Wires(o) : \/ \A b \in Wires(base) : base.nodes[b].ref < p.nodes[w].ref
                         \/ p.nodes[w].ref = StableRef(base, o, KeysOf(base), w) /\ p.nodes[w].ref # NoRef

\* stabilizeOutlineRefs makes a successor: what it carries over and what it numbers
\* anew do not meet, and of two elements taken for the same only the first gets the ref.
LEMMA StabilizeIs == ASSUME NEW base, IsOutline(base), NEW o, IsLook(o) PROVE Successor(StabilizeRefs(base, o), base, o)
<1> DEFINE order == BreadthFirst(o)
           keys == Table([b \in Wires(base) |-> StructuralKey(base, b)])
           stable == <<>> \o [i \in DOMAIN order |-> StableRef(base, o, keys, order[i])]
           keeping == {i \in DOMAIN order : stable[i] # NoRef /\ \A j \in 1..(i - 1) : stable[j] # stable[i]}
           Fresh(i) == NextRef(base) + Cardinality(1..(i - 1) \ keeping)
           Of(w, i) == [o.nodes[w] EXCEPT !.ref = IF i \in keeping THEN stable[i] ELSE Fresh(i)]
           t == [w \in Wires(o) |-> Of(w, Position(order, w))]
           R == [w \in Wires(o) |-> IF Position(order, w) \in keeping THEN stable[Position(order, w)] ELSE Fresh(Position(order, w))]
<1>0. PICK p : p = StabilizeRefs(base, o)
  OBVIOUS
<1>1. p = [o EXCEPT !.nodes = Table(t)]
  BY <1>0, Zenon DEF StabilizeRefs
<1>2. keys = KeysOf(base)
  BY TableIs DEF KeysOf
<1>3. order \in Seq(Wires(o)) /\ ToSet(order) = Wires(o)
  BY BreadthFirstCovers DEF IsLook
<1>4. PICK n \in Nat : n = Len(order) /\ DOMAIN order = 1 .. n
  BY <1>3
<1>5. \A w \in Wires(o) : Position(order, w) \in 1 .. n /\ order[Position(order, w)] = w
  BY <1>3, <1>4, PositionIs
<1> HIDE DEF order, keys
<1>6. \A w : StableRef(base, o, keys, w) \in Nat
  <2> SUFFICES ASSUME NEW w PROVE StableRef(base, o, keys, w) \in Nat
    OBVIOUS
  <2>1. CASE StableRef(base, o, keys, w) = NoRef
    BY <2>1 DEF NoRef
  <2>2. CASE StableRef(base, o, keys, w) # NoRef
    <3>1. PICK b \in Wires(base) : StableRef(base, o, keys, w) = base.nodes[b].ref
      BY <2>2, StableIs
    <3> QED BY <3>1 DEF IsOutline, IsNode
  <2> QED BY <2>1, <2>2
<1>7. \A i \in 1 .. n : stable[i] = StableRef(base, o, keys, order[i])
  <2>1. PICK s : s = [i \in DOMAIN order |-> StableRef(base, o, keys, order[i])]
    OBVIOUS
  <2>2. s \in Seq(Nat)
    BY <1>4, <1>6, <2>1
  <2>3. <<>> \o s = s
    BY <2>2, LeadingNothing
  <2> QED BY <1>4, <2>1, <2>3
<1> HIDE DEF stable
<1>8. NextRef(base) \in Nat /\ \A b \in Wires(base) : base.nodes[b].ref \in Nat /\ base.nodes[b].ref < NextRef(base)
  BY NextRefIs DEF IsOutline, IsNode
<1>9. keeping \subseteq 1 .. n /\ \A i \in keeping : stable[i] # NoRef /\ \A j \in 1..(i - 1) : stable[j] # stable[i]
  BY <1>4
<1> HIDE DEF keeping
<1>10. \A i \in 1 .. n : IsFiniteSet(1..(i - 1) \ keeping) /\ Cardinality(1..(i - 1) \ keeping) \in Nat
  <2> SUFFICES ASSUME NEW i \in 1 .. n PROVE IsFiniteSet(1..(i - 1) \ keeping) /\ Cardinality(1..(i - 1) \ keeping) \in Nat
    OBVIOUS
  <2>1. IsFiniteSet(1..(i - 1))
    BY FS_Interval
  <2>2. 1..(i - 1) \ keeping \in SUBSET (1..(i - 1))
    OBVIOUS
  <2> QED BY <2>1, <2>2, FS_Subset, FS_CardinalityType
<1>11. \A i \in 1 .. n : Fresh(i) \in Nat /\ NextRef(base) <= Fresh(i)
  BY <1>8, <1>10
<1>12. \A i, j \in 1 .. n : (i < j /\ i \notin keeping /\ j \notin keeping) => Fresh(i) # Fresh(j)
  <2> SUFFICES ASSUME NEW i \in 1 .. n, NEW j \in 1 .. n, i < j, i \notin keeping, Fresh(i) = Fresh(j) PROVE FALSE
    OBVIOUS
  <2>1. PICK S, T : S = 1..(i - 1) \ keeping /\ T = 1..(j - 1) \ keeping
    OBVIOUS
  <2>2. IsFiniteSet(T) /\ S \in SUBSET T /\ i \in T /\ i \notin S
    <3>1. i \in 1..(j - 1) /\ i \notin 1..(i - 1) /\ \A k \in 1..(i - 1) : k \in 1..(j - 1)
      OBVIOUS
    <3> QED BY <1>10, <2>1, <3>1
  <2>3. Cardinality(S) # Cardinality(T)
    BY <2>2, FS_Subset
  <2>4. Cardinality(S) \in Nat /\ Cardinality(T) \in Nat /\ NextRef(base) + Cardinality(S) = NextRef(base) + Cardinality(T)
    BY <1>10, <2>1
  <2> QED BY <1>8, <2>3, <2>4
<1>13. \A i \in keeping : \E b \in Wires(base) : stable[i] = base.nodes[b].ref
  <2> SUFFICES ASSUME NEW i \in keeping PROVE \E b \in Wires(base) : stable[i] = base.nodes[b].ref
    OBVIOUS
  <2>1. stable[i] = StableRef(base, o, keys, order[i]) /\ stable[i] # NoRef
    BY <1>7, <1>9
  <2> QED BY <2>1, StableIs
<1>14. \A i \in keeping : stable[i] \in Nat /\ stable[i] < NextRef(base)
  BY <1>8, <1>13
<1> DEFINE Given(i) == IF i \in keeping THEN stable[i] ELSE Fresh(i)
<1>15. \A i \in 1 .. n : Given(i) \in Nat /\ (i \notin keeping => NextRef(base) <= Given(i))
  BY <1>11, <1>14
<1>16. \A i, j \in 1 .. n : i < j => Given(i) # Given(j)
  <2> HIDE DEF Fresh
  <2> SUFFICES ASSUME NEW i \in 1 .. n, NEW j \in 1 .. n, i < j, Given(i) = Given(j) PROVE FALSE
    OBVIOUS
  <2>1. CASE i \in keeping /\ j \in keeping
    <3>1. i \in 1..(j - 1)
      OBVIOUS
    <3> QED BY <1>9, <2>1, <3>1
  <2>2. CASE i \in keeping /\ j \notin keeping
    BY <1>8, <1>11, <1>14, <2>2
  <2>3. CASE i \notin keeping /\ j \in keeping
    BY <1>8, <1>11, <1>14, <2>3
  <2>4. CASE i \notin keeping /\ j \notin keeping
    BY <1>12, <2>4
  <2> QED BY <2>1, <2>2, <2>3, <2>4
<1>17. \A w \in Wires(o) : R[w] = Given(Position(order, w)) /\ R[w] \in Nat
  BY <1>5, <1>15
<1>18. Renamed(p, o, R)
  <2>1. p = [root |-> p.root, nodes |-> p.nodes] /\ p.root = o.root /\ p.nodes = t /\ Wires(p) = DOMAIN t
    <3> HIDE DEF t
    <3> QED BY <1>1, WithNodes DEF IsLook
  <2>2. \A w \in Wires(o) : t[w] = [o.nodes[w] EXCEPT !.ref = R[w]]
    OBVIOUS
  <2> QED BY <2>1, <2>2 DEF Renamed
<1> HIDE DEF R, Given, t
<1>19. \A w, x \in Wires(o) : R[w] = R[x] => w = x
  <2> SUFFICES ASSUME NEW w \in Wires(o), NEW x \in Wires(o), R[w] = R[x] PROVE w = x
    OBVIOUS
  <2>1. PICK i, j : i = Position(order, w) /\ j = Position(order, x)
    OBVIOUS
  <2>2. i \in 1 .. n /\ j \in 1 .. n /\ order[i] = w /\ order[j] = x /\ Given(i) = Given(j)
    BY <1>5, <1>17, <2>1
  <2>3. i = j
    <3>1. ~(i < j) /\ ~(j < i)
      BY <1>16, <2>2
    <3> QED BY <2>2, <3>1
  <2> QED BY <2>2, <2>3
<1>20. /\ IsOutline(p)
       /\ \A w \in Wires(o) : p.nodes[w].ref = R[w] /\ SameLooks(p.nodes[w], o.nodes[w])
  <2>1. \A w \in Wires(o) : R[w] \in Nat
    BY <1>17
  <2> QED BY <1>18, <1>19, <2>1, RenamedIs
<1>21. \A w \in Wires(o) : \/ \A b \in Wires(base) : base.nodes[b].ref < p.nodes[w].ref
                           \/ p.nodes[w].ref = StableRef(base, o, KeysOf(base), w) /\ p.nodes[w].ref # NoRef
  <2> SUFFICES ASSUME NEW w \in Wires(o)
               PROVE  \/ \A b \in Wires(base) : base.nodes[b].ref < p.nodes[w].ref
                      \/ p.nodes[w].ref = StableRef(base, o, KeysOf(base), w) /\ p.nodes[w].ref # NoRef
    OBVIOUS
  <2>1. PICK i : i = Position(order, w) /\ i \in 1 .. n /\ order[i] = w /\ p.nodes[w].ref = Given(i)
    BY <1>5, <1>17, <1>20
  <2>2. CASE i \in keeping
    <3>1. Given(i) = stable[i]
      BY <2>2 DEF Given
    <3>2. stable[i] = StableRef(base, o, keys, w) /\ stable[i] # NoRef
      BY <1>7, <1>9, <2>1, <2>2
    <3> QED BY <1>2, <2>1, <3>1, <3>2
  <2>3. CASE i \notin keeping
    <3>1. \A b \in Wires(base) : base.nodes[b].ref < Given(i)
      <4>1. NextRef(base) <= Given(i) /\ Given(i) \in Nat
        BY <1>15, <2>1, <2>3
      <4> QED BY <1>8, <4>1
    <3> QED BY <2>1, <3>1
  <2> QED BY <2>2, <2>3
<1>22. Wires(p) = Wires(o) /\ p.root = o.root /\ SameNodes(p, o)
  <2>1. SameNodes(p, o)
    BY <1>18, RenamedKeeps
  <2> QED BY <1>18, <2>1 DEF Renamed
<1> QED BY <1>0, <1>20, <1>21, <1>22 DEF Successor

\* A graft names what it adds above every ref of the outline.
LEMMA GraftIs ==
  ASSUME NEW o, IsOutline(o), NEW s, IsLook(s), s.root \in Wires(o), NEW append
  PROVE  /\ IsOutline(GraftScopedOutline(o, s, append)) /\ GraftScopedOutline(o, s, append).root = o.root
         /\ Wires(o) \subseteq Wires(GraftScopedOutline(o, s, append))
<1> DEFINE reusable == Below(o, s.root)
           fresh == Only(DepthFirst(s, s.root), Wires(s) \ reusable)
           Cloned(w) == [s.nodes[w] EXCEPT !.ref = NextRef(o) + Position(fresh, w) - 1]
           Reused(w) == [s.nodes[w] EXCEPT !.ref = o.nodes[w].ref, !.kids = GraftedKids(o, s, w, append)]
           t == [w \in Wires(o) \cup Wires(s) |->
                   IF w \notin Wires(s) THEN o.nodes[w] ELSE IF w \in reusable THEN Reused(w) ELSE Cloned(w)]
           Old == (Wires(o) \ Wires(s)) \cup (Wires(s) \cap reusable)
           New == Wires(s) \ reusable
<1>0. PICK p : p = GraftScopedOutline(o, s, append)
  OBVIOUS
<1>1. p = [o EXCEPT !.nodes = Table(t)]
  BY <1>0, Zenon DEF GraftScopedOutline
<1>2. p = [root |-> p.root, nodes |-> p.nodes] /\ p.root = o.root /\ p.nodes = t /\ Wires(p) = Wires(o) \cup Wires(s)
  <2>1. p = [root |-> p.root, nodes |-> p.nodes] /\ p.root = o.root /\ p.nodes = t /\ Wires(p) = DOMAIN t
    <3> HIDE DEF t
    <3> QED BY <1>1, WithNodes DEF IsOutline
  <2> QED BY <2>1
<1>3. /\ \A w \in Wires(o) \ Wires(s) : p.nodes[w] = o.nodes[w]
      /\ \A w \in Wires(s) \cap reusable : p.nodes[w] = Reused(w)
      /\ \A w \in New : p.nodes[w] = Cloned(w)
  BY <1>2
<1>4. reusable \subseteq Wires(o)
  BY BelowIs DEF IsOutline
<1>5. /\ DepthFirst(s, s.root) \in Seq(Wires(s)) /\ ToSet(DepthFirst(s, s.root)) = Wires(s)
  BY DepthFirstCovers DEF IsLook
<1>6. PICK n \in Nat : n = Len(fresh) /\ DOMAIN fresh = 1 .. n /\ ToSet(fresh) = New
  <2> HIDE DEF reusable
  <2>1. fresh \in Seq(Wires(s) \cap New) /\ \A x : x \in ToSet(fresh) <=> x \in Wires(s) /\ x \in New
    <3>1. PICK seq, S : seq = DepthFirst(s, s.root) /\ S = Wires(s) \ reusable
      OBVIOUS
    <3>2. seq \in Seq(Wires(s)) /\ ToSet(seq) = Wires(s) /\ fresh = Only(seq, S) /\ New = S
      BY <1>5, <3>1
    <3>3. Only(seq, S) \in Seq(Wires(s) \cap S) /\ \A x : x \in ToSet(Only(seq, S)) <=> x \in ToSet(seq) /\ x \in S
      BY <3>2, OnlyIs
    <3> HIDE DEF fresh, New
    <3> QED BY <3>2, <3>3
  <2> HIDE DEF fresh
  <2>2. ToSet(fresh) = New
    BY <2>1
  <2>3. Len(fresh) \in Nat /\ DOMAIN fresh = 1 .. Len(fresh)
    BY <2>1
  <2> QED BY <2>2, <2>3
<1>7. \A w \in New : Position(fresh, w) \in 1 .. n /\ fresh[Position(fresh, w)] = w
  <2> HIDE DEF fresh, New
  <2> QED BY <1>6, PositionIs
<1>8. NextRef(o) \in Nat /\ \A b \in Wires(o) : o.nodes[b].ref \in Nat /\ o.nodes[b].ref < NextRef(o)
  BY NextRefIs DEF IsOutline, IsNode
<1> HIDE DEF reusable, fresh, t
<1>9. /\ \A w \in Wires(o) : Kids(o, w) \in Seq(Wires(o))
      /\ \A w \in Wires(s) : Kids(s, w) \in Seq(Wires(s))
  BY DEF IsOutline, IsLook, Closed
<1>10. \A w \in Wires(o) : GraftedKids(o, s, w, append) \in Seq(Wires(p)) \/ w \notin Wires(s)
  <2> SUFFICES ASSUME NEW w \in Wires(o), w \in Wires(s) PROVE GraftedKids(o, s, w, append) \in Seq(Wires(p))
    OBVIOUS
  <2>1. PICK kept : kept = PreserveUnreused(Kids(o, w), o, s)
    OBVIOUS
  <2>2. kept \in Seq(Wires(o) \cap (Wires(o) \ Wires(s)))
    BY <1>9, <2>1, OnlyIs DEF PreserveUnreused
  <2>3. kept \in Seq(Wires(p)) /\ Kids(s, w) \in Seq(Wires(p))
    BY <1>2, <1>9, <2>2
  <2>4. PICK a \in Seq(Wires(p)), b \in Seq(Wires(p)) : a = kept /\ b = Kids(s, w)
    BY <2>3
  <2>5. a \o b \in Seq(Wires(p)) /\ b \o a \in Seq(Wires(p))
    OBVIOUS
  <2> QED BY <2>1, <2>4, <2>5 DEF GraftedKids
<1>11. \A w \in Old : w \in Wires(o) /\ IsNode(p.nodes[w]) /\ p.nodes[w].ref = o.nodes[w].ref /\ Kids(p, w) \in Seq(Wires(p))
  <2> SUFFICES ASSUME NEW w \in Old
               PROVE  w \in Wires(o) /\ IsNode(p.nodes[w]) /\ p.nodes[w].ref = o.nodes[w].ref /\ Kids(p, w) \in Seq(Wires(p))
    OBVIOUS
  <2>1. CASE w \in Wires(o) \ Wires(s)
    <3>1. p.nodes[w] = o.nodes[w] /\ Kids(o, w) \in Seq(Wires(o)) /\ IsNode(o.nodes[w])
      BY <1>3, <1>9, <2>1 DEF IsOutline
    <3>2. Kids(o, w) \in Seq(Wires(p))
      BY <1>2, <3>1
    <3> QED BY <2>1, <3>1, <3>2 DEF Kids
  <2>2. CASE w \in Wires(s) \cap reusable
    <3>1. PICK m, r, kids : m = s.nodes[w] /\ r = o.nodes[w].ref /\ kids = GraftedKids(o, s, w, append)
      OBVIOUS
    <3>2. IsNode(m) /\ w \in Wires(o) /\ r \in Nat /\ kids \in Seq(Wires(p))
      BY <1>4, <1>8, <1>10, <2>2, <3>1 DEF IsLook
    <3>3. PICK k : k = [m EXCEPT !.ref = r, !.kids = kids]
      OBVIOUS
    <3>4. IsNode(k) /\ k.ref = r /\ k.kids = kids
      BY <3>2, <3>3 DEF IsNode
    <3>5. p.nodes[w] = k
      BY <1>3, <2>2, <3>1, <3>3
    <3> QED BY <3>1, <3>2, <3>4, <3>5 DEF Kids
  <2> QED BY <2>1, <2>2
<1>12. \A w \in New : /\ IsNode(p.nodes[w]) /\ p.nodes[w].ref = NextRef(o) + Position(fresh, w) - 1
                      /\ NextRef(o) <= p.nodes[w].ref /\ Kids(p, w) \in Seq(Wires(p))
  <2> SUFFICES ASSUME NEW w \in New
               PROVE  /\ IsNode(p.nodes[w]) /\ p.nodes[w].ref = NextRef(o) + Position(fresh, w) - 1
                      /\ NextRef(o) <= p.nodes[w].ref /\ Kids(p, w) \in Seq(Wires(p))
    OBVIOUS
  <2>1. PICK m, r : m = s.nodes[w] /\ r = NextRef(o) + Position(fresh, w) - 1
    OBVIOUS
  <2>2. PICK i \in 1 .. n : i = Position(fresh, w)
    BY <1>7
  <2>3. IsNode(m) /\ r \in Nat /\ NextRef(o) <= r
    BY <1>8, <2>1, <2>2 DEF IsLook
  <2>4. PICK k : k = [m EXCEPT !.ref = r]
    OBVIOUS
  <2>5. IsNode(k) /\ k.ref = r /\ k.kids = m.kids
    BY <2>3, <2>4 DEF IsNode
  <2>6. p.nodes[w] = k
    BY <1>3, <2>1, <2>4
  <2>7. Kids(s, w) \in Seq(Wires(p)) /\ Kids(s, w) = m.kids
    BY <1>2, <1>9, <2>1 DEF Kids
  <2> QED BY <2>1, <2>3, <2>5, <2>6, <2>7 DEF Kids
<1>13. Wires(p) = Old \cup New
  BY <1>2, <1>4
<1> HIDE DEF Old, New
<1>14. Closed(p) /\ \A w \in Wires(p) : IsNode(p.nodes[w])
  BY <1>11, <1>12, <1>13 DEF Closed
<1>15. \A w, x \in Wires(p) : p.nodes[w].ref = p.nodes[x].ref => w = x
  <2> SUFFICES ASSUME NEW w \in Wires(p), NEW x \in Wires(p), p.nodes[w].ref = p.nodes[x].ref PROVE w = x
    OBVIOUS
  <2>1. CASE w \in Old /\ x \in Old
    BY <1>11, <2>1 DEF IsOutline
  <2>2. CASE w \in New /\ x \in New
    <3>1. PICK i, j : i = Position(fresh, w) /\ j = Position(fresh, x)
      OBVIOUS
    <3>2. i \in 1 .. n /\ j \in 1 .. n /\ fresh[i] = w /\ fresh[j] = x
      BY <1>7, <2>2, <3>1
    <3>3. NextRef(o) + i - 1 = NextRef(o) + j - 1
      BY <1>12, <2>2, <3>1
    <3>4. i = j
      BY <1>8, <3>2, <3>3
    <3> QED BY <3>2, <3>4
  <2>3. ASSUME NEW a \in Old, NEW b \in New PROVE p.nodes[a].ref # p.nodes[b].ref
    <3>1. PICK q, r : q = p.nodes[a].ref /\ r = p.nodes[b].ref
      OBVIOUS
    <3>2. q \in Nat /\ q < NextRef(o) /\ NextRef(o) <= r /\ r \in Nat
      <4>1. a \in Wires(o) /\ q = o.nodes[a].ref
        BY <1>11, <3>1
      <4>2. NextRef(o) <= r /\ r \in Nat
        BY <1>12, <3>1 DEF IsNode
      <4> QED BY <1>8, <4>1, <4>2
    <3> QED BY <1>8, <3>1, <3>2
  <2> QED BY <1>13, <2>1, <2>2, <2>3
<1>16. IsFiniteSet(Wires(p))
  BY <1>2, FS_Union DEF IsOutline, IsLook
<1>17. IsOutline(p) /\ p.root = o.root /\ Wires(o) \subseteq Wires(p)
  BY <1>2, <1>14, <1>15, <1>16 DEF IsOutline
<1> QED BY <1>0, <1>17

--------------------------------------------------------------------------------
(* The states: what a call makes, and what it leaves alone.                   *)

Rooted(o) == o.root \in Wires(o)
Grounded(st, n) ==
  /\ IsOutline(st.outline) /\ st.id \in Nat /\ st.id < n
  /\ IF st.id = NoState THEN Wires(st.outline) = {} ELSE Rooted(st.outline)
NameInv ==
  /\ ui \in Uis /\ nextState \in Nat \ {0}
  /\ IsOutline(index.outline) /\ (index.phase # "none" => Rooted(index.outline))
  /\ \A i \in DOMAIN saved : Grounded(saved[i], nextState)
  /\ \A c \in Calls : Grounded(calls[c].st, nextState)

\* A fresh look, named after the outline a call works on; what a call makes of
\* its state; and where a recovered call turns to.
Drawn(x, st) ==
  \E look : IsLook(look) /\ x.outline = IF st.id = NoState THEN BuildOutline(look) ELSE StabilizeRefs(st.outline, look)
Made(x, st) == Grounded(x, nextState') /\ ((x.by = "observe" /\ x.id = nextState) => Drawn(x, st))
Aims(call, next) ==
  \E b \in Named(call.st.outline, call.ref) : \E x \in MatchFingerprint(call.st.outline, b, next.st.outline) :
    next.ref = next.st.outline.nodes[x].ref
CallMoves(c) ==
  /\ \A d \in Calls : d # c => calls'[d] = calls[d]
  /\ Grounded(calls'[c].st, nextState') /\ (calls'[c].phase = "again" => Aims(calls[c], calls'[c]))
SavedMoves(c) ==
  \A i \in DOMAIN saved' : (\E j \in DOMAIN saved : saved'[i] = saved[j]) \/ Made(saved'[i], calls[c].st)
RestMoves ==
  /\ nextState' \in {nextState, nextState + 1} /\ ui' \in Uis
  /\ IsOutline(index'.outline) /\ (index'.phase # "none" => Rooted(index'.outline))
Moves(c) == CallMoves(c) /\ SavedMoves(c) /\ RestMoves

\* What is grounded stays so when the count of the states goes on.
LEMMA GroundedLater ==
  ASSUME NEW st, NEW n \in Nat, NEW m, m \in {n, n + 1}, Grounded(st, n)
  PROVE  Grounded(st, m)
BY DEF Grounded

\* No state is the empty outline.
LEMMA NothingIs == ASSUME NEW n \in Nat, n # 0 PROVE Grounded(Idle.st, n) /\ IsOutline(NoTree)
<1>1. Wires(NoTree) = {} /\ NoTree = [root |-> NoTree.root, nodes |-> NoTree.nodes]
  BY DEF NoTree, Wires
<1>2. IsFiniteSet({})
  BY FS_EmptySet
<1>3. IsOutline(NoTree)
  BY <1>1, <1>2 DEF IsOutline, Closed
<1>4. Idle.st.id = NoState /\ Idle.st.outline = NoTree
  <2>1. PICK st : Idle = [phase |-> "idle", op |-> "none", ref |-> NoRef, query |-> "none", st |-> st]
                  /\ \E o, n1 : o = NoTree /\ st = [id |-> NoState, outline |-> o, epoch |-> 0, note |-> n1, read |-> TRUE,
                                        by |-> "none", epochs |-> {}, since |-> 0, at |-> 0]
    BY Zenon DEF Idle
  <2>2. PICK o, n1 : o = NoTree /\ st = [id |-> NoState, outline |-> o, epoch |-> 0, note |-> n1, read |-> TRUE,
                                        by |-> "none", epochs |-> {}, since |-> 0, at |-> 0]
    BY <2>1
  <2>3. st.id = NoState /\ st.outline = o /\ Idle.st = st
    BY <2>1, <2>2
  <2> QED BY <2>2, <2>3
<1> QED BY <1>1, <1>3, <1>4 DEF Grounded, NoState

\* What is saved is what was saved, but for the record that is written.
LEMMA PersistedHas ==
  ASSUME SavedOK(saved), NEW st, NEW i \in DOMAIN Persisted(st)
  PROVE  Persisted(st)[i] = st \/ \E j \in DOMAIN saved : Persisted(st)[i] = saved[j]
<1>1. PICK S : saved \in Seq(S)
  BY DEF SavedOK
<1>2. PICK T : T = {saved[j] : j \in DOMAIN saved}
  OBVIOUS
<1>3. saved \in Seq(T)
  <2>1. \A j \in 1 .. Len(saved) : saved[j] \in T
    BY <1>1, <1>2
  <2> QED BY <1>1, <2>1
<1>4. ASSUME NEW k \in DOMAIN saved PROVE RemoveAt(saved, k) \in Seq(T)
  BY <1>3 DEF RemoveAt
<1>5. Without(st.id) \in Seq(T)
  <2>1. CASE st.id \in SavedIds
    <3>1. PICK k : k = CHOOSE j \in DOMAIN saved : saved[j].id = st.id
      OBVIOUS
    <3>2. k \in DOMAIN saved
      BY <2>1, <3>1 DEF SavedIds
    <3> QED BY <1>4, <2>1, <3>1, <3>2 DEF Without
  <2>2. CASE st.id \notin SavedIds
    BY <1>3, <2>2 DEF Without
  <2> QED BY <2>1, <2>2
<1>6. PICK rest : rest = Without(st.id) /\ rest \in Seq(T \cup {st})
  BY <1>5
<1>7. Append(rest, st) \in Seq(T \cup {st}) /\ Append(rest, st) # <<>>
  BY <1>6
<1>8. Persisted(st) \in Seq(T \cup {st})
  <2>1. saved \in Seq(T \cup {st})
    BY <1>3
  <2>2. Tail(Append(rest, st)) \in Seq(T \cup {st})
    BY <1>7
  <2> QED BY <1>6, <1>7, <2>1, <2>2 DEF Persisted
<1>9. Persisted(st)[i] \in T \cup {st}
  BY <1>8
<1> QED BY <1>2, <1>9

\* An answer, a failure, and a call that goes on.
LEMMA ReplyMoves ==
  ASSUME EpochInv, NameInv, NEW c \in Calls, NEW st, NEW told, Reply(c, st, told), Made(st, calls[c].st), RestMoves
  PROVE  Moves(c)
<1>1. calls' = [calls EXCEPT ![c] = Idle] /\ saved' = Persisted(st) /\ calls = [d \in Calls |-> calls[d]]
  BY DEF Reply, EpochInv
<1>2. calls'[c] = Idle /\ \A d \in Calls : d # c => calls'[d] = calls[d]
  BY <1>1
<1>3. nextState' \in Nat /\ nextState' # 0
  BY DEF RestMoves, NameInv
<1>4. Idle.phase = "idle"
  BY DEF Idle
<1>5. SavedMoves(c)
  <2> SUFFICES ASSUME NEW i \in DOMAIN saved'
               PROVE  (\E j \in DOMAIN saved : saved'[i] = saved[j]) \/ Made(saved'[i], calls[c].st)
    BY DEF SavedMoves
  <2>1. saved'[i] = st \/ \E j \in DOMAIN saved : saved'[i] = saved[j]
    BY <1>1, PersistedHas DEF EpochInv
  <2> QED BY <2>1
<1> QED BY <1>2, <1>3, <1>4, <1>5, NothingIs DEF Moves, CallMoves

\* A failure.
LEMMA FailMoves ==
  ASSUME EpochInv, NameInv, NEW c \in Calls, Fail(c), RestMoves
  PROVE  Moves(c)
<1>1. calls' = [calls EXCEPT ![c] = Idle] /\ saved' = saved /\ calls = [d \in Calls |-> calls[d]]
  BY DEF Fail, EpochInv
<1>2. calls'[c] = Idle /\ \A d \in Calls : d # c => calls'[d] = calls[d]
  BY <1>1
<1>3. nextState' \in Nat /\ nextState' # 0
  BY DEF RestMoves, NameInv
<1>4. Idle.phase = "idle"
  BY DEF Idle
<1>5. SavedMoves(c)
  BY <1>1 DEF SavedMoves
<1> QED BY <1>2, <1>3, <1>4, <1>5, NothingIs DEF Moves, CallMoves

\* A call that goes on.
LEMMA GoesOnMoves ==
  ASSUME EpochInv, NameInv, NEW c \in Calls, NEW call, calls' = [calls EXCEPT ![c] = call],
         Grounded(call.st, nextState'), call.phase = "again" => Aims(calls[c], call), SavedMoves(c), RestMoves
  PROVE  Moves(c)
<1>1. calls = [d \in Calls |-> calls[d]]
  BY DEF EpochInv
<1>2. calls'[c] = call /\ \A d \in Calls : d # c => calls'[d] = calls[d]
  BY <1>1
<1> QED BY <1>2 DEF Moves, CallMoves

\* A step that leaves the application, the index and the count alone.
LEMMA Quiet == ASSUME NameInv, UNCHANGED <<ui, index, nextState>> PROVE RestMoves
BY DEF NameInv, RestMoves

\* A capture is a fresh look, named after the outline it is taken for.
LEMMA CapturesAre ==
  ASSUME NEW st, NEW n, Grounded(st, n), NEW tree \in Uis, NEW e, NEW id \in Nat, id # NoState, NEW x \in Captures(st, tree, e, id)
  PROVE  x.id = id /\ Drawn(x, st) /\ IsOutline(x.outline) /\ Rooted(x.outline) /\ Grounded(x, id + 1)
<1>1. PICK seen \in BoundedLooks(tree, tree.root, 0) : x = CaptureOf(st, PruneDetachedWebAreas(seen), e, id)
  BY DEF Captures
<1>2. IsTree(tree) /\ tree.root \in Wires(tree)
  BY ObservationAssumption DEF IsTree
<1>3. PICK look : look = PruneDetachedWebAreas(seen) /\ IsLook(look)
  BY <1>1, <1>2, LooksAre, PruneIs
<1>4. PICK o : o = IF st.id = NoState THEN BuildOutline(look) ELSE StabilizeRefs(st.outline, look)
  OBVIOUS
<1>5. PICK note, at : x = [id |-> id, outline |-> o, epoch |-> e, note |-> note, read |-> FALSE, by |-> "observe", epochs |-> {e}, since |-> e, at |-> at]
  BY <1>1, <1>3, <1>4 DEF CaptureOf
<1>6. x.id = id /\ x.outline = o
  BY <1>5
<1>7. Drawn(x, st)
  BY <1>3, <1>4, <1>6 DEF Drawn
<1>8. IsOutline(o) /\ Rooted(o)
  <2>1. look.root \in Wires(look)
    BY <1>3 DEF IsLook, Connected
  <2>2. CASE st.id = NoState
    BY <1>3, <1>4, <2>1, <2>2, BuildIs DEF Rooted
  <2>3. CASE st.id # NoState
    <3>1. Successor(StabilizeRefs(st.outline, look), st.outline, look)
      BY <1>3, StabilizeIs DEF Grounded
    <3> QED BY <1>4, <2>1, <2>3, <3>1 DEF Successor, Rooted
  <2> QED BY <2>2, <2>3
<1> QED BY <1>6, <1>7, <1>8 DEF Grounded

\* The index begins with the outline of a state.
LEMMA SeedMoves ==
  ASSUME NEW st, SeedSemanticIndex(st), IsOutline(st.outline), Rooted(st.outline)
  PROVE  IsOutline(index'.outline) /\ Rooted(index'.outline)
<1>1. PICK p : index' = [phase |-> p, outline |-> st.outline, epoch |-> st.epoch, epochs |-> st.epochs,
                         since |-> st.since, at |-> st.at, stale |-> FALSE]
  BY DEF SeedSemanticIndex
<1> QED BY <1>1

\* At the start there is no outline.
LEMMA NameStart == ObservationInit => NameInv
<1> SUFFICES ASSUME ObservationInit PROVE NameInv
  OBVIOUS
<1>1. ui \in Uis /\ nextState = 1
  BY ObservationAssumption DEF ObservationInit
<1>2. index.phase = "none" /\ index.outline = NoTree
  BY DEF ObservationInit, NoIndex
<1>3. DOMAIN saved = {}
  BY DEF ObservationInit
<1>4. \A c \in Calls : calls[c].st = Idle.st
  BY DEF ObservationInit
<1> QED BY <1>1, <1>2, <1>3, <1>4, NothingIs DEF NameInv

\* A state that keeps its id may be written back.
LEMMA SameIsMade ==
  ASSUME NameInv, NEW c \in Calls, RestMoves, NEW x, x.id = calls[c].st.id, IsOutline(x.outline),
         IF x.id = NoState THEN Wires(x.outline) = {} ELSE Rooted(x.outline)
  PROVE  Made(x, calls[c].st)
<1>1. Grounded(calls[c].st, nextState) /\ nextState \in Nat
  BY DEF NameInv
<1>2. Grounded(x, nextState) /\ x.id # nextState
  BY <1>1 DEF Grounded
<1>3. Grounded(x, nextState')
  BY <1>1, <1>2, GroundedLater DEF RestMoves
<1> QED BY <1>2, <1>3 DEF Made

\* So may a capture, under the next id.
LEMMA CaptureIsMade ==
  ASSUME NameInv, NEW c \in Calls, nextState' = nextState + 1, NEW tree \in Uis, NEW e,
         NEW x \in Captures(calls[c].st, tree, e, nextState)
  PROVE  Made(x, calls[c].st) /\ IsOutline(x.outline) /\ Rooted(x.outline) /\ x.id = nextState /\ Drawn(x, calls[c].st)
<1>1. Grounded(calls[c].st, nextState) /\ nextState \in Nat /\ nextState # NoState
  BY DEF NameInv, NoState
<1> QED BY <1>1, CapturesAre DEF Made

\* One lemma for each step of a call: starting it,
LEMMA StartMoves == ASSUME EpochInv, NameInv, NEW c \in Calls, Start(c) PROVE Moves(c)
<1>1. PICK op, id, ref, query, st :
        /\ id \in SavedIds \cup {NoState}
        /\ st = IF id = NoState THEN Idle.st ELSE Get(id)
        /\ calls' = [calls EXCEPT ![c] = [phase |-> "run", op |-> op, ref |-> ref, query |-> query, st |-> st]]
  <2>1. PICK op \in Ops, id \in SavedIds \cup {NoState} :
          LET st == IF id = NoState THEN Idle.st ELSE Get(id) IN
            \E ref, query : calls' = [calls EXCEPT ![c] = [phase |-> "run", op |-> op, ref |-> ref, query |-> query, st |-> st]]
    BY DEF Start
  <2>2. PICK st : st = IF id = NoState THEN Idle.st ELSE Get(id)
    OBVIOUS
  <2>3. PICK ref, query : calls' = [calls EXCEPT ![c] = [phase |-> "run", op |-> op, ref |-> ref, query |-> query, st |-> st]]
    BY <2>1, <2>2
  <2> QED BY <2>1, <2>2, <2>3, Zenon
<1>2. Grounded(st, nextState)
  <2>1. CASE id = NoState
    BY <1>1, <2>1, NothingIs DEF NameInv
  <2>2. CASE id # NoState
    <3>1. PICK i : i = CHOOSE j \in DOMAIN saved : saved[j].id = id
      OBVIOUS
    <3>2. i \in DOMAIN saved
      BY <1>1, <2>2, <3>1 DEF SavedIds
    <3>3. st = saved[i]
      BY <1>1, <2>2, <3>1 DEF Get
    <3> QED BY <3>2, <3>3 DEF NameInv
  <2> QED BY <2>1, <2>2
<1>3. PICK call : call = [phase |-> "run", op |-> op, ref |-> ref, query |-> query, st |-> st]
  OBVIOUS
<1>4. call.st = st /\ call.phase = "run" /\ calls' = [calls EXCEPT ![c] = call]
  BY <1>1, <1>3
<1>5. UNCHANGED <<ui, index, nextState, saved>>
  BY DEF Start
<1>6. RestMoves /\ SavedMoves(c)
  BY <1>5, Quiet DEF SavedMoves
<1> QED BY <1>2, <1>4, <1>5, <1>6, GoesOnMoves

\* observing,
LEMMA ObserveMoves == ASSUME EpochInv, NameInv, NEW c \in Calls, ObserveUi(c) PROVE Moves(c)
<1>1. PICK st \in Captures(calls[c].st, ui, epoch, nextState) : SeedSemanticIndex(st) /\ Reply(c, st, Told(st, {}))
  BY DEF ObserveUi
<1>2. nextState' = nextState + 1 /\ ui' = ui /\ ui \in Uis
  BY DEF ObserveUi, NameInv
<1>3. Made(st, calls[c].st) /\ IsOutline(st.outline) /\ Rooted(st.outline)
  BY <1>2, CaptureIsMade
<1>4. RestMoves
  BY <1>1, <1>2, <1>3, SeedMoves DEF RestMoves
<1> QED BY <1>1, <1>3, <1>4, ReplyMoves

\* A graft at an element that the state and the application have.
LEMMA GraftedAre ==
  ASSUME NEW st, NEW n, Grounded(st, n), ui \in Uis, NEW w \in Wires(st.outline), w \in Wires(ui), NEW from \in Nat,
         NEW look \in BoundedLooks(ui, w, from), NEW append
  PROVE  /\ IsOutline(GraftScopedOutline(st.outline, look, append)) /\ Rooted(GraftScopedOutline(st.outline, look, append))
         /\ st.id # NoState
<1>1. IsLook(look) /\ look.root = w
  BY LooksAre, ObservationAssumption
<1>2. IsOutline(st.outline) /\ st.id # NoState /\ Rooted(st.outline)
  BY DEF Grounded
<1> QED BY <1>1, <1>2, GraftIs DEF Rooted

\* expanding, by a graft onto the copy of the call,
LEMMA ExpandMoves == ASSUME EpochInv, NameInv, NEW c \in Calls, ExpandUi(c) PROVE Moves(c)
<1> DEFINE st == calls[c].st
           w == CHOOSE x \in Named(st.outline, calls[c].ref) : TRUE
           n == st.outline.nodes[w].next
<1>1. \/ Fail(c) \/ Reply(c, st, Told(st, {w}))
      \/ /\ Named(st.outline, calls[c].ref) # {} /\ w \in Wires(ui)
         /\ \E look \in BoundedLooks(ui, w, n) :
              \E o \in {GraftScopedOutline(st.outline, look, n > 0)} :
                \E grown \in {[st EXCEPT !.outline = o, !.epochs = @ \cup {epoch}]} : Reply(c, grown, Told(grown, {w}))
  BY Zenon DEF ExpandUi
<1>2. Named(st.outline, calls[c].ref) # {} => w \in Wires(st.outline)
  BY DEF Named
<1> HIDE DEF w, n
<1>3. Grounded(st, nextState) /\ IsState(st) /\ ui \in Uis
  BY DEF NameInv, EpochInv, StateOK
<1>4. RestMoves
  BY Quiet DEF ExpandUi
<1>5. CASE Fail(c)
  BY <1>4, <1>5, FailMoves
<1>6. CASE Reply(c, st, Told(st, {w}))
  <2>1. Made(st, st)
    BY <1>3, <1>4, SameIsMade DEF Grounded
  <2> QED BY <1>4, <1>6, <2>1, ReplyMoves
<1>7. ASSUME Named(st.outline, calls[c].ref) # {}, w \in Wires(ui), NEW look \in BoundedLooks(ui, w, n),
             NEW o, o = GraftScopedOutline(st.outline, look, n > 0),
             NEW grown, grown = [st EXCEPT !.outline = o, !.epochs = @ \cup {epoch}], Reply(c, grown, Told(grown, {w}))
      PROVE  Moves(c)
  <2>1. w \in Wires(st.outline) /\ n \in Nat
    BY <1>2, <1>3, <1>7 DEF n, Grounded, IsOutline, IsNode
  <2>2. IsOutline(o) /\ Rooted(o) /\ st.id # NoState
    BY <1>3, <1>7, <2>1, GraftedAre
  <2>3. grown.id = st.id /\ grown.outline = o
    <3> HIDE DEF st
    <3> QED BY <1>3, <1>7 DEF IsState
  <2>4. Made(grown, st)
    BY <1>4, <2>2, <2>3, SameIsMade
  <2>5. PICK told : told = Told(grown, {w})
    OBVIOUS
  <2> QED BY <1>4, <1>7, <2>4, <2>5, ReplyMoves
<1> QED BY <1>1, <1>5, <1>6, <1>7

\* searching, which may seed the index or wait for it,
LEMMA SearchMoves == ASSUME EpochInv, NameInv, NEW c \in Calls, SearchUi(c) \/ SearchWaits(c) PROVE Moves(c)
<1>1. UNCHANGED <<ui, index, nextState, saved>> /\ \E phase \in {"waiting", "ranked"} : calls' = [calls EXCEPT ![c].phase = phase]
  BY DEF SearchUi, SearchWaits
<1>2. PICK phase \in {"waiting", "ranked"} : calls' = [calls EXCEPT ![c].phase = phase]
  BY <1>1
<1>3. PICK old, call : old = calls[c] /\ call = [old EXCEPT !.phase = phase]
  OBVIOUS
<1>4. IsCall(old) /\ calls' = [calls EXCEPT ![c] = call]
  BY <1>2, <1>3 DEF EpochInv
<1>5. call.st = old.st /\ call.phase = phase
  BY <1>3, <1>4 DEF IsCall
<1>6. Grounded(call.st, nextState')
  BY <1>1, <1>3, <1>5 DEF NameInv
<1>7. RestMoves /\ SavedMoves(c)
  BY <1>1, Quiet DEF SavedMoves
<1> QED BY <1>2, <1>4, <1>5, <1>6, <1>7, GoesOnMoves

\* taking over the outline of the index,
LEMMA AdoptMoves == ASSUME EpochInv, NameInv, NEW c \in Calls, SearchAdopts(c) PROVE Moves(c)
<1>1. PICK st : st = calls[c].st
  OBVIOUS
<1>2. IsCall(calls[c]) /\ IsState(st) /\ Grounded(st, nextState) /\ UNCHANGED <<ui, index>> /\ nextState \in Nat \ {0}
  BY <1>1 DEF EpochInv, StateOK, NameInv, SearchAdopts
<1>3. PICK adopted, n : adopted = [st EXCEPT !.id = nextState, !.outline = index.outline, !.by = "index",
                                            !.epochs = index.epochs, !.since = index.since, !.at = index.at, !.note = n]
                        /\ n = NoteFromLook(st.note, index.outline)
  OBVIOUS
<1>4. adopted.id = nextState /\ adopted.outline = index.outline /\ adopted.by = "index"
  BY <1>2, <1>3 DEF IsState
<1>5. \/ calls' = [calls EXCEPT ![c].phase = "found", ![c].st = st] /\ saved' = saved /\ nextState' = nextState
      \/ /\ calls' = [calls EXCEPT ![c].phase = "found", ![c].st = adopted] /\ saved' = Persisted(adopted)
         /\ nextState' = nextState + 1 /\ index.phase # "none"
  <2>1. adopted = [st EXCEPT !.id = nextState, !.outline = index.outline, !.by = "index",
                            !.epochs = index.epochs, !.since = index.since, !.at = index.at, !.note = NoteFromLook(@, index.outline)]
    BY <1>3
  <2> QED BY <1>1, <2>1 DEF SearchAdopts, IndexFor
<1>6. RestMoves
  BY <1>2, <1>5 DEF RestMoves, NameInv
<1>7. ASSUME NEW next, calls' = [calls EXCEPT ![c].phase = "found", ![c].st = next], Grounded(next, nextState'), SavedMoves(c)
      PROVE  Moves(c)
  <2>1. PICK old, call : old = calls[c] /\ call = [old EXCEPT !.phase = "found", !.st = next]
    OBVIOUS
  <2>2. calls' = [calls EXCEPT ![c] = call]
    BY <1>7, <2>1
  <2>3. call.st = next /\ call.phase = "found"
    BY <1>2, <2>1 DEF IsCall
  <2> QED BY <1>6, <1>7, <2>2, <2>3, GoesOnMoves
<1>8. CASE calls' = [calls EXCEPT ![c].phase = "found", ![c].st = st] /\ saved' = saved /\ nextState' = nextState
  BY <1>2, <1>7, <1>8 DEF SavedMoves
<1>9. CASE /\ calls' = [calls EXCEPT ![c].phase = "found", ![c].st = adopted] /\ saved' = Persisted(adopted)
           /\ nextState' = nextState + 1 /\ index.phase # "none"
  <2>1. Grounded(adopted, nextState')
    BY <1>2, <1>4, <1>9 DEF Grounded, NameInv, NoState
  <2>2. Made(adopted, calls[c].st)
    BY <1>4, <2>1 DEF Made
  <2>3. SavedMoves(c)
    <3> SUFFICES ASSUME NEW i \in DOMAIN saved'
                 PROVE  (\E j \in DOMAIN saved : saved'[i] = saved[j]) \/ Made(saved'[i], calls[c].st)
      BY DEF SavedMoves
    <3>1. saved'[i] = adopted \/ \E j \in DOMAIN saved : saved'[i] = saved[j]
      BY <1>9, PersistedHas DEF EpochInv
    <3> QED BY <2>2, <3>1
  <2> QED BY <1>7, <1>9, <2>1, <2>3
<1> QED BY <1>5, <1>8, <1>9

\* searching by a look of its own,
LEMMA ReadsMoves == ASSUME EpochInv, NameInv, NEW c \in Calls, SearchReads(c) PROVE Moves(c)
<1>1. PICK st : st = calls[c].st
  OBVIOUS
<1>2. Grounded(st, nextState) /\ UNCHANGED <<ui, index>> /\ ui \in Uis
  BY <1>1 DEF NameInv, SearchReads
<1>3. \/ Fail(c) /\ UNCHANGED nextState
      \/ Reply(c, st, Found(st, calls[c].query)) /\ UNCHANGED nextState
      \/ /\ nextState' = nextState + 1
         /\ \E seen \in Captures(st, ui, epoch, nextState) : \E told : Reply(c, [seen EXCEPT !.read = TRUE], told)
  BY <1>1 DEF SearchReads
<1>4. RestMoves
  BY <1>2, <1>3 DEF RestMoves, NameInv
<1>5. CASE Fail(c)
  BY <1>4, <1>5, FailMoves
<1>6. CASE Reply(c, st, Found(st, calls[c].query))
  <2>1. Made(st, calls[c].st)
    BY <1>1, <1>2, <1>4, SameIsMade DEF Grounded
  <2> QED BY <1>4, <1>6, <2>1, ReplyMoves
<1>7. ASSUME nextState' = nextState + 1, NEW seen \in Captures(st, ui, epoch, nextState), NEW told,
             Reply(c, [seen EXCEPT !.read = TRUE], told)
      PROVE  Moves(c)
  <2>1. Made(seen, calls[c].st) /\ seen.id = nextState
    BY <1>1, <1>2, <1>7, CaptureIsMade
  <2>2. PICK x : x = [seen EXCEPT !.read = TRUE]
    OBVIOUS
  <2>3. IsState(seen)
    <3>1. epoch \in Nat
      BY DEF EpochInv
    <3> QED BY <1>7, <3>1, CaptureOK DEF StateOK
  <2>4. x.id = seen.id /\ x.outline = seen.outline /\ x.by = seen.by
    BY <2>2, <2>3 DEF IsState
  <2>5. Made(x, calls[c].st)
    BY <2>1, <2>4 DEF Made, Grounded, Drawn
  <2> QED BY <1>4, <1>7, <2>2, <2>5, ReplyMoves
<1> QED BY <1>3, <1>5, <1>6, <1>7

\* inspecting,
LEMMA InspectMoves == ASSUME EpochInv, NameInv, NEW c \in Calls, InspectUi(c) PROVE Moves(c)
<1>1. Reply(c, calls[c].st, {}) /\ RestMoves
  BY Quiet DEF InspectUi
<1>2. Made(calls[c].st, calls[c].st)
  BY <1>1, SameIsMade DEF NameInv, Grounded
<1> QED BY <1>1, <1>2, ReplyMoves

\* recovering an action whose state is stale,
LEMMA RecoverMoves == ASSUME EpochInv, NameInv, NEW c \in Calls, RecoverAct(c) PROVE Moves(c)
<1>1. PICK st, ref : st = calls[c].st /\ ref = calls[c].ref
  OBVIOUS
<1>2. PICK w \in Named(st.outline, ref) :
        \E fresh \in Captures(st, ui, epoch, nextState) :
          /\ SeedSemanticIndex(fresh)
          /\ \/ /\ \E x \in MatchFingerprint(st.outline, w, fresh.outline) :
                     calls' = [calls EXCEPT ![c].phase = "again", ![c].st = fresh, ![c].ref = fresh.outline.nodes[x].ref]
                /\ UNCHANGED <<saved, issued>>
             \/ Fail(c)
  <2> DEFINE Fresh(s, w) ==
               \E fresh \in Captures(s, ui, epoch, nextState) :
                 /\ SeedSemanticIndex(fresh)
                 /\ \/ /\ \E x \in MatchFingerprint(s.outline, w, fresh.outline) :
                            calls' = [calls EXCEPT ![c].phase = "again", ![c].st = fresh, ![c].ref = fresh.outline.nodes[x].ref]
                       /\ UNCHANGED <<saved, issued>>
                    \/ MayRefuse(s.outline, w, fresh.outline) /\ Fail(c)
  <2>1. \E s \in {calls[c].st} : \E w \in Named(s.outline, calls[c].ref) : Fresh(s, w)
    BY Zenon DEF RecoverAct
  <2>2. PICK w \in Named(st.outline, ref) : Fresh(st, w)
    <3> HIDE DEF Fresh
    <3> QED BY <1>1, <2>1
  <2>3. \E fresh \in Captures(st, ui, epoch, nextState) :
          /\ SeedSemanticIndex(fresh)
          /\ \/ /\ \E x \in MatchFingerprint(st.outline, w, fresh.outline) :
                     calls' = [calls EXCEPT ![c].phase = "again", ![c].st = fresh, ![c].ref = fresh.outline.nodes[x].ref]
                /\ UNCHANGED <<saved, issued>>
             \/ Fail(c)
    BY <2>2
  <2> HIDE DEF Fresh
  <2> QED BY <2>2, <2>3, Zenon
<1>3. PICK fresh \in Captures(st, ui, epoch, nextState) :
        /\ SeedSemanticIndex(fresh)
        /\ \/ /\ \E x \in MatchFingerprint(st.outline, w, fresh.outline) :
                   calls' = [calls EXCEPT ![c].phase = "again", ![c].st = fresh, ![c].ref = fresh.outline.nodes[x].ref]
              /\ UNCHANGED <<saved, issued>>
           \/ Fail(c)
  BY <1>2
<1>4. nextState' = nextState + 1 /\ ui' = ui /\ ui \in Uis
  BY DEF RecoverAct, NameInv
<1>5. Made(fresh, st) /\ IsOutline(fresh.outline) /\ Rooted(fresh.outline)
  BY <1>1, <1>4, CaptureIsMade
<1>6. RestMoves
  BY <1>3, <1>4, <1>5, SeedMoves DEF RestMoves
<1>7. ASSUME NEW x \in MatchFingerprint(st.outline, w, fresh.outline), saved' = saved,
             calls' = [calls EXCEPT ![c].phase = "again", ![c].st = fresh, ![c].ref = fresh.outline.nodes[x].ref]
      PROVE  Moves(c)
  <2>1. PICK old, to, call : old = calls[c] /\ to = fresh.outline.nodes[x].ref /\ call = [old EXCEPT !.phase = "again", !.st = fresh, !.ref = to]
    OBVIOUS
  <2>2. calls' = [calls EXCEPT ![c] = call] /\ IsCall(old)
    BY <1>7, <2>1 DEF EpochInv
  <2>3. call.st = fresh /\ call.ref = to
    BY <2>1, <2>2 DEF IsCall
  <2>4. Aims(calls[c], call)
    BY <1>1, <1>7, <2>1, <2>3 DEF Aims
  <2>5. SavedMoves(c)
    BY <1>7 DEF SavedMoves
  <2> QED BY <1>5, <1>6, <2>2, <2>3, <2>4, <2>5, GoesOnMoves DEF Made
<1> QED BY <1>3, <1>6, <1>7, FailMoves

\* and acting.
LEMMA ActMoves == ASSUME EpochInv, NameInv, NEW c \in Calls, ActUi(c) PROVE Moves(c)
<1>1. PICK st, ref : st = calls[c].st /\ ref = calls[c].ref
  OBVIOUS
<1>2. Grounded(st, nextState) /\ IsState(st) /\ ui \in Uis /\ nextState \in Nat \ {0}
  BY <1>1 DEF NameInv, EpochInv, StateOK
<1>3. CASE Fail(c) /\ UNCHANGED <<ui, epoch, nextState, index>>
  BY <1>3, Quiet, FailMoves
<1> DEFINE w == CHOOSE x \in Named(st.outline, ref) : TRUE
<1>4. ASSUME nextState' = nextState + 1, Named(st.outline, ref) # {}, ~Stale(st, w),
             NEW tree \in Uis, ui' = tree,
             NEW seen, seen \in Captures(st, tree, epoch + 1, nextState) \/ (tree = ui /\ seen \in Edits(st, w, epoch + 1, nextState)),
             NEW told, SeedSemanticIndex(Acted(seen, ref)), Reply(c, Acted(seen, ref), told)
      PROVE  Moves(c)
  <2>1. w \in Wires(st.outline) /\ w \in Wires(ui)
    <3>1. w \in Named(st.outline, ref)
      BY <1>4
    <3> HIDE DEF w
    <3> QED BY <1>4, <3>1 DEF Named, Stale
  <2> HIDE DEF w
  <2>2. IsState(seen) /\ Made(seen, st) /\ IsOutline(seen.outline) /\ Rooted(seen.outline)
    <3>1. CASE seen \in Captures(st, tree, epoch + 1, nextState)
      <4>1. Made(seen, st) /\ IsOutline(seen.outline) /\ Rooted(seen.outline)
        BY <1>1, <1>4, <3>1, CaptureIsMade
      <4>2. epoch + 1 \in Nat
        BY DEF EpochInv
      <4>3. StateOK(seen)
        BY <3>1, <4>2, CaptureOK
      <4> QED BY <4>1, <4>3 DEF StateOK
    <3>2. CASE seen \in Edits(st, w, epoch + 1, nextState)
      <4>1. PICK look \in BoundedLooks(ui, w, 0) : seen = EditOf(st, GraftScopedOutline(st.outline, look, FALSE), epoch + 1, nextState)
        BY <3>2 DEF Edits
      <4>2. PICK o : o = GraftScopedOutline(st.outline, look, FALSE)
        OBVIOUS
      <4>3. IsOutline(o) /\ Rooted(o)
        BY <1>2, <2>1, <4>1, <4>2, GraftedAre
      <4>4. PICK n : seen = [st EXCEPT !.id = nextState, !.outline = o, !.epoch = epoch + 1, !.by = "edit",
                                             !.note = n, !.epochs = st.epochs \cup {epoch + 1}]
        BY <4>1, <4>2 DEF EditOf
      <4>5. IsState(seen) /\ seen.id = nextState /\ seen.outline = o /\ seen.by = "edit"
        BY <1>2, <4>4 DEF IsState
      <4>6. Grounded(seen, nextState')
        BY <1>2, <1>4, <4>3, <4>5 DEF Grounded, NoState
      <4> QED BY <4>3, <4>5, <4>6 DEF Made
    <3> QED BY <1>4, <3>1, <3>2
  <2>3. PICK x : x = Acted(seen, ref)
    OBVIOUS
  <2>4. x.outline = seen.outline /\ x.id = seen.id /\ x.by = seen.by
    <3>1. PICK n : Acted(seen, ref) = [seen EXCEPT !.note = n]
      BY DEF Acted
    <3> QED BY <2>2, <2>3, <3>1 DEF IsState
  <2>5. Made(x, calls[c].st) /\ IsOutline(x.outline) /\ Rooted(x.outline)
    BY <1>1, <2>2, <2>4 DEF Made, Grounded, Drawn
  <2>6. RestMoves
    BY <1>4, <2>3, <2>5, SeedMoves DEF RestMoves
  <2> QED BY <1>4, <2>3, <2>5, <2>6, ReplyMoves
<1>5. CASE /\ Named(st.outline, ref) # {} /\ ~Stale(st, w) /\ nextState' = nextState + 1
           /\ \E tree \in IF calls[c].op = "press" THEN Changed(ui) \cup {ui} ELSE {ui} :
                /\ ui' = tree
                /\ \E seen \in IF calls[c].op = "press" THEN Captures(st, tree, epoch + 1, nextState)
                               ELSE Edits(st, w, epoch + 1, nextState) :
                     \E next \in {Acted(seen, ref)} : SeedSemanticIndex(next) /\ Reply(c, next, ToldChanges(st, next))
  <2> HIDE DEF w
  <2>1. PICK tree \in IF calls[c].op = "press" THEN Changed(ui) \cup {ui} ELSE {ui} :
                /\ ui' = tree
                /\ \E seen \in IF calls[c].op = "press" THEN Captures(st, tree, epoch + 1, nextState)
                               ELSE Edits(st, w, epoch + 1, nextState) :
                     \E next \in {Acted(seen, ref)} : SeedSemanticIndex(next) /\ Reply(c, next, ToldChanges(st, next))
    BY <1>5
  <2>2. tree \in Uis
    BY <1>2, <2>1, ObservationAssumption
  <2>3. PICK seen \in IF calls[c].op = "press" THEN Captures(st, tree, epoch + 1, nextState) ELSE Edits(st, w, epoch + 1, nextState) :
          SeedSemanticIndex(Acted(seen, ref)) /\ Reply(c, Acted(seen, ref), ToldChanges(st, Acted(seen, ref)))
    BY <2>1
  <2>4. seen \in Captures(st, tree, epoch + 1, nextState) \/ (tree = ui /\ seen \in Edits(st, w, epoch + 1, nextState))
    BY <2>1, <2>3
  <2> QED BY <1>4, <1>5, <2>1, <2>2, <2>3, <2>4
<1>6. \/ Fail(c) /\ UNCHANGED <<ui, epoch, nextState, index>>
      \/ /\ Named(st.outline, ref) # {} /\ ~Stale(st, w) /\ nextState' = nextState + 1
         /\ \E tree \in IF calls[c].op = "press" THEN Changed(ui) \cup {ui} ELSE {ui} :
              /\ ui' = tree
              /\ \E seen \in IF calls[c].op = "press" THEN Captures(st, tree, epoch + 1, nextState)
                             ELSE Edits(st, w, epoch + 1, nextState) :
                   \E next \in {Acted(seen, ref)} : SeedSemanticIndex(next) /\ Reply(c, next, ToldChanges(st, next))
  BY <1>1, Zenon DEF ActUi
<1> QED BY <1>3, <1>5, <1>6

\* The crawl: a graft, or an element that is gone.
LEMMA CrawlMoves == ASSUME NameInv, EpochInv, CrawlSlice \/ CrawlEnd PROVE RestMoves /\ UNCHANGED <<calls, saved>>
<1>1. UNCHANGED <<calls, saved, ui, nextState>> /\ IsIndex(index) /\ ui \in Uis /\ IsOutline(index.outline) /\ index.phase = "crawling"
  BY DEF CrawlSlice, CrawlEnd, NameInv, EpochInv
<1>2. Rooted(index.outline)
  BY <1>1 DEF NameInv
<1>3. SUFFICES IsOutline(index'.outline) /\ Rooted(index'.outline)
  BY <1>1 DEF RestMoves
<1>4. CASE CrawlEnd
  <2>1. PICK p : index' = [index EXCEPT !.phase = p]
    BY <1>4 DEF CrawlEnd
  <2>2. index'.outline = index.outline
    BY <1>1, <2>1 DEF IsIndex
  <2> QED BY <1>1, <1>2, <2>2
<1>5. CASE CrawlSlice
  <2> DEFINE o == index.outline
             w == Head(Frontiers(o))
             n == o.nodes[w].next
  <2>1. /\ Frontiers(o) # <<>>
        /\ IF w \in Wires(ui)
           THEN \E look \in BoundedLooks(ui, w, n) : \E grafted \in {GraftScopedOutline(o, look, n > 0)} :
                  \E es, p : index' = [index EXCEPT !.outline = grafted, !.epochs = es, !.phase = p]
           ELSE index' = [index EXCEPT !.outline.nodes[w].trunc = FALSE, !.outline.nodes[w].next = 0, !.stale = TRUE]
    <3>1. /\ Frontiers(o) # <<>>
          /\ IF w \in Wires(ui)
             THEN \E look \in BoundedLooks(ui, w, o.nodes[w].next) :
                    \E grafted \in {GraftScopedOutline(o, look, o.nodes[w].next > 0)} :
                       index' = [index EXCEPT !.outline = grafted, !.epochs = @ \cup {epoch},
                                              !.phase = IF Advanced(o, grafted, w) THEN @ ELSE "error"]
             ELSE index' = [index EXCEPT !.outline.nodes[w].trunc = FALSE, !.outline.nodes[w].next = 0, !.stale = TRUE]
      BY <1>5, Zenon DEF CrawlSlice
    <3> HIDE DEF o, w
    <3>2. ASSUME NEW look, NEW grafted, index' = [index EXCEPT !.outline = grafted, !.epochs = @ \cup {epoch},
                                              !.phase = IF Advanced(o, grafted, w) THEN @ ELSE "error"]
          PROVE  \E es, p : index' = [index EXCEPT !.outline = grafted, !.epochs = es, !.phase = p]
      <4>1. PICK es, p : es = index.epochs \cup {epoch} /\ p = IF Advanced(o, grafted, w) THEN index.phase ELSE "error"
        OBVIOUS
      <4>2. index' = [index EXCEPT !.outline = grafted, !.epochs = es, !.phase = p]
        BY <3>2, <4>1
      <4> QED BY <4>2
    <3> QED BY <3>1, <3>2
  <2>2. w \in Wires(o)
    <3>1. PICK open, begun, order :
             open \subseteq Wires(o) /\ begun \subseteq Wires(o) /\ order = BreadthFirst(o)
             /\ Frontiers(o) = Only(order, begun) \o Only(order, open \ begun)
      <4> HIDE DEF o
      <4>1. PICK open : open = {x \in Wires(o) : o.nodes[x].trunc}
        OBVIOUS
      <4>2. PICK begun : begun = {x \in open : o.nodes[x].next > 0}
        OBVIOUS
      <4> QED BY <4>1, <4>2 DEF Frontiers
    <3>2. order \in Seq(Wires(o))
      BY <1>1, <1>2, <3>1, LevelsIn DEF BreadthFirst, IsOutline, Closed, Rooted
    <3>3. Only(order, begun) \in Seq(Wires(o) \cap begun) /\ Only(order, open \ begun) \in Seq(Wires(o) \cap (open \ begun))
      BY <3>2, OnlyIs
    <3>4. Only(order, begun) \in Seq(Wires(o)) /\ Only(order, open \ begun) \in Seq(Wires(o))
      BY <3>3
    <3>5. Frontiers(o) \in Seq(Wires(o))
      BY <3>1, <3>4
    <3>6. PICK f : f = Frontiers(o) /\ f \in Seq(Wires(o)) /\ f # <<>>
      BY <2>1, <3>5
    <3>7. Head(f) \in Wires(o)
      BY <3>6
    <3> QED BY <3>6, <3>7
  <2> HIDE DEF w
  <2>3. PICK node : node = o.nodes[w] /\ IsNode(node) /\ n = node.next /\ n \in Nat
    BY <1>1, <2>2 DEF IsOutline, IsNode
  <2>4. CASE w \in Wires(ui)
    <3>1. PICK look \in BoundedLooks(ui, w, n) :
             \E es, p : index' = [index EXCEPT !.outline = GraftScopedOutline(o, look, n > 0), !.epochs = es, !.phase = p]
      BY <2>1, <2>4
    <3>2. IsLook(look) /\ look.root = w
      BY <1>1, <2>3, <2>4, LooksAre, ObservationAssumption
    <3>3. PICK g : g = GraftScopedOutline(o, look, n > 0)
      OBVIOUS
    <3>4. IsOutline(g) /\ g.root = o.root /\ Wires(o) \subseteq Wires(g)
      BY <1>1, <2>2, <3>2, <3>3, GraftIs
    <3>5. PICK es, p : index' = [index EXCEPT !.outline = g, !.epochs = es, !.phase = p]
      BY <3>1, <3>3
    <3>6. index'.outline = g
      BY <1>1, <3>5 DEF IsIndex
    <3> QED BY <1>2, <3>4, <3>6 DEF Rooted
  <2>5. CASE w \notin Wires(ui)
    <3>1. index' = [index EXCEPT !.outline.nodes[w].trunc = FALSE, !.outline.nodes[w].next = 0, !.stale = TRUE]
      BY <2>1, <2>5
    <3>2. PICK q : q = o
      OBVIOUS
    <3>3. PICK m : m = [node EXCEPT !.trunc = FALSE, !.next = 0]
      OBVIOUS
    <3>4. PICK t : t = [q.nodes EXCEPT ![w] = m]
      OBVIOUS
    <3>5. PICK p : p = [q EXCEPT !.nodes = t]
      OBVIOUS
    <3>6. index' = [index EXCEPT !.outline = p, !.stale = TRUE]
      <4>1. PICK a : a = [q EXCEPT !.nodes[w].trunc = FALSE]
        OBVIOUS
      <4>2. PICK b : b = [a EXCEPT !.nodes[w].next = 0]
        OBVIOUS
      <4>3. q = [root |-> q.root, nodes |-> q.nodes] /\ w \in DOMAIN q.nodes /\ q.nodes[w] = node
        BY <1>1, <2>2, <2>3, <3>2 DEF IsOutline, Wires
      <4>4. a.nodes = [q.nodes EXCEPT ![w] = [node EXCEPT !.trunc = FALSE]] /\ a = [root |-> q.root, nodes |-> a.nodes]
        BY <4>1, <4>3
      <4>5. PICK half : half = [node EXCEPT !.trunc = FALSE] /\ w \in DOMAIN a.nodes /\ a.nodes[w] = half
        BY <4>3, <4>4
      <4>6. b.nodes = [a.nodes EXCEPT ![w] = [half EXCEPT !.next = 0]] /\ b = [root |-> q.root, nodes |-> b.nodes]
        <5>1. PICK r, f : r = q.root /\ f = a.nodes /\ a = [root |-> r, nodes |-> f] /\ w \in DOMAIN f /\ f[w] = half
          BY <4>4, <4>5
        <5>2. b.nodes = [f EXCEPT ![w] = [half EXCEPT !.next = 0]] /\ b = [root |-> r, nodes |-> b.nodes]
          BY <4>2, <5>1
        <5> QED BY <4>5, <5>1, <5>2
      <4>7. b.nodes = [q.nodes EXCEPT ![w] = m]
        <5>1. [half EXCEPT !.next = 0] = m
          BY <3>3, <4>5
        <5>2. a.nodes = [q.nodes EXCEPT ![w] = half]
          BY <4>4, <4>5
        <5> QED BY <4>6, <5>1, <5>2
      <4>8. b = p
        BY <3>4, <3>5, <4>3, <4>6, <4>7
      <4>9. PICK x : x = index
        OBVIOUS
      <4>10. index' = [x EXCEPT !.outline.nodes[w].trunc = FALSE, !.outline.nodes[w].next = 0, !.stale = TRUE] /\ x.outline = q /\ IsIndex(x)
        BY <1>1, <3>1, <3>2, <4>9
      <4>11. PICK y : y = [x EXCEPT !.outline = a]
        OBVIOUS
      <4>12. [x EXCEPT !.outline.nodes[w].trunc = FALSE] = y
        BY <4>1, <4>10, <4>11
      <4>13. PICK z : z = [x EXCEPT !.outline = b]
        OBVIOUS
      <4>14. [y EXCEPT !.outline.nodes[w].next = 0] = z
        <5>1. y.outline = a
          BY <4>10, <4>11 DEF IsIndex
        <5>2. [y EXCEPT !.outline.nodes[w].next = 0] = [y EXCEPT !.outline = b]
          BY <4>2, <5>1
        <5>3. [y EXCEPT !.outline = b] = z
          BY <4>10, <4>11, <4>13 DEF IsIndex
        <5> QED BY <5>2, <5>3
      <4>15. index' = [z EXCEPT !.stale = TRUE]
        BY <4>10, <4>12, <4>14
      <4>16. index' = [x EXCEPT !.outline = b, !.stale = TRUE]
        BY <4>13, <4>15
      <4> QED BY <4>8, <4>9, <4>16
    <3>7. index'.outline = p
      BY <1>1, <3>6 DEF IsIndex
    <3>8. IsNode(m) /\ m.ref = node.ref /\ m.kids = node.kids
      BY <2>3, <3>3 DEF IsNode
    <3>9. IsOutline(q) /\ q.nodes[w] = node /\ w \in Wires(q)
      BY <1>1, <2>2, <2>3, <3>2
    <3>10. p = [root |-> p.root, nodes |-> p.nodes] /\ p.root = q.root /\ p.nodes = t
      <4>1. q = [root |-> q.root, nodes |-> q.nodes]
        BY <3>9 DEF IsOutline
      <4> QED BY <3>5, <4>1
    <3>11. Wires(p) = Wires(q) /\ \A x \in Wires(q) : p.nodes[x] = IF x = w THEN m ELSE q.nodes[x]
      BY <3>4, <3>9, <3>10 DEF Wires
    <3>12. \A x \in Wires(q) : IsNode(p.nodes[x]) /\ p.nodes[x].ref = q.nodes[x].ref /\ Kids(p, x) = Kids(q, x)
      BY <3>8, <3>9, <3>11 DEF IsOutline, Kids
    <3>13. IsOutline(p)
      BY <3>9, <3>10, <3>11, <3>12 DEF IsOutline, Closed
    <3> QED BY <1>2, <3>2, <3>7, <3>10, <3>11, <3>13 DEF Rooted
  <2> QED BY <2>4, <2>5
<1> QED BY <1>4, <1>5

\* Every step.
LEMMA CallMovesOn == ASSUME EpochInv, NameInv, NEW c \in Calls, Start(c) \/ CallStep(c) PROVE Moves(c)
BY StartMoves, ObserveMoves, ExpandMoves, SearchMoves, AdoptMoves, ReadsMoves, InspectMoves, RecoverMoves, ActMoves DEF CallStep

\* What is not a step of a call.
LEMMA OtherMoves ==
  ASSUME EpochInv, NameInv, CrawlSlice \/ CrawlEnd \/ UserChange \/ Rest \/ UNCHANGED oVars
  PROVE  RestMoves /\ UNCHANGED <<calls, saved>>
<1>1. CASE CrawlSlice \/ CrawlEnd
  BY <1>1, CrawlMoves
<1>2. CASE UserChange
  <2>1. ui' \in Uis
    BY <1>2, ObservationAssumption DEF UserChange, NameInv
  <2> QED BY <1>2, <2>1 DEF UserChange, RestMoves, NameInv
<1>3. CASE Rest \/ UNCHANGED oVars
  BY <1>3, Quiet DEF Rest, oVars
<1> QED BY <1>1, <1>2, <1>3

\* Every step keeps NameInv.
LEMMA NameStep == EpochInv /\ NameInv /\ [ObservationNext]_oVars => NameInv'
<1> SUFFICES ASSUME EpochInv, NameInv, [ObservationNext]_oVars PROVE NameInv'
  OBVIOUS
<1>1. ASSUME RestMoves, NEW st, Grounded(st, nextState) PROVE Grounded(st, nextState')
  BY <1>1, GroundedLater DEF RestMoves, NameInv
<1>2. CASE RestMoves /\ UNCHANGED <<calls, saved>>
  BY <1>1, <1>2 DEF NameInv, RestMoves
<1>3. ASSUME NEW c \in Calls, Moves(c) PROVE NameInv'
  <2>1. RestMoves
    BY <1>3 DEF Moves
  <2>2. \A d \in Calls : Grounded(calls'[d].st, nextState')
    BY <1>1, <1>3, <2>1 DEF Moves, CallMoves, NameInv
  <2>3. \A i \in DOMAIN saved' : Grounded(saved'[i], nextState')
    <3> SUFFICES ASSUME NEW i \in DOMAIN saved' PROVE Grounded(saved'[i], nextState')
      OBVIOUS
    <3>1. (\E j \in DOMAIN saved : saved'[i] = saved[j]) \/ Made(saved'[i], calls[c].st)
      BY <1>3 DEF Moves, SavedMoves
    <3> QED BY <1>1, <2>1, <3>1 DEF Made, NameInv
  <2> QED BY <2>1, <2>2, <2>3 DEF NameInv, RestMoves
<1> QED BY <1>2, <1>3, CallMovesOn, OtherMoves DEF ObservationNext

\* Whatever the application shows and however the looks, grafts and successors
\* follow one another: in a saved state, and in the index, a ref is the name of
\* one element (buildOutline, stabilizeOutlineRefs, graftScopedOutline).
THEOREM RefsNameOneElement == ObservationSafety => []RefNamesOneElement
<1>1. NameInv => RefNamesOneElement
  <2> SUFFICES ASSUME NameInv PROVE RefNamesOneElement
    OBVIOUS
  <2>1. \A o \in Outlines : IsOutline(o)
    BY DEF NameInv, Grounded, Outlines
  <2> QED BY <2>1 DEF IsOutline, RefNamesOneElement
<1>2. EpochInv /\ NameInv /\ [ObservationNext]_oVars => EpochInv' /\ NameInv'
  BY EpochStep, NameStep
<1> QED BY <1>1, <1>2, EpochStart, NameStart, PTL DEF ObservationSafety

--------------------------------------------------------------------------------
(* Places: the texts from the root down to an element end with its own.       *)

PathRow(o, last, n, x) ==
  LET above == Parents(o, x)
  IN IF n = 0 \/ above = {} THEN <<x>> ELSE Append(last[CHOOSE p \in above : TRUE], x)
PathUpTo(f, o, n) == f = [k \in 0 .. n |-> [x \in Wires(o) |-> PathRow(o, f[k - 1], k, x)]]

\* The recursive definition in PathTo has a solution.
LEMMA PathExists == ASSUME NEW o, NEW n \in Nat PROVE \E f : PathUpTo(f, o, n)
<1> DEFINE S == {m \in Nat : \E f : PathUpTo(f, o, m)}
           Row(f, k) == [x \in Wires(o) |-> PathRow(o, f[k - 1], k, x)]
<1>1. 0 \in S
  <2> DEFINE f == [k \in 0 .. 0 |-> [x \in Wires(o) |-> <<x>>]]
  <2>1. \A k \in 0 .. 0 : f[k] = Row(f, k)
    <3>1. \A last, x : PathRow(o, last, 0, x) = <<x>>
      BY DEF PathRow
    <3> QED BY <3>1
  <2>2. f = [k \in 0 .. 0 |-> Row(f, k)]
    <3>1. f = [k \in 0 .. 0 |-> f[k]]
      OBVIOUS
    <3> HIDE DEF f
    <3> QED BY <2>1, <3>1
  <2>3. PathUpTo(f, o, 0)
    BY <2>2, Zenon DEF PathUpTo
  <2> HIDE DEF f
  <2> QED BY <2>3
<1>2. ASSUME NEW m \in Nat, m \in S PROVE m + 1 \in S
  <2>1. PICK f : PathUpTo(f, o, m)
    BY <1>2
  <2> DEFINE g == [k \in 0 .. m + 1 |-> IF k = m + 1 THEN [x \in Wires(o) |-> PathRow(o, f[m], m + 1, x)] ELSE f[k]]
  <2>2. \A k \in 0 .. m : f[k] = Row(f, k)
    BY <2>1, Zenon DEF PathUpTo
  <2>3. ASSUME NEW k \in 0 .. m + 1 PROVE g[k] = Row(g, k)
    <3>1. CASE k = m + 1
      <4>1. g[k] = [x \in Wires(o) |-> PathRow(o, f[m], m + 1, x)] /\ g[k - 1] = f[m]
        BY <3>1
      <4> HIDE DEF g
      <4> QED BY <3>1, <4>1
    <3>2. CASE k # m + 1
      <4>1. k \in 0 .. m /\ g[k] = f[k] /\ (k # 0 => g[k - 1] = f[k - 1])
        BY <3>2
      <4> HIDE DEF g
      <4>2. CASE k # 0
        BY <2>2, <4>1, <4>2
      <4>3. CASE k = 0
        <5>1. \A a, b, x : PathRow(o, a, k, x) = PathRow(o, b, k, x)
          BY <4>3 DEF PathRow
        <5>2. Row(f, k) = Row(g, k)
          BY <5>1, Zenon
        <5> QED BY <2>2, <4>1, <5>2, Zenon
      <4> QED BY <4>2, <4>3
    <3> QED BY <3>1, <3>2
  <2>4. g = [k \in 0 .. m + 1 |-> Row(g, k)]
    <3>1. g = [k \in 0 .. m + 1 |-> g[k]]
      OBVIOUS
    <3> HIDE DEF g
    <3> QED BY <2>3, <3>1
  <2>5. PathUpTo(g, o, m + 1)
    BY <2>4, Zenon DEF PathUpTo
  <2> HIDE DEF g
  <2> QED BY <2>5
<1>3. n \in S
  <2> HIDE DEF S
  <2> QED BY <1>1, <1>2, SetInduction
<1> QED BY <1>3

\* The path to an element ends in it.
LEMMA PathIs ==
  ASSUME NEW o, IsFiniteSet(Wires(o)), NEW w \in Wires(o)
  PROVE  \E m \in Nat : /\ PathTo(o, w) \in Seq(Wires(o)) /\ m = Len(PathTo(o, w))
                        /\ m >= 1 /\ DOMAIN PathTo(o, w) = 1 .. m /\ PathTo(o, w)[m] = w
<1> DEFINE N == Cardinality(Wires(o))
           W == Wires(o)
           path == CHOOSE f : PathUpTo(f, o, N)
<1>1. N \in Nat
  BY FS_CardinalityType
<1>2. PathUpTo(path, o, N)
  <2> HIDE DEF N
  <2> QED BY <1>1, PathExists
<1>3. PathTo(o, w) = path[N][w]
  BY Zenon DEF PathTo, PathUpTo, PathRow
<1> HIDE DEF path, N
<1>4. \A k \in 0 .. N : path[k] = [x \in W |-> PathRow(o, path[k - 1], k, x)]
  BY <1>2, Zenon DEF PathUpTo
<1> DEFINE Good(s, x) == s \in Seq(W) /\ \E m \in Nat : m = Len(s) /\ m >= 1 /\ DOMAIN s = 1 .. m /\ s[m] = x
           S == {k \in Nat : k <= N => \A x \in W : Good(path[k][x], x)}
<1>5. ASSUME NEW x \in W PROVE Good(<<x>>, x)
  OBVIOUS
<1>6. ASSUME NEW s, NEW p, Good(s, p), NEW x \in W PROVE Good(Append(s, x), x)
  <2>1. PICK m \in Nat : m = Len(s) /\ s \in Seq(W)
    BY <1>6
  <2>2. Append(s, x) \in Seq(W) /\ Len(Append(s, x)) = m + 1 /\ Append(s, x)[m + 1] = x /\ DOMAIN Append(s, x) = 1 .. m + 1
    BY <2>1
  <2>3. m + 1 \in Nat /\ m + 1 >= 1
    OBVIOUS
  <2> QED BY <2>2, <2>3
<1> HIDE DEF Good
<1>7. 0 \in S
  <2>1. \A x \in W : path[0][x] = <<x>>
    <3>1. \A last, x : PathRow(o, last, 0, x) = <<x>>
      BY DEF PathRow
    <3>2. path[0] = [x \in W |-> PathRow(o, path[0 - 1], 0, x)]
      BY <1>1, <1>4
    <3> HIDE DEF W
    <3> QED BY <3>1, <3>2
  <2> QED BY <1>5, <2>1
<1>8. ASSUME NEW k \in Nat, k \in S PROVE k + 1 \in S
  <2> SUFFICES ASSUME k + 1 <= N, NEW x \in W PROVE Good(path[k + 1][x], x)
    OBVIOUS
  <2>1. path[k + 1] = [y \in W |-> PathRow(o, path[(k + 1) - 1], k + 1, y)] /\ (k + 1) - 1 = k
    BY <1>1, <1>4
  <2>2. path[k + 1][x] = PathRow(o, path[k], k + 1, x)
    BY <2>1
  <2>3. \A y \in W : Good(path[k][y], y)
    BY <1>1, <1>8
  <2>4. CASE Parents(o, x) = {}
    <3>1. PathRow(o, path[k], k + 1, x) = <<x>>
      BY <2>4 DEF PathRow
    <3> QED BY <1>5, <2>2, <3>1
  <2>5. CASE Parents(o, x) # {}
    <3>1. PICK p : p = CHOOSE q \in Parents(o, x) : TRUE
      OBVIOUS
    <3>2. p \in W
      BY <2>5, <3>1 DEF Parents
    <3>3. PathRow(o, path[k], k + 1, x) = Append(path[k][p], x)
      BY <2>5, <3>1 DEF PathRow
    <3> QED BY <1>6, <2>2, <2>3, <3>2, <3>3
  <2> QED BY <2>4, <2>5
<1>9. N \in S
  <2> HIDE DEF S
  <2> QED BY <1>1, <1>7, <1>8, SetInduction
<1>10. Good(path[N][w], w)
  BY <1>1, <1>9
<1> QED BY <1>3, <1>10 DEF Good

\* What lies in the same place has the same token.
LEMMA KeyTells ==
  ASSUME NEW a, IsFiniteSet(Wires(a)), NEW b \in Wires(a), NEW o, IsFiniteSet(Wires(o)), NEW w \in Wires(o),
         StructuralKey(a, b) = StructuralKey(o, w)
  PROVE  Token(a, b) = Token(o, w)
<1>1. ASSUME NEW u, IsFiniteSet(Wires(u)), NEW v \in Wires(u)
      PROVE  \E m \in Nat : Len(StructuralKey(u, v)) = m /\ StructuralKey(u, v)[m][1] = Token(u, v)
  <2>1. PICK m \in Nat : PathTo(u, v) \in Seq(Wires(u)) /\ m = Len(PathTo(u, v)) /\ m >= 1 /\ DOMAIN PathTo(u, v) = 1 .. m /\ PathTo(u, v)[m] = v
    BY <1>1, PathIs
  <2>2. PICK path : path = PathTo(u, v)
    OBVIOUS
  <2>3. PICK key : key = [i \in DOMAIN path |-> <<Token(u, path[i]), PeerIndex(u, path[i])>>]
    OBVIOUS
  <2>4. PICK X : X = {key[i] : i \in 1 .. m}
    OBVIOUS
  <2>5. key \in Seq(X) /\ Len(key) = m
    BY <2>1, <2>2, <2>3, <2>4
  <2>6. StructuralKey(u, v) = key
    BY <2>2, <2>3, <2>5, LeadingNothing DEF StructuralKey
  <2>7. key[m] = <<Token(u, v), PeerIndex(u, v)>>
    BY <2>1, <2>2, <2>3
  <2>8. key[m][1] = Token(u, v)
    BY <2>7
  <2> QED BY <2>5, <2>6, <2>8
<1>2. PICK m \in Nat : Len(StructuralKey(a, b)) = m /\ StructuralKey(a, b)[m][1] = Token(a, b)
  BY <1>1
<1>3. PICK n \in Nat : Len(StructuralKey(o, w)) = n /\ StructuralKey(o, w)[n][1] = Token(o, w)
  BY <1>1
<1> QED BY <1>2, <1>3

\* So does the path of tokens by which a recovery looks for an element.
LEMMA PlaceTells ==
  ASSUME NEW a, IsFiniteSet(Wires(a)), NEW b \in Wires(a), NEW o, IsFiniteSet(Wires(o)), NEW w \in Wires(o),
         TokenPath(a, b) = TokenPath(o, w)
  PROVE  LabelToken(a.nodes[b]) = LabelToken(o.nodes[w])
<1>1. ASSUME NEW u, IsFiniteSet(Wires(u)), NEW v \in Wires(u)
      PROVE  \E m \in Nat : Len(TokenPath(u, v)) = m /\ TokenPath(u, v)[m] = LabelToken(u.nodes[v])
  <2>1. PICK m \in Nat : PathTo(u, v) \in Seq(Wires(u)) /\ m = Len(PathTo(u, v)) /\ m >= 1 /\ DOMAIN PathTo(u, v) = 1 .. m /\ PathTo(u, v)[m] = v
    BY <1>1, PathIs
  <2>2. PICK path : path = PathTo(u, v)
    OBVIOUS
  <2>3. PICK key : key = [i \in DOMAIN path |-> LabelToken(u.nodes[path[i]])]
    OBVIOUS
  <2>4. PICK X : X = {key[i] : i \in 1 .. m}
    OBVIOUS
  <2>5. key \in Seq(X) /\ Len(key) = m
    BY <2>1, <2>2, <2>3, <2>4
  <2>6. TokenPath(u, v) = key
    BY <2>2, <2>3, <2>5, LeadingNothing DEF TokenPath
  <2>7. key[m] = LabelToken(u.nodes[v])
    BY <2>1, <2>2, <2>3
  <2> QED BY <2>5, <2>6, <2>7
<1>2. PICK m \in Nat : Len(TokenPath(a, b)) = m /\ TokenPath(a, b)[m] = LabelToken(a.nodes[b])
  BY <1>1
<1>3. PICK n \in Nat : Len(TokenPath(o, w)) = n /\ TokenPath(o, w)[n] = LabelToken(o.nodes[w])
  BY <1>1
<1> QED BY <1>2, <1>3

--------------------------------------------------------------------------------
(* Refs that are carried over, and calls that are aimed anew.                 *)

\* An element of a fresh look that has the ref of an element of the base
\* is that element still, or lies in its place with its token.
LEMMA DrawnCarries ==
  ASSUME NEW st, NEW n, Grounded(st, n), NEW x, Drawn(x, st), NEW b \in Wires(st.outline), NEW w \in Wires(x.outline),
         st.outline.nodes[b].ref = x.outline.nodes[w].ref
  PROVE  \/ b = w /\ WireIdentityCompatible(st.outline.nodes[b], x.outline.nodes[w])
         \/ Token(st.outline, b) = Token(x.outline, w)
<1>1. st.id # NoState /\ IsOutline(st.outline)
  BY DEF Grounded
<1>2. PICK look : IsLook(look) /\ x.outline = StabilizeRefs(st.outline, look)
  BY <1>1 DEF Drawn
<1>3. PICK base, o : base = st.outline /\ o = x.outline
  OBVIOUS
<1>4. Successor(o, base, look) /\ IsOutline(base) /\ b \in Wires(base) /\ w \in Wires(o) /\ base.nodes[b].ref = o.nodes[w].ref
  BY <1>1, <1>2, <1>3, StabilizeIs
<1>5. w \in Wires(look) /\ SameLooks(o.nodes[w], look.nodes[w])
  BY <1>4 DEF Successor
<1>6. base.nodes[b].ref \in Nat
  BY <1>4 DEF IsOutline, IsNode
<1>7. PICK r : r = StableRef(base, look, KeysOf(base), w) /\ r # NoRef /\ r = base.nodes[b].ref
  BY <1>4, <1>5, <1>6 DEF Successor
<1>8. PICK d \in Wires(base) : /\ r = base.nodes[d].ref
                               /\ \/ d = w /\ WireIdentityCompatible(base.nodes[w], look.nodes[w])
                                  \/ KeysOf(base)[d] = StructuralKey(look, w)
  <2>1. PICK keys : keys = KeysOf(base)
    OBVIOUS
  <2>2. IsOutline(base) /\ r = StableRef(base, look, keys, w) /\ r # NoRef
    BY <1>4, <1>7, <2>1
  <2>3. \E d \in Wires(base) : /\ r = base.nodes[d].ref
                               /\ \/ d = w /\ WireIdentityCompatible(base.nodes[w], look.nodes[w])
                                  \/ keys[d] = StructuralKey(look, w)
    BY <2>2, StableIs
  <2> QED BY <2>1, <2>3
<1>9. d = b
  BY <1>4, <1>7, <1>8 DEF IsOutline
<1>10. ASSUME WireIdentityCompatible(base.nodes[w], look.nodes[w]) PROVE WireIdentityCompatible(base.nodes[w], o.nodes[w])
  <2>1. PICK v, m, k : v = base.nodes[w] /\ m = look.nodes[w] /\ k = o.nodes[w]
    OBVIOUS
  <2>2. SameLooks(k, m) /\ WireIdentityCompatible(v, m)
    BY <1>5, <1>10, <2>1
  <2>3. Reads(k) = Reads(m)
    BY <2>2 DEF SameLooks, Reads
  <2>4. WireIdentityCompatible(v, k)
    BY <2>2, <2>3 DEF SameLooks, WireIdentityCompatible
  <2> QED BY <2>1, <2>4
<1>11. ASSUME KeysOf(base)[b] = StructuralKey(look, w) PROVE Token(base, b) = Token(o, w)
  <2>1. StructuralKey(base, b) = StructuralKey(look, w)
    BY <1>4, <1>11 DEF KeysOf
  <2>2. Token(base, b) = Token(look, w)
    BY <1>2, <1>4, <1>5, <2>1, KeyTells DEF IsOutline, IsLook
  <2>3. Token(look, w) = Token(o, w)
    BY <1>5 DEF Token, SameLooks
  <2> QED BY <2>2, <2>3
<1> QED BY <1>3, <1>8, <1>9, <1>10, <1>11

\* A set of one element that has x is {x}.
LEMMA OneIsOne == ASSUME NEW S, IsFiniteSet(S), Cardinality(S) = 1, NEW x \in S PROVE S = {x}
BY FS_CardinalityType, FS_Singleton

\* Whom a fingerprint matches has its wire identity, or its role and either its
\* identifier for itself or its label.
LEMMA MatchIs ==
  ASSUME NEW base, IsOutline(base), NEW b \in Wires(base), NEW o, IsOutline(o), NEW x \in MatchFingerprint(base, b, o)
  PROVE  x \in Wires(o) /\ IF KeepsWire(base, b, o) THEN x = b ELSE Meant(base, b, o, x)
<1>1. CASE KeepsWire(base, b, o)
  BY <1>1 DEF MatchFingerprint, KeepsWire
<1>2. CASE ~KeepsWire(base, b, o)
  <2>1. \/ x \in ByIdentifier(base, b, o) /\ IsOne(ByIdentifier(base, b, o))
        \/ x \in InPlace(base, b, o)
        \/ x \in SemanticPeers(base, b, o)
    BY <1>2 DEF MatchFingerprint
  <2>2. CASE x \in InPlace(base, b, o)
    <3>1. x \in Wires(o) /\ TokenPath(o, x) = TokenPath(base, b)
      BY <2>2 DEF InPlace
    <3>2. LabelToken(o.nodes[x]) = LabelToken(base.nodes[b])
      BY <3>1, PlaceTells DEF IsOutline
    <3>3. o.nodes[x].role = base.nodes[b].role /\ LabelOf(o.nodes[x]) = LabelOf(base.nodes[b])
      BY <3>2 DEF LabelToken
    <3> QED BY <1>2, <3>1, <3>3 DEF Meant
  <2>3. CASE x \in SemanticPeers(base, b, o)
    BY <1>2, <2>3 DEF SemanticPeers, Meant
  <2>4. CASE x \in ByIdentifier(base, b, o) /\ IsOne(ByIdentifier(base, b, o))
    <3>1. PICK S : S = ByIdentifier(base, b, o)
      OBVIOUS
    <3>2. S \subseteq Wires(o) /\ o.nodes[x].role = base.nodes[b].role
      BY <2>4, <3>1 DEF ByIdentifier
    <3>3. IsFiniteSet(S)
      BY <3>2, FS_Subset DEF IsOutline
    <3>4. S = {x}
      BY <2>4, <3>1, <3>3, OneIsOne DEF IsOne
    <3> QED BY <1>2, <2>4, <3>1, <3>2, <3>4 DEF Meant
  <2> QED BY <2>1, <2>2, <2>3, <2>4
<1> QED BY <1>1, <1>2

\* So a recovered action turns to an element like the one it named.
LEMMA AimIsAlike ==
  ASSUME NameInv, NEW c \in Calls, Moves(c), calls[c].phase = "run", calls'[c].phase = "again"
  PROVE  ReboundAlike(c)
<1>1. PICK base, o, ref, to : base = calls[c].st.outline /\ o = calls'[c].st.outline /\ ref = calls[c].ref /\ to = calls'[c].ref
  OBVIOUS
<1>2. IsOutline(base) /\ IsOutline(o)
  BY <1>1 DEF Moves, CallMoves, NameInv, Grounded
<1>3. \E b \in Named(base, ref) : \E x \in MatchFingerprint(base, b, o) : to = o.nodes[x].ref
  BY <1>1 DEF Moves, CallMoves, Aims
<1>4. PICK b \in Named(base, ref) : \E x \in MatchFingerprint(base, b, o) : to = o.nodes[x].ref
  BY <1>3
<1>5. PICK x \in MatchFingerprint(base, b, o) : to = o.nodes[x].ref
  BY <1>4
<1>6. x \in Wires(o) /\ IF KeepsWire(base, b, o) THEN x = b ELSE Meant(base, b, o, x)
  BY <1>2, MatchIs DEF Named
<1>7. \A d \in Named(base, ref) : d = b
  BY <1>2 DEF Named, IsOutline
<1>8. \A w \in Named(o, to) : w = x
  BY <1>2, <1>5, <1>6 DEF Named, IsOutline
<1>9. \A d \in Named(base, ref), w \in Named(o, to) : IF KeepsWire(base, d, o) THEN w = d ELSE Meant(base, d, o, w)
  BY <1>6, <1>7, <1>8
<1> QED BY <1>1, <1>9 DEF ReboundAlike

\* Every step of a call keeps the meaning of the refs.
LEMMA MeaningStep ==
  ASSUME EpochInv, NameInv, [ObservationNext]_oVars
  PROVE  \A c \in Calls : CarriedRefsLookAlike(c) /\ ReboundAlike(c)
<1>1. ASSUME NEW c \in Calls, calls'[c] = calls[c] PROVE CarriedRefsLookAlike(c) /\ ReboundAlike(c)
  BY <1>1 DEF CarriedRefsLookAlike, ReboundAlike
<1>2. ASSUME NEW c \in Calls, Moves(c) PROVE CarriedRefsLookAlike(c) /\ ReboundAlike(c)
  <2>1. ReboundAlike(c)
    <3>1. CASE calls[c].phase = "run" /\ calls'[c].phase = "again"
      BY <1>2, <3>1, AimIsAlike
    <3>2. CASE ~(calls[c].phase = "run" /\ calls'[c].phase = "again")
      BY <3>2 DEF ReboundAlike
    <3> QED BY <3>1, <3>2
  <2>2. ASSUME NEW i \in DOMAIN saved', saved'[i].id = nextState, saved'[i].by = "observe"
        PROVE  \A b \in Wires(calls[c].st.outline), w \in Wires(saved'[i].outline) :
                 calls[c].st.outline.nodes[b].ref = saved'[i].outline.nodes[w].ref
                   => \/ b = w /\ WireIdentityCompatible(calls[c].st.outline.nodes[b], saved'[i].outline.nodes[w])
                      \/ Token(calls[c].st.outline, b) = Token(saved'[i].outline, w)
    <3>1. PICK x, st : x = saved'[i] /\ st = calls[c].st
      OBVIOUS
    <3>2. ~\E j \in DOMAIN saved : saved'[i] = saved[j]
      <4> SUFFICES ASSUME NEW j \in DOMAIN saved, saved'[i] = saved[j] PROVE FALSE
        OBVIOUS
      <4>1. Grounded(saved[j], nextState) /\ nextState \in Nat
        BY DEF NameInv
      <4> QED BY <2>2, <4>1 DEF Grounded
    <3>3. Drawn(x, st)
      BY <1>2, <2>2, <3>1, <3>2 DEF Moves, SavedMoves, Made
    <3>4. Grounded(st, nextState)
      BY <3>1 DEF NameInv
    <3>5. \A b \in Wires(st.outline), w \in Wires(x.outline) :
            st.outline.nodes[b].ref = x.outline.nodes[w].ref
              => \/ b = w /\ WireIdentityCompatible(st.outline.nodes[b], x.outline.nodes[w])
                 \/ Token(st.outline, b) = Token(x.outline, w)
      BY <3>3, <3>4, DrawnCarries
    <3> QED BY <3>1, <3>5
  <2> QED BY <2>1, <2>2 DEF CarriedRefsLookAlike
<1>3. ASSUME NEW d \in Calls, Start(d) \/ CallStep(d) PROVE \A c \in Calls : CarriedRefsLookAlike(c) /\ ReboundAlike(c)
  <2>1. Moves(d)
    BY <1>3, CallMovesOn
  <2>2. \A c \in Calls : c = d \/ calls'[c] = calls[c]
    BY <2>1 DEF Moves, CallMoves
  <2> QED BY <1>1, <1>2, <2>1, <2>2
<1>4. ASSUME CrawlSlice \/ CrawlEnd \/ UserChange \/ Rest \/ UNCHANGED oVars
      PROVE  \A c \in Calls : CarriedRefsLookAlike(c) /\ ReboundAlike(c)
  BY <1>1, <1>4, OtherMoves
<1> QED BY <1>3, <1>4 DEF ObservationNext

\* A ref that a successor takes over from its base still means the element it
\* meant, if that has the identifier it had, or where it has none the kind, or
\* where it has no kind either the text (unless there was none, or it is a
\* field), or else an element of the same role, identifier, kind and label; a
\* recovered action goes to the element it named, or to one of its role that
\* alone has its identifier or has its label (stabilizeOutlineRefs,
\* matchFingerprint, performAct).
THEOREM MeaningIsKept == ObservationSafety => RefsKeepMeaning
<1>1. EpochInv /\ NameInv /\ [ObservationNext]_oVars => EpochInv' /\ NameInv'
  BY EpochStep, NameStep
<1>2. EpochInv /\ NameInv /\ [ObservationNext]_oVars
        => [\A c \in Calls : CarriedRefsLookAlike(c) /\ ReboundAlike(c)]_oVars
  BY MeaningStep
<1> QED BY <1>1, <1>2, EpochStart, NameStart, PTL DEF ObservationSafety, RefsKeepMeaning

--------------------------------------------------------------------------------
(* Completeness: an index has of an application that kept still what it read *)
(* of it, in its order.                                                      *)

\* Only, one element after the other.
Bit(x, S) == IF x \in S THEN <<x>> ELSE <<>>
OnlyRun(g, s, S) == g[0] = <<>> /\ \A i \in 1 .. Len(s) : g[i] = g[i - 1] \o Bit(s[i], S)

\* A bit is a sequence.
LEMMA BitIs == ASSUME NEW X, NEW x \in X, NEW S PROVE Bit(x, S) \in Seq(X)
BY DEF Bit

\* A run of Only is one over sequences.
LEMMA RunIs ==
  ASSUME NEW X, NEW s \in Seq(X), NEW S, NEW g, OnlyRun(g, s, S)
  PROVE  \A i \in 0 .. Len(s) : g[i] \in Seq(X)
<1>1. PICK N \in Nat : N = Len(s) /\ \A i \in 1 .. N : s[i] \in X
  OBVIOUS
<1> DEFINE P == {k \in Nat : k <= N => g[k] \in Seq(X)}
<1>2. 0 \in P
  BY EmptySeq DEF OnlyRun
<1>3. ASSUME NEW k \in Nat, k \in P PROVE k + 1 \in P
  <2> SUFFICES ASSUME k + 1 <= N PROVE g[k + 1] \in Seq(X)
    OBVIOUS
  <2>1. k + 1 \in 1 .. N /\ (k + 1) - 1 = k /\ k <= N
    OBVIOUS
  <2>2. PICK b : b = Bit(s[k + 1], S) /\ b \in Seq(X)
    BY <1>1, <2>1, BitIs
  <2>3. PICK a : a = g[k] /\ a \in Seq(X)
    BY <1>3, <2>1
  <2>4. g[k + 1] = a \o b
    BY <1>1, <2>1, <2>2, <2>3 DEF OnlyRun
  <2> QED BY <2>2, <2>3, <2>4, ConcatProperties
<1>4. \A k \in Nat : k \in P
  <2> HIDE DEF P
  <2> QED BY <1>2, <1>3, SetInduction
<1> QED BY <1>1, <1>4

\* Only has a run,
LEMMA OnlyRuns ==
  ASSUME NEW X, NEW s \in Seq(X), NEW S
  PROVE  \E g : OnlyRun(g, s, S) /\ Only(s, S) = g[Len(s)]
<1>1. PICK N \in Nat : N = Len(s) /\ DOMAIN s = 1 .. N /\ \A i \in 1 .. N : s[i] \in X
  OBVIOUS
<1> DEFINE parts == [i \in DOMAIN s |-> IF s[i] \in S THEN <<s[i]>> ELSE <<>>]
<1>2. Only(s, S) = FlattenSeq(parts)
  BY DEF Only
<1>3. \A i \in 1 .. N : parts[i] = Bit(s[i], S) /\ parts[i] \in Seq(X)
  <2>1. \A i \in 1 .. N : parts[i] = Bit(s[i], S)
    BY <1>1 DEF Bit
  <2> HIDE DEF parts
  <2> QED BY <1>1, <2>1, BitIs
<1>4. Len(parts) = N /\ parts = [i \in 1 .. N |-> parts[i]]
  BY <1>1
<1> HIDE DEF parts
<1>5. CASE N = 0
  <2>1. parts = <<>> /\ Len(parts) = 0
    BY <1>4, <1>5
  <2>2. Only(s, S) = <<>>
    BY <1>2, <2>1 DEF FlattenSeq
  <2> DEFINE g == [i \in {0} |-> <<>>]
  <2>3. g[0] = <<>>
    OBVIOUS
  <2> HIDE DEF g
  <2>4. OnlyRun(g, s, S) /\ g[Len(s)] = Only(s, S)
    BY <1>1, <1>5, <2>2, <2>3 DEF OnlyRun
  <2> QED BY <2>4
<1>6. CASE N > 0
  <2> DEFINE flat == CHOOSE f : FlatUpTo(f, parts, N)
             g == [i \in 0 .. N |-> IF i = 0 THEN <<>> ELSE flat[i]]
  <2>1. FlatUpTo(flat, parts, N)
    BY <1>1, FlatExists
  <2>2. FlattenSeq(parts) = flat[N]
    BY <1>4, <1>6 DEF FlattenSeq, FlatUpTo
  <2> HIDE DEF flat
  <2>3. \A i \in 1 .. N : flat[i] = IF i = 1 THEN parts[i] ELSE flat[i - 1] \o parts[i]
    BY <2>1, Zenon DEF FlatUpTo
  <2>4. g[0] = <<>> /\ \A i \in 1 .. N : g[i] = flat[i]
    OBVIOUS
  <2> HIDE DEF g
  <2>5. ASSUME NEW i \in 1 .. N PROVE g[i] = g[i - 1] \o Bit(s[i], S)
    <3>1. CASE i = 1
      <4>1. parts[1] \in Seq(X) /\ g[1] = parts[1] /\ parts[1] = Bit(s[1], S)
        BY <1>3, <2>3, <2>4, <3>1
      <4>2. <<>> \o parts[1] = parts[1]
        BY <4>1, ConcatEmptySeq
      <4>3. i - 1 = 0
        BY <3>1
      <4> QED BY <2>4, <3>1, <4>1, <4>2, <4>3
    <3>2. CASE i # 1
      <4>1. i - 1 \in 1 .. N
        BY <3>2
      <4> QED BY <1>3, <2>3, <2>4, <3>2, <4>1
    <3> QED BY <3>1, <3>2
  <2>6. OnlyRun(g, s, S)
    BY <1>1, <2>4, <2>5 DEF OnlyRun
  <2>7. Only(s, S) = g[Len(s)]
    BY <1>1, <1>2, <1>6, <2>2, <2>4
  <2> QED BY <2>6, <2>7
<1> QED BY <1>5, <1>6

\* and any run ends in it.
LEMMA OnlyBy ==
  ASSUME NEW X, NEW s \in Seq(X), NEW S, NEW g, OnlyRun(g, s, S)
  PROVE  Only(s, S) = g[Len(s)]
<1>1. PICK f : OnlyRun(f, s, S) /\ Only(s, S) = f[Len(s)]
  BY OnlyRuns
<1>2. PICK N \in Nat : N = Len(s)
  OBVIOUS
<1> DEFINE P == {k \in Nat : k <= N => f[k] = g[k]}
<1>3. 0 \in P
  BY <1>1 DEF OnlyRun
<1>4. ASSUME NEW k \in Nat, k \in P PROVE k + 1 \in P
  <2> SUFFICES ASSUME k + 1 <= N PROVE f[k + 1] = g[k + 1]
    OBVIOUS
  <2>1. k + 1 \in 1 .. N /\ (k + 1) - 1 = k /\ f[k] = g[k]
    BY <1>4
  <2> QED BY <1>1, <1>2, <2>1 DEF OnlyRun
<1>5. N \in P
  <2> HIDE DEF P
  <2> QED BY <1>2, <1>3, <1>4, SetInduction
<1> QED BY <1>1, <1>2, <1>5

\* Only of no element and of one.
LEMMA OnlyBit ==
  ASSUME NEW X, NEW x \in X, NEW S, NEW T
  PROVE  Only(<<>>, T) = <<>> /\ Only(Bit(x, S), T) = Bit(x, S \cap T)
<1>1. Only(<<>>, T) = <<>>
  <2> DEFINE g == [i \in {0} |-> <<>>]
  <2>1. g[0] = <<>>
    OBVIOUS
  <2> HIDE DEF g
  <2>2. <<>> \in Seq(X) /\ Len(<<>>) = 0
    BY EmptySeq
  <2>3. OnlyRun(g, <<>>, T)
    BY <2>1, <2>2 DEF OnlyRun
  <2> QED BY <2>1, <2>2, <2>3, OnlyBy
<1>2. Only(<<x>>, T) = Bit(x, T)
  <2> DEFINE g == [i \in 0 .. 1 |-> IF i = 0 THEN <<>> ELSE Bit(x, T)]
  <2>1. g[0] = <<>> /\ g[1] = Bit(x, T)
    OBVIOUS
  <2> HIDE DEF g
  <2>2. PICK s : s = <<x>> /\ s \in Seq(X) /\ Len(s) = 1 /\ s[1] = x
    <3>1. <<x>> \in Seq(X) /\ Len(<<x>>) = 1 /\ <<x>>[1] = x
      OBVIOUS
    <3> QED BY <3>1
  <2>3. <<>> \o Bit(x, T) = Bit(x, T)
    BY BitIs, ConcatEmptySeq
  <2>4. OnlyRun(g, s, T)
    <3>1. \A i \in 1 .. Len(s) : i = 1 /\ i - 1 = 0
      BY <2>2
    <3> QED BY <2>1, <2>2, <2>3, <3>1 DEF OnlyRun
  <2> QED BY <2>1, <2>2, <2>4, OnlyBy
<1>3. CASE x \in S
  <2>1. Bit(x, S) = <<x>> /\ Bit(x, S \cap T) = Bit(x, T)
    BY <1>3 DEF Bit
  <2> QED BY <1>1, <1>2, <2>1
<1>4. CASE x \notin S
  <2>1. Bit(x, S) = <<>> /\ Bit(x, S \cap T) = <<>>
    BY <1>4 DEF Bit
  <2> QED BY <1>1, <2>1
<1> QED BY <1>3, <1>4

\* Only of two sequences put together.
LEMMA OnlyJoin ==
  ASSUME NEW X, NEW s \in Seq(X), NEW t \in Seq(X), NEW S
  PROVE  Only(s \o t, S) = Only(s, S) \o Only(t, S)
<1>1. PICK m \in Nat : m = Len(s)
  OBVIOUS
<1>2. PICK n \in Nat : n = Len(t)
  OBVIOUS
<1>3. PICK f : OnlyRun(f, s, S) /\ Only(s, S) = f[m]
  BY <1>1, OnlyRuns
<1>4. PICK h : OnlyRun(h, t, S) /\ Only(t, S) = h[n]
  BY <1>2, OnlyRuns
<1>5. PICK u : u = s \o t /\ u \in Seq(X) /\ Len(u) = m + n /\ \A i \in 1 .. m + n : u[i] = IF i <= m THEN s[i] ELSE t[i - m]
  <2>1. /\ s \o t \in Seq(X) /\ Len(s \o t) = Len(s) + Len(t)
        /\ \A i \in 1 .. Len(s) + Len(t) : (s \o t)[i] = IF i <= Len(s) THEN s[i] ELSE t[i - Len(s)]
    BY ConcatProperties, Zenon
  <2> QED BY <1>1, <1>2, <2>1
<1>6. /\ \A i \in 0 .. m : f[i] \in Seq(X)
      /\ \A i \in 0 .. n : h[i] \in Seq(X)
  BY <1>1, <1>2, <1>3, <1>4, RunIs
<1> DEFINE g == [i \in 0 .. m + n |-> IF i <= m THEN f[i] ELSE f[m] \o h[i - m]]
<1>7. /\ \A i \in 0 .. m : g[i] = f[i]
      /\ \A j \in 0 .. n : j # 0 => g[m + j] = f[m] \o h[j]
  <2>1. \A j \in 0 .. n : j # 0 => m + j \in 0 .. m + n /\ ~(m + j <= m) /\ (m + j) - m = j
    OBVIOUS
  <2>2. \A i \in 0 .. m : i \in 0 .. m + n /\ i <= m
    OBVIOUS
  <2> QED BY <2>1, <2>2
<1> HIDE DEF g
<1>8. \A j \in 0 .. n : g[m + j] = f[m] \o h[j]
  <2>1. f[m] \o <<>> = f[m] /\ h[0] = <<>> /\ m + 0 = m /\ m \in 0 .. m
    BY <1>4, <1>6, ConcatEmptySeq DEF OnlyRun
  <2> QED BY <1>7, <2>1
<1>9. ASSUME NEW i \in 1 .. m + n PROVE g[i] = g[i - 1] \o Bit(u[i], S)
  <2>1. CASE i <= m
    <3>1. i \in 1 .. m /\ i \in 0 .. m /\ i - 1 \in 0 .. m /\ u[i] = s[i]
      BY <1>5, <2>1
    <3>2. f[i] = f[i - 1] \o Bit(s[i], S)
      BY <1>1, <1>3, <3>1 DEF OnlyRun
    <3> QED BY <1>7, <3>1, <3>2
  <2>2. CASE ~(i <= m)
    <3>1. PICK j \in 1 .. n : j = i - m
      BY <2>2
    <3>2. i = m + j /\ i - 1 = m + (j - 1) /\ j \in 0 .. n /\ j - 1 \in 0 .. n /\ u[i] = t[j]
      BY <1>5, <2>2, <3>1
    <3>3. PICK a, b, c : /\ a = f[m] /\ b = h[j - 1] /\ c = Bit(t[j], S)
                         /\ a \in Seq(X) /\ b \in Seq(X) /\ c \in Seq(X)
      <4>1. m \in 0 .. m /\ t[j] \in X
        BY <1>2
      <4> QED BY <1>6, <3>2, <4>1, BitIs
    <3>4. h[j] = b \o c
      BY <1>2, <1>4, <3>3 DEF OnlyRun
    <3>5. g[i] = a \o (b \o c) /\ g[i - 1] = a \o b
      BY <1>8, <3>2, <3>3, <3>4
    <3>6. (a \o b) \o c = a \o (b \o c)
      <4>1. a \in Seq(X) /\ b \in Seq(X) /\ c \in Seq(X)
        BY <3>3
      <4> QED BY <4>1, ConcatAssociative
    <3> QED BY <3>2, <3>3, <3>5, <3>6
  <2> QED BY <2>1, <2>2
<1>10. g[0] = <<>> /\ g[m + n] = f[m] \o h[n]
  <2>1. 0 \in 0 .. m /\ n \in 0 .. n
    OBVIOUS
  <2> QED BY <1>3, <1>7, <1>8, <2>1 DEF OnlyRun
<1>11. OnlyRun(g, u, S)
  BY <1>5, <1>9, <1>10 DEF OnlyRun
<1>12. Only(u, S) = g[m + n]
  BY <1>5, <1>11, OnlyBy
<1> QED BY <1>3, <1>4, <1>5, <1>10, <1>12

Joins(X, S) == \A s, t \in Seq(X) : Only(s \o t, S) = Only(s, S) \o Only(t, S)
\* The same, of all pairs of sequences at once.
LEMMA OnlyJoins == ASSUME NEW X, NEW S PROVE Joins(X, S)
BY OnlyJoin DEF Joins

\* Two sets that agree on the sequence.
LEMMA OnlySame ==
  ASSUME NEW X, NEW s \in Seq(X), NEW S, NEW T, \A x \in ToSet(s) : x \in S <=> x \in T
  PROVE  Only(s, S) = Only(s, T)
<1>1. PICK f : OnlyRun(f, s, S) /\ Only(s, S) = f[Len(s)]
  BY OnlyRuns
<1>2. \A i \in 1 .. Len(s) : Bit(s[i], S) = Bit(s[i], T)
  <2> SUFFICES ASSUME NEW i \in 1 .. Len(s) PROVE Bit(s[i], S) = Bit(s[i], T)
    OBVIOUS
  <2>1. s[i] \in ToSet(s)
    BY ToSetIs
  <2> QED BY <2>1 DEF Bit
<1>3. OnlyRun(f, s, T)
  BY <1>1, <1>2 DEF OnlyRun
<1> QED BY <1>1, <1>3, OnlyBy

\* Only of Only.
LEMMA OnlyTwice ==
  ASSUME NEW X, NEW s \in Seq(X), NEW S, NEW T
  PROVE  Only(Only(s, S), T) = Only(s, S \cap T)
<1>1. PICK N \in Nat : N = Len(s) /\ \A i \in 1 .. N : s[i] \in X
  OBVIOUS
<1>2. PICK f : OnlyRun(f, s, S) /\ Only(s, S) = f[N]
  BY <1>1, OnlyRuns
<1>3. \A i \in 0 .. N : f[i] \in Seq(X)
  BY <1>1, <1>2, RunIs
<1> DEFINE g == [i \in 0 .. N |-> Only(f[i], T)]
<1>4. \A i \in 0 .. N : g[i] = Only(f[i], T)
  OBVIOUS
<1> HIDE DEF g
<1>5. ASSUME NEW i \in 1 .. N PROVE g[i] = g[i - 1] \o Bit(s[i], S \cap T)
  <2>1. i \in 0 .. N /\ i - 1 \in 0 .. N
    OBVIOUS
  <2>2. PICK a, b : a = f[i - 1] /\ b = Bit(s[i], S) /\ a \in Seq(X) /\ b \in Seq(X)
    BY <1>1, <1>3, <2>1, BitIs
  <2>3. f[i] = a \o b
    BY <1>1, <1>2, <2>2 DEF OnlyRun
  <2>4. Only(a \o b, T) = Only(a, T) \o Only(b, T)
    <3>1. a \in Seq(X) /\ b \in Seq(X)
      BY <2>2
    <3> QED BY <3>1, OnlyJoin
  <2>5. Only(b, T) = Bit(s[i], S \cap T)
    BY <1>1, <2>2, OnlyBit
  <2> QED BY <1>4, <2>1, <2>2, <2>3, <2>4, <2>5
<1>6. g[0] = <<>>
  <2>1. Only(<<>>, T) = <<>>
    BY OnlyBit
  <2> QED BY <1>2, <1>4, <2>1 DEF OnlyRun
<1>7. OnlyRun(g, s, S \cap T)
  BY <1>1, <1>5, <1>6 DEF OnlyRun
<1>8. Only(s, S \cap T) = g[N]
  BY <1>1, <1>7, OnlyBy
<1> QED BY <1>2, <1>4, <1>8

\* Only of a set that has nothing of the sequence.
LEMMA OnlyNone ==
  ASSUME NEW X, NEW s \in Seq(X), NEW S, ToSet(s) \cap S = {}
  PROVE  Only(s, S) = <<>>
<1>1. PICK q : q = Only(s, S) /\ q \in Seq(X \cap S) /\ \A x : x \notin ToSet(q)
  BY OnlyIs
<1>2. PICK n \in Nat : n = Len(q) /\ DOMAIN q = 1 .. n
  BY <1>1
<1>3. n = 0
  <2>1. \A i \in 1 .. n : q[i] \in ToSet(q)
    BY <1>2, ToSetIs
  <2> QED BY <1>1, <2>1
<1> QED BY <1>1, <1>2, <1>3, EmptySeq

\* Only of a set that has it all.
LEMMA OnlyAll ==
  ASSUME NEW X, NEW s \in Seq(X), NEW S, ToSet(s) \subseteq S
  PROVE  Only(s, S) = s
<1>1. PICK N \in Nat : N = Len(s) /\ \A i \in 1 .. N : s[i] \in X
  OBVIOUS
<1> DEFINE g == [i \in 0 .. N |-> SubSeq(s, 1, i)]
<1>2. \A i \in 0 .. N : g[i] = SubSeq(s, 1, i)
  OBVIOUS
<1> HIDE DEF g
<1>3. ASSUME NEW i \in 1 .. N PROVE g[i] = g[i - 1] \o Bit(s[i], S)
  <2>1. Bit(s[i], S) = <<s[i]>>
    <3>1. s[i] \in ToSet(s)
      BY <1>1, ToSetIs
    <3> QED BY <3>1 DEF Bit
  <2>2. SubSeq(s, 1, i) = SubSeq(s, 1, i - 1) \o <<s[i]>>
    <3>1. 1 \in 1 .. Len(s) /\ i \in 1 .. Len(s)
      BY <1>1
    <3> QED BY <3>1, SubSeqRecursiveSecond
  <2>3. i \in 0 .. N /\ i - 1 \in 0 .. N
    OBVIOUS
  <2> QED BY <1>2, <2>1, <2>2, <2>3
<1>4. g[0] = <<>>
  <2>1. SubSeq(s, 1, 0) = <<>>
    BY SubSeqEmpty
  <2> QED BY <1>2, <2>1
<1>5. OnlyRun(g, s, S)
  BY <1>1, <1>3, <1>4 DEF OnlyRun
<1>6. Only(s, S) = g[N]
  BY <1>1, <1>5, OnlyBy
<1> QED BY <1>1, <1>2, <1>6, SubSeqFull

\* The children from the one after the a-th to the b-th.
Cut(X, kids, a, b) ==
  /\ SubSeq(kids, a + 1, b) \in Seq(X)
  /\ \A x : x \in ToSet(SubSeq(kids, a + 1, b)) <=> \E i \in a + 1 .. b : kids[i] = x
\* They continue the children up to the a-th.
LEMMA CutIs ==
  ASSUME NEW X, NEW kids \in Seq(X), NEW a \in Nat, NEW b \in Nat, a <= b, b <= Len(kids)
  PROVE  Cut(X, kids, a, b) /\ SubSeq(kids, 1, b) = SubSeq(kids, 1, a) \o SubSeq(kids, a + 1, b)
<1>1. PICK N \in Nat : N = Len(kids) /\ \A i \in 1 .. N : kids[i] \in X
  OBVIOUS
<1>2. SubSeq(kids, 1, a) \o SubSeq(kids, a + 1, b) = SubSeq(kids, 1, b)
  <2>1. 1 \in 1 .. Len(kids) + 1 /\ a \in 1 - 1 .. Len(kids) /\ b \in a .. Len(kids)
    BY <1>1
  <2> QED BY <2>1, ConcatAdjacentSubSeq
<1>3. PICK c \in Int : c = a + 1
  OBVIOUS
<1>4. PICK q : q = SubSeq(kids, c, b)
  OBVIOUS
<1>5. /\ q \in Seq(X) /\ Len(q) = IF c <= b THEN b - c + 1 ELSE 0
      /\ \A i \in 1 .. b - c + 1 : q[i] = kids[c + i - 1]
  <2>1. \A i \in c .. b : kids[i] \in X
    BY <1>1, <1>3
  <2> QED BY <1>3, <1>4, <2>1, SubSeqProperties
<1>6. PICK n \in Nat : n = b - a /\ DOMAIN q = 1 .. n /\ \A i \in 1 .. n : q[i] = kids[a + i]
  <2>1. b - a \in Nat /\ Len(q) = b - a
    BY <1>3, <1>5
  <2>2. DOMAIN q = 1 .. b - a
    BY <1>5, <2>1
  <2>3. \A i \in 1 .. b - a : i \in 1 .. b - c + 1 /\ c + i - 1 = a + i
    BY <1>3
  <2> QED BY <1>5, <2>1, <2>2, <2>3
<1>7. \A x : x \in ToSet(q) <=> \E i \in a + 1 .. b : kids[i] = x
  <2> SUFFICES ASSUME NEW x PROVE x \in ToSet(q) <=> \E i \in a + 1 .. b : kids[i] = x
    OBVIOUS
  <2>1. ASSUME x \in ToSet(q) PROVE \E i \in a + 1 .. b : kids[i] = x
    <3>1. PICK i \in 1 .. n : q[i] = x
      BY <1>6, <2>1, ToSetIs
    <3>2. a + i \in a + 1 .. b /\ kids[a + i] = x
      BY <1>6, <3>1
    <3> QED BY <3>2
  <2>2. ASSUME NEW i \in a + 1 .. b, kids[i] = x PROVE x \in ToSet(q)
    <3>1. i - a \in 1 .. n /\ a + (i - a) = i
      BY <1>6
    <3>2. q[i - a] = x /\ i - a \in DOMAIN q
      BY <1>6, <2>2, <3>1
    <3> QED BY <3>2, ToSetIs
  <2> QED BY <2>1, <2>2
<1>8. Cut(X, kids, a, b)
  BY <1>3, <1>4, <1>5, <1>7 DEF Cut
<1> QED BY <1>2, <1>8

\* The children up to the b-th.
LEMMA HeadIs ==
  ASSUME NEW X, NEW kids \in Seq(X), NEW b \in Nat, b <= Len(kids)
  PROVE  SubSeq(kids, 1, b) \in Seq(X) /\ \A x : x \in ToSet(SubSeq(kids, 1, b)) <=> \E i \in 1 .. b : kids[i] = x
<1>1. PICK a \in Nat : a = 0 /\ a <= b /\ a + 1 = 1
  OBVIOUS
<1>2. a \in Nat /\ a <= b
  BY <1>1
<1>3. Cut(X, kids, a, b)
  BY <1>2, CutIs
<1>4. /\ SubSeq(kids, a + 1, b) \in Seq(X)
      /\ \A x : x \in ToSet(SubSeq(kids, a + 1, b)) <=> \E i \in a + 1 .. b : kids[i] = x
  BY <1>3 DEF Cut
<1> QED BY <1>1, <1>4

\* Of a page without what was pruned: what the application has of it.
LEMMA PartIs ==
  ASSUME NEW X, NEW page \in Seq(X), NEW L, NEW W, ToSet(page) \cap W \subseteq L, NEW S, \A x \in ToSet(page) : x \in S <=> x \in W
  PROVE  Only(Only(page, L), S) = Only(page, W)
<1>1. Only(Only(page, L), S) = Only(page, L \cap S)
  BY OnlyTwice
<1>2. \A x \in ToSet(page) : x \in L \cap S <=> x \in W
  OBVIOUS
<1> QED BY <1>1, <1>2, OnlySame

\* A look from the first child on is in order,
LEMMA FirstPage ==
  ASSUME NEW X, NEW page \in Seq(X), NEW L, NEW W, ToSet(page) \cap W \subseteq L
  PROVE  InOrder(Only(page, W), Only(page, L))
<1>1. PICK S : S = ToSet(Only(page, W))
  OBVIOUS
<1>2. \A x \in ToSet(page) : x \in S <=> x \in W
  BY <1>1, OnlyIs
<1>3. Only(Only(page, L), S) = Only(page, W)
  BY <1>2, PartIs
<1> QED BY <1>1, <1>3 DEF InOrder

\* also with what it does not show behind it;
LEMMA KeptBehind ==
  ASSUME NEW X, NEW page \in Seq(X), NEW L, NEW W, ToSet(page) \cap W \subseteq L,
         NEW old \in Seq(X), NEW A, NEW B, A \cap B = {}, ToSet(Only(page, L)) \subseteq B
  PROVE  InOrder(Only(page, W), Only(page, L) \o Only(old, A))
<1>1. PICK q, r, S : /\ q = Only(page, L) /\ r = Only(old, A) /\ S = ToSet(Only(page, W))
                     /\ q \in Seq(X) /\ r \in Seq(X)
  <2>1. Only(page, L) \in Seq(X \cap L) /\ Only(old, A) \in Seq(X \cap A)
    BY OnlyIs
  <2>2. Only(page, L) \in Seq(X) /\ Only(old, A) \in Seq(X)
    BY <2>1, SeqMonotonic
  <2> QED BY <2>2
<1>2. Only(q, S) = Only(page, W)
  BY <1>1, FirstPage DEF InOrder
<1>3. Only(r, S) = <<>>
  <2>1. \A x \in ToSet(r) : x \in A
    BY <1>1, OnlyIs
  <2>2. \A x \in S : x \in ToSet(q)
    BY <1>1, OnlyIs
  <2>3. ToSet(r) \cap S = {}
    BY <1>1, <2>1, <2>2
  <2> QED BY <1>1, <2>3, OnlyNone
<1>4. Only(q \o r, S) = Only(page, W) \o <<>>
  <2>1. Only(q \o r, S) = Only(q, S) \o Only(r, S)
    <3>1. q \in Seq(X) /\ r \in Seq(X)
      BY <1>1
    <3>2. Joins(X, S)
      BY OnlyJoins
    <3> QED BY <3>1, <3>2 DEF Joins
  <2> QED BY <1>2, <1>3, <2>1
<1>5. PICK p : p = Only(page, W) /\ p \in Seq(X)
  <2>1. Only(page, W) \in Seq(X \cap W)
    BY OnlyIs
  <2> QED BY <2>1, SeqMonotonic
<1>6. p \o <<>> = p
  BY <1>5, ConcatEmptySeq
<1> QED BY <1>1, <1>4, <1>5, <1>6 DEF InOrder

\* and a later page goes behind what was in order before.
LEMMA KeptBefore ==
  ASSUME NEW X, NEW kids \in Seq(X), NEW a \in Nat, NEW b \in Nat, a <= b, b <= Len(kids), NEW W, NEW L,
         ToSet(SubSeq(kids, a + 1, b)) \cap W \subseteq L, NEW old \in Seq(X), InOrder(Only(SubSeq(kids, 1, a), W), old),
         NEW A, NEW B, A \cap B = {}, ToSet(Only(SubSeq(kids, a + 1, b), L)) \subseteq B, ToSet(Only(SubSeq(kids, 1, a), W)) \subseteq A
  PROVE  InOrder(Only(SubSeq(kids, 1, b), W), Only(old, A) \o Only(SubSeq(kids, a + 1, b), L))
<1>1. PICK head, page : /\ head = SubSeq(kids, 1, a) /\ page = SubSeq(kids, a + 1, b) /\ head \in Seq(X) /\ page \in Seq(X)
                        /\ SubSeq(kids, 1, b) = head \o page
                        /\ ToSet(page) \cap W \subseteq L
  <2>1. a <= Len(kids)
    OBVIOUS
  <2>2. SubSeq(kids, 1, a) \in Seq(X)
    BY <2>1, HeadIs
  <2>3. SubSeq(kids, a + 1, b) \in Seq(X) /\ SubSeq(kids, 1, b) = SubSeq(kids, 1, a) \o SubSeq(kids, a + 1, b)
    <3>1. Cut(X, kids, a, b)
      BY CutIs
    <3> QED BY <3>1 DEF Cut
  <2> QED BY <2>2, <2>3
<1>2. PICK q, r, p0, p1 : /\ q = Only(page, L) /\ r = Only(old, A) /\ p0 = Only(head, W) /\ p1 = Only(page, W)
                          /\ q \in Seq(X) /\ r \in Seq(X) /\ p0 \in Seq(X) /\ p1 \in Seq(X)
  <2>1. /\ Only(page, L) \in Seq(X \cap L) /\ Only(old, A) \in Seq(X \cap A)
        /\ Only(head, W) \in Seq(X \cap W) /\ Only(page, W) \in Seq(X \cap W)
    <3>1. page \in Seq(X) /\ head \in Seq(X) /\ old \in Seq(X)
      BY <1>1
    <3> QED BY <3>1, OnlyIs
  <2>2. /\ Only(page, L) \in Seq(X) /\ Only(old, A) \in Seq(X)
        /\ Only(head, W) \in Seq(X) /\ Only(page, W) \in Seq(X)
    BY <2>1, SeqMonotonic
  <2> QED BY <2>2
<1>3. Only(SubSeq(kids, 1, b), W) = p0 \o p1
  <2>1. Only(head \o page, W) = Only(head, W) \o Only(page, W)
    <3>1. page \in Seq(X) /\ head \in Seq(X)
      BY <1>1
    <3>2. Joins(X, W)
      BY OnlyJoins
    <3> QED BY <3>1, <3>2 DEF Joins
  <2> QED BY <1>1, <1>2, <2>1
<1>4. PICK S : S = ToSet(p0 \o p1)
  OBVIOUS
<1>5. \A x : x \in S <=> x \in ToSet(p0) \/ x \in ToSet(p1)
  BY <1>2, <1>4, JoinedToSet
<1>6. /\ \A x : x \in ToSet(p0) <=> x \in ToSet(head) /\ x \in W
      /\ \A x : x \in ToSet(p1) <=> x \in ToSet(page) /\ x \in W
      /\ \A x : x \in ToSet(q) <=> x \in ToSet(page) /\ x \in L
  <2>1. /\ \A x : x \in ToSet(Only(head, W)) <=> x \in ToSet(head) /\ x \in W
        /\ \A x : x \in ToSet(Only(page, W)) <=> x \in ToSet(page) /\ x \in W
        /\ \A x : x \in ToSet(Only(page, L)) <=> x \in ToSet(page) /\ x \in L
    <3>1. page \in Seq(X) /\ head \in Seq(X)
      BY <1>1
    <3> QED BY <3>1, OnlyIs
  <2> QED BY <1>2, <2>1
<1>7. Only(q, S) = p1
  <2>1. \A x \in ToSet(page) : x \in S <=> x \in W
    BY <1>5, <1>6
  <2>2. ToSet(page) \cap W \subseteq L
    BY <1>1
  <2>3. Only(Only(page, L), S) = Only(page, W)
    <3>1. page \in Seq(X)
      BY <1>1
    <3> QED BY <3>1, <2>1, <2>2, PartIs
  <2> QED BY <1>2, <2>3
<1>8. Only(r, S) = p0
  <2>1. Only(r, S) = Only(old, A \cap S)
    BY <1>2, OnlyTwice
  <2>2. ToSet(p1) \subseteq B /\ ToSet(p0) \subseteq A
    <3>1. ToSet(q) \subseteq B /\ ToSet(p0) \subseteq A /\ ToSet(page) \cap W \subseteq L
      BY <1>1, <1>2
    <3> QED BY <1>6, <3>1
  <2>3. A \cap S = ToSet(p0)
    BY <1>5, <2>2
  <2>4. Only(old, ToSet(p0)) = p0
    BY <1>1, <1>2 DEF InOrder
  <2> QED BY <2>1, <2>3, <2>4
<1>9. Only(r \o q, S) = p0 \o p1
  <2>1. Only(r \o q, S) = Only(r, S) \o Only(q, S)
    <3>1. q \in Seq(X) /\ r \in Seq(X)
      BY <1>2
    <3>2. Joins(X, S)
      BY OnlyJoins
    <3> QED BY <3>1, <3>2 DEF Joins
  <2> QED BY <1>7, <1>8, <2>1
<1> QED BY <1>1, <1>2, <1>3, <1>4, <1>9 DEF InOrder

\* What of the application is not in a detached document.
Whole(u) == Wires(PruneDetachedWebAreas(u))
\* The children of a node were read up to the k-th, and what the application has
\* of those comes in its order.
ReadTo(n, kids, k) == IF n.trunc THEN n.next = k ELSE n.next = 0 /\ k = Len(kids)
FaithfulNode(u, W, x, n) ==
  \E k \in 0 .. Len(Kids(u, x)) : ReadTo(n, Kids(u, x), k) /\ InOrder(Only(SubSeq(Kids(u, x), 1, k), W), n.kids)
Faithful(o, u) ==
  /\ o.root = u.root /\ Wires(o) \subseteq Wires(u)
  /\ \A x \in Wires(o) : FaithfulNode(u, Whole(u), x, o.nodes[x])
\* A node of a look has a page of the children, perhaps pruned.
ShownNode(u, W, x, n, from) ==
  \E k \in from .. Len(Kids(u, x)) :
    /\ ReadTo(n, Kids(u, x), k)
    /\ \E L : n.kids = Only(SubSeq(Kids(u, x), from + 1, k), L) /\ ToSet(SubSeq(Kids(u, x), from + 1, k)) \cap W \subseteq L
Shown(look, u, first) ==
  /\ Wires(look) \subseteq Wires(u)
  /\ \A x \in Wires(look) : ShownNode(u, Whole(u), x, look.nodes[x], From(look.root, first, x))

\* Of an element that is looked at from its first child on.
LEMMA ShownIsFaithful ==
  ASSUME NEW u, IsTree(u), NEW x \in Wires(u), NEW W, NEW n, ShownNode(u, W, x, n, 0)
  PROVE  FaithfulNode(u, W, x, n)
<1>1. PICK kids : kids = Kids(u, x) /\ kids \in Seq(Wires(u))
  BY DEF IsTree
<1>2. PICK k \in 0 .. Len(kids) : /\ ReadTo(n, kids, k)
                                  /\ \E L : n.kids = Only(SubSeq(kids, 0 + 1, k), L) /\ ToSet(SubSeq(kids, 0 + 1, k)) \cap W \subseteq L
  BY <1>1 DEF ShownNode
<1>3. PICK L : n.kids = Only(SubSeq(kids, 0 + 1, k), L) /\ ToSet(SubSeq(kids, 0 + 1, k)) \cap W \subseteq L
  BY <1>2
<1>4. k \in Nat /\ k <= Len(kids)
  BY <1>1
<1>5. PICK page : page = SubSeq(kids, 1, k) /\ page \in Seq(Wires(u))
  <2>1. SubSeq(kids, 1, k) \in Seq(Wires(u))
    BY <1>1, <1>4, HeadIs
  <2> QED BY <2>1
<1>6. page = SubSeq(kids, 0 + 1, k)
  <2>1. 0 + 1 = 1
    OBVIOUS
  <2> QED BY <1>5, <2>1
<1>7. InOrder(Only(page, W), n.kids)
  <2>1. n.kids = Only(page, L) /\ ToSet(page) \cap W \subseteq L
    BY <1>3, <1>6
  <2> QED BY <1>5, <2>1, FirstPage
<1> QED BY <1>1, <1>2, <1>5, <1>7 DEF FaithfulNode

\* What was read of the children of an element before the page of a look is not
\* in the look.
LEMMA NotShown ==
  ASSUME NEW u, IsTree(u), NEW s, IsLook(s), NEW first \in Nat, Shown(s, u, first), first <= Len(Kids(u, s.root)),
         NEW y \in ToSet(SubSeq(Kids(u, s.root), 1, first))
  PROVE  y \notin Wires(s)
<1>1. PICK w : w = s.root /\ w \in Wires(s) /\ w \in Wires(u)
  BY DEF IsLook, Connected, Shown
<1>2. PICK kids : kids = Kids(u, w) /\ kids \in Seq(Wires(u))
  BY <1>1 DEF IsTree
<1>3. PICK j \in 1 .. first : kids[j] = y /\ j \in DOMAIN kids
  <2>1. y \in ToSet(SubSeq(kids, 1, first)) /\ first <= Len(kids)
    BY <1>1, <1>2
  <2>2. \E j \in 1 .. first : kids[j] = y
    BY <1>2, <2>1, HeadIs
  <2>3. PICK j \in 1 .. first : kids[j] = y
    BY <2>2
  <2>4. j \in DOMAIN kids
    BY <1>2, <2>1, <2>3
  <2> QED BY <2>3, <2>4
<1>4. y # w
  <2>1. SUFFICES ASSUME y = w PROVE FALSE
    OBVIOUS
  <2>2. PICK S : S = {w}
    OBVIOUS
  <2>3. S \in SUBSET Wires(u) /\ S # {}
    BY <1>1, <2>2
  <2>4. PICK v \in S : Parents(u, v) \cap S = {}
    BY <2>3 DEF IsTree
  <2>5. w \in Parents(u, w)
    BY <1>1, <1>2, <1>3, <2>1, ToSetIs DEF Parents
  <2> QED BY <2>2, <2>4, <2>5
<1>5. SUFFICES ASSUME y \in Wires(s) PROVE FALSE
  OBVIOUS
<1>6. PICK p \in Wires(s) : y \in ToSet(Kids(s, p))
  <2>1. PICK T : T = Wires(s) \ {y}
    OBVIOUS
  <2>2. T \in SUBSET Wires(s) /\ w \in T /\ T # Wires(s)
    BY <1>1, <1>4, <1>5, <2>1
  <2>3. PICK p \in T : ~(ToSet(Kids(s, p)) \subseteq T)
    BY <1>1, <2>2 DEF IsLook, Connected
  <2>4. ToSet(Kids(s, p)) \subseteq Wires(s)
    BY <2>2, <2>3, KidsIn DEF IsLook, Closed
  <2> QED BY <2>1, <2>3, <2>4
<1>7. PICK all, from : /\ all = Kids(u, p) /\ from = From(w, first, p) /\ p \in Wires(u) /\ all \in Seq(Wires(u))
                       /\ ShownNode(u, Whole(u), p, s.nodes[p], from)
  BY <1>1, <1>6 DEF Shown, IsTree
<1>8. from \in Nat
  BY <1>7 DEF From
<1>9. PICK k \in from .. Len(all) : \E L : s.nodes[p].kids = Only(SubSeq(all, from + 1, k), L)
  BY <1>7 DEF ShownNode
<1>10. k \in Nat /\ from <= k /\ k <= Len(all)
  BY <1>7, <1>8
<1>11. PICK page : page = SubSeq(all, from + 1, k) /\ page \in Seq(Wires(u)) /\ \A x : x \in ToSet(page) <=> \E i \in from + 1 .. k : all[i] = x
  <2>1. /\ SubSeq(all, from + 1, k) \in Seq(Wires(u))
        /\ \A x : x \in ToSet(SubSeq(all, from + 1, k)) <=> \E i \in from + 1 .. k : all[i] = x
    <3>1. Cut(Wires(u), all, from, k)
      <4>1. all \in Seq(Wires(u)) /\ from \in Nat /\ k \in Nat /\ from <= k /\ k <= Len(all)
        BY <1>7, <1>8, <1>10
      <4> QED BY <4>1, CutIs
    <3> QED BY <3>1 DEF Cut
  <2> QED BY <2>1
<1>12. y \in ToSet(page)
  BY <1>6, <1>9, <1>11, OnlyIs DEF Kids
<1>13. PICK i \in from + 1 .. k : all[i] = y
  BY <1>11, <1>12
<1>14. i \in DOMAIN all
  BY <1>7, <1>8, <1>10, <1>13
<1>15. p = w /\ i = j
  BY <1>1, <1>2, <1>3, <1>7, <1>13, <1>14 DEF IsTree
<1>16. from = first
  BY <1>7, <1>15 DEF From
<1> QED BY <1>3, <1>8, <1>13, <1>15, <1>16

\* The nodes of a graft.
LEMMA GraftHas ==
  ASSUME NEW o, IsOutline(o), NEW s, IsLook(s), s.root \in Wires(o), NEW append, NEW p, p = GraftScopedOutline(o, s, append)
  PROVE  /\ p.root = o.root /\ Wires(p) = Wires(o) \cup Wires(s)
         /\ \A w \in Wires(o) \ Wires(s) : p.nodes[w] = o.nodes[w]
         /\ \A w \in Wires(s) : /\ p.nodes[w].trunc = s.nodes[w].trunc /\ p.nodes[w].next = s.nodes[w].next
                                /\ IF w \in Below(o, s.root) THEN p.nodes[w].kids = GraftedKids(o, s, w, append)
                                   ELSE p.nodes[w].kids = Kids(s, w)
<1> DEFINE reusable == Below(o, s.root)
           fresh == Only(DepthFirst(s, s.root), Wires(s) \ reusable)
           Cloned(w) == [s.nodes[w] EXCEPT !.ref = NextRef(o) + Position(fresh, w) - 1]
           Reused(w) == [s.nodes[w] EXCEPT !.ref = o.nodes[w].ref, !.kids = GraftedKids(o, s, w, append)]
           t == [w \in Wires(o) \cup Wires(s) |->
                   IF w \notin Wires(s) THEN o.nodes[w] ELSE IF w \in reusable THEN Reused(w) ELSE Cloned(w)]
<1>1. p = [o EXCEPT !.nodes = Table(t)]
  BY Zenon DEF GraftScopedOutline
<1>2. p.root = o.root /\ p.nodes = t /\ Wires(p) = Wires(o) \cup Wires(s)
  <2>1. p.root = o.root /\ p.nodes = t /\ Wires(p) = DOMAIN t
    <3> HIDE DEF t
    <3> QED BY <1>1, WithNodes DEF IsOutline
  <2> QED BY <2>1
<1>3. /\ \A w \in Wires(o) \ Wires(s) : p.nodes[w] = o.nodes[w]
      /\ \A w \in Wires(s) : p.nodes[w] = IF w \in reusable THEN Reused(w) ELSE Cloned(w)
  BY <1>2
<1> HIDE DEF reusable, fresh, t
<1>4. ASSUME NEW w \in Wires(s)
      PROVE  /\ p.nodes[w].trunc = s.nodes[w].trunc /\ p.nodes[w].next = s.nodes[w].next
             /\ IF w \in reusable THEN p.nodes[w].kids = GraftedKids(o, s, w, append) ELSE p.nodes[w].kids = Kids(s, w)
  <2>1. PICK m, r, b, kids : m = s.nodes[w] /\ r = NextRef(o) + Position(fresh, w) - 1 /\ b = o.nodes[w].ref /\ kids = GraftedKids(o, s, w, append)
    OBVIOUS
  <2>2. IsNode(m)
    BY <2>1 DEF IsLook
  <2>3. CASE w \in reusable
    <3>1. PICK k : k = [m EXCEPT !.ref = b, !.kids = kids]
      OBVIOUS
    <3>2. k.trunc = m.trunc /\ k.next = m.next /\ k.kids = kids
      BY <2>2, <3>1 DEF IsNode
    <3>3. p.nodes[w] = k
      BY <1>3, <2>1, <2>3, <3>1
    <3> QED BY <2>1, <2>3, <3>2, <3>3
  <2>4. CASE w \notin reusable
    <3>1. PICK k : k = [m EXCEPT !.ref = r]
      OBVIOUS
    <3>2. k.trunc = m.trunc /\ k.next = m.next /\ k.kids = m.kids
      BY <2>2, <3>1 DEF IsNode
    <3>3. p.nodes[w] = k
      BY <1>3, <2>1, <2>4, <3>1
    <3> QED BY <2>1, <2>4, <3>2, <3>3 DEF Kids
  <2> QED BY <2>3, <2>4
<1> QED BY <1>2, <1>3, <1>4 DEF reusable

\* A graft of what the application shows keeps an outline faithful.
LEMMA GraftIsFaithful ==
  ASSUME NEW u, IsTree(u), NEW o, IsOutline(o), Faithful(o, u), NEW s, IsLook(s), s.root \in Wires(o),
         NEW first \in Nat, Shown(s, u, first), NEW append \in BOOLEAN,
         append => (first > 0 /\ first = o.nodes[s.root].next), ~append => first = 0
  PROVE  Faithful(GraftScopedOutline(o, s, append), u)
<1>1. PICK p, W, w : p = GraftScopedOutline(o, s, append) /\ W = Whole(u) /\ w = s.root
  OBVIOUS
<1>2. /\ p.root = o.root /\ Wires(p) = Wires(o) \cup Wires(s)
      /\ \A x \in Wires(o) \ Wires(s) : p.nodes[x] = o.nodes[x]
      /\ \A x \in Wires(s) : /\ p.nodes[x].trunc = s.nodes[x].trunc /\ p.nodes[x].next = s.nodes[x].next
                             /\ IF x \in Below(o, w) THEN p.nodes[x].kids = GraftedKids(o, s, x, append)
                                ELSE p.nodes[x].kids = Kids(s, x)
  BY <1>1, GraftHas
<1>3. /\ Wires(o) \subseteq Wires(u) /\ Wires(s) \subseteq Wires(u) /\ o.root = u.root
      /\ \A x \in Wires(o) : FaithfulNode(u, W, x, o.nodes[x])
      /\ \A x \in Wires(s) : ShownNode(u, W, x, s.nodes[x], From(w, first, x))
  BY <1>1 DEF Faithful, Shown
<1>4. w \in Wires(s) /\ w \in Wires(o) /\ w \in Below(o, w) /\ Below(o, w) \subseteq Wires(o)
  BY <1>1, BelowIs DEF IsLook, Connected, IsOutline
<1>5. ASSUME NEW x \in Wires(s), From(w, first, x) = 0, ~(append /\ x = w) PROVE FaithfulNode(u, W, x, p.nodes[x])
  <2>1. ShownNode(u, W, x, s.nodes[x], 0) /\ x \in Wires(u)
    BY <1>3, <1>5
  <2>2. PICK kids : kids = Kids(u, x) /\ kids \in Seq(Wires(u))
    BY <2>1 DEF IsTree
  <2>3. PICK k \in 0 .. Len(kids) : /\ ReadTo(s.nodes[x], kids, k)
                                    /\ \E L : /\ s.nodes[x].kids = Only(SubSeq(kids, 0 + 1, k), L)
                                              /\ ToSet(SubSeq(kids, 0 + 1, k)) \cap W \subseteq L
    BY <2>1, <2>2 DEF ShownNode
  <2>4. PICK L : s.nodes[x].kids = Only(SubSeq(kids, 0 + 1, k), L) /\ ToSet(SubSeq(kids, 0 + 1, k)) \cap W \subseteq L
    BY <2>3
  <2>5. PICK page : page = SubSeq(kids, 0 + 1, k) /\ page = SubSeq(kids, 1, k) /\ page \in Seq(Wires(u))
    <3>1. k \in Nat /\ k <= Len(kids) /\ 0 + 1 = 1
      BY <2>2
    <3>2. SubSeq(kids, 1, k) \in Seq(Wires(u))
      BY <2>2, <3>1, HeadIs
    <3> QED BY <3>1, <3>2
  <2>6. Kids(s, x) = Only(page, L) /\ ToSet(page) \cap W \subseteq L
    BY <2>4, <2>5 DEF Kids
  <2>7. ReadTo(p.nodes[x], kids, k)
    BY <1>2, <2>3 DEF ReadTo
  <2>8. InOrder(Only(page, W), p.nodes[x].kids)
    <3>1. CASE x \in Below(o, w)
      <4>1. p.nodes[x].kids = Kids(s, x) \o PreserveUnreused(Kids(o, x), o, s)
        BY <1>1, <1>2, <1>5, <3>1 DEF GraftedKids
      <4>2. PICK old, A, B : old = Kids(o, x) /\ A = Wires(o) \ Wires(s) /\ B = Wires(s)
        OBVIOUS
      <4>3. old \in Seq(Wires(u))
        <5>1. old \in Seq(Wires(o))
          BY <1>4, <3>1, <4>2 DEF IsOutline, Closed
        <5> QED BY <1>3, <5>1, SeqMonotonic
      <4>4. ToSet(Only(page, L)) \subseteq B
        BY <2>6, <4>2, KidsIn DEF IsLook, Closed
      <4>5. A \cap B = {}
        BY <4>2
      <4>6. InOrder(Only(page, W), Only(page, L) \o Only(old, A))
        BY <2>5, <2>6, <4>3, <4>4, <4>5, KeptBehind
      <4> QED BY <2>6, <4>1, <4>2, <4>6 DEF PreserveUnreused
    <3>2. CASE x \notin Below(o, w)
      <4>1. p.nodes[x].kids = Only(page, L)
        BY <1>2, <2>6, <3>2
      <4> QED BY <2>5, <2>6, <4>1, FirstPage
    <3> QED BY <3>1, <3>2
  <2> QED BY <2>2, <2>3, <2>5, <2>7, <2>8 DEF FaithfulNode
<1>6. ASSUME append PROVE FaithfulNode(u, W, w, p.nodes[w])
  <2>1. first > 0 /\ first = o.nodes[w].next /\ From(w, first, w) = first /\ w \in Wires(u)
    BY <1>1, <1>3, <1>4, <1>6 DEF From
  <2>2. PICK kids : kids = Kids(u, w) /\ kids \in Seq(Wires(u))
    BY <2>1 DEF IsTree
  <2>3. first <= Len(kids) /\ InOrder(Only(SubSeq(kids, 1, first), W), Kids(o, w))
    <3>1. PICK a \in 0 .. Len(kids) : ReadTo(o.nodes[w], kids, a) /\ InOrder(Only(SubSeq(kids, 1, a), W), o.nodes[w].kids)
      BY <1>3, <1>4, <2>2 DEF FaithfulNode
    <3>2. a = first
      BY <2>1, <3>1 DEF ReadTo
    <3> QED BY <2>2, <3>1, <3>2 DEF Kids
  <2>4. PICK k \in first .. Len(kids) : /\ ReadTo(s.nodes[w], kids, k)
                                        /\ \E L : /\ s.nodes[w].kids = Only(SubSeq(kids, first + 1, k), L)
                                                  /\ ToSet(SubSeq(kids, first + 1, k)) \cap W \subseteq L
    BY <1>3, <1>4, <2>1, <2>2 DEF ShownNode
  <2>5. PICK L : s.nodes[w].kids = Only(SubSeq(kids, first + 1, k), L) /\ ToSet(SubSeq(kids, first + 1, k)) \cap W \subseteq L
    BY <2>4
  <2>6. k \in Nat /\ first <= k /\ k <= Len(kids) /\ k \in 0 .. Len(kids)
    BY <2>2, <2>3
  <2>7. PICK old, A, B : old = Kids(o, w) /\ A = Wires(o) \ Wires(s) /\ B = Wires(s)
    OBVIOUS
  <2>8. old \in Seq(Wires(u)) /\ old \in Seq(Wires(o))
    <3>1. old \in Seq(Wires(o))
      BY <1>4, <2>7 DEF IsOutline, Closed
    <3> QED BY <1>3, <3>1, SeqMonotonic
  <2>9. ToSet(Only(SubSeq(kids, first + 1, k), L)) \subseteq B
    <3>1. Kids(s, w) \in Seq(B)
      BY <1>4, <2>7 DEF IsLook, Closed
    <3> QED BY <2>5, <3>1, KidsIn DEF Kids
  <2>10. ToSet(Only(SubSeq(kids, 1, first), W)) \subseteq A
    <3>1. PICK head, q : head = SubSeq(kids, 1, first) /\ q = Only(head, W) /\ head \in Seq(Wires(u))
      <4>1. SubSeq(kids, 1, first) \in Seq(Wires(u))
        BY <2>2, <2>3, HeadIs
      <4> QED BY <4>1
    <3>2. q = Only(old, ToSet(q))
      BY <2>3, <2>7, <3>1 DEF InOrder
    <3>3. \A y \in ToSet(q) : y \in ToSet(old)
      BY <2>8, <3>2, OnlyIs
    <3>4. \A y \in ToSet(q) : y \in ToSet(head)
      BY <3>1, OnlyIs
    <3>5. \A y \in ToSet(head) : y \notin Wires(s)
      BY <1>1, <2>2, <2>3, <3>1, NotShown
    <3>6. ToSet(old) \subseteq Wires(o)
      BY <2>8, KidsIn
    <3> QED BY <2>7, <3>1, <3>3, <3>4, <3>5, <3>6
  <2>11. A \cap B = {} /\ InOrder(Only(SubSeq(kids, 1, first), W), old)
    BY <2>3, <2>7
  <2>12. InOrder(Only(SubSeq(kids, 1, k), W), Only(old, A) \o Only(SubSeq(kids, first + 1, k), L))
    BY <2>2, <2>5, <2>6, <2>8, <2>9, <2>10, <2>11, KeptBefore
  <2>13. p.nodes[w].kids = Only(old, A) \o Only(SubSeq(kids, first + 1, k), L)
    <3>1. p.nodes[w].kids = PreserveUnreused(Kids(o, w), o, s) \o Kids(s, w)
      BY <1>1, <1>2, <1>4, <1>6 DEF GraftedKids
    <3> QED BY <2>5, <2>7, <3>1 DEF PreserveUnreused, Kids
  <2>14. ReadTo(p.nodes[w], kids, k)
    BY <1>2, <1>4, <2>4 DEF ReadTo
  <2> QED BY <2>2, <2>6, <2>12, <2>13, <2>14 DEF FaithfulNode
<1>7. \A x \in Wires(p) : FaithfulNode(u, W, x, p.nodes[x])
  <2> SUFFICES ASSUME NEW x \in Wires(p) PROVE FaithfulNode(u, W, x, p.nodes[x])
    OBVIOUS
  <2>1. CASE x \notin Wires(s)
    BY <1>2, <1>3, <2>1
  <2>2. CASE x \in Wires(s) /\ append /\ x = w
    BY <1>6, <2>2
  <2>3. CASE x \in Wires(s) /\ ~(append /\ x = w)
    <3>1. From(w, first, x) = 0
      BY <2>3 DEF From
    <3> QED BY <1>5, <2>3, <3>1
  <2> QED BY <2>1, <2>2, <2>3
<1> QED BY <1>1, <1>2, <1>3, <1>7 DEF Faithful

\* A look shows the elements of the application as they are, with a page of their
\* children.
LookReads(u, look, first) ==
  /\ Wires(look) \subseteq Wires(u)
  /\ \A x \in Wires(look) : /\ look.nodes[x].role = u.nodes[x].role /\ look.nodes[x].live = u.nodes[x].live
                            /\ HasPage(u, x, look.nodes[x], From(look.root, first, x))

\* So does every bounded look.
LEMMA LooksRead ==
  ASSUME NEW u, IsTree(u), NEW w0 \in Wires(u), NEW first \in Nat, first <= Len(Kids(u, w0)),
         NEW look \in BoundedLooks(u, w0, first)
  PROVE  LookReads(u, look, first) /\ look.root = w0
<1>1. PICK limit \in Slices : look = [root |-> w0, nodes |-> Walk(u, w0, first, limit)]
  BY DEF BoundedLooks
<1>2. limit \in Nat
  BY <1>1, ObservationAssumption
<1>3. PICK s : WalkOK(u, w0, s) /\ Walk(u, w0, first, limit) = Ended(s) /\ WalkReads(u, w0, first, s)
  BY <1>2, WalkEnds
<1>4. look.root = w0 /\ look.nodes = Ended(s)
  BY <1>1, <1>3
<1>5. Wires(look) = Met(s) /\ \A x \in Met(s) : look.nodes[x] = Ended(s)[x]
  BY <1>4 DEF Ended, Met, Wires
<1>6. Met(s) \subseteq Wires(u)
  BY <1>3 DEF WalkOK
<1>7. ASSUME NEW x \in Met(s)
      PROVE  /\ look.nodes[x].role = u.nodes[x].role /\ look.nodes[x].live = u.nodes[x].live
             /\ HasPage(u, x, look.nodes[x], From(w0, first, x))
  <2>1. PICK n : n = s.nodes[x] /\ IsNode(n) /\ n.role = u.nodes[x].role /\ n.live = u.nodes[x].live
    BY <1>3 DEF WalkOK, WalkReads, Alike
  <2>2. CASE Entries(s, x) = {}
    <3>1. look.nodes[x] = n
      BY <1>5, <2>1, <2>2 DEF Ended, Met
    <3>2. x \notin Queued(s)
      BY <2>2 DEF Entries, Queued
    <3> QED BY <1>3, <2>1, <3>1, <3>2 DEF WalkReads
  <2>3. CASE Entries(s, x) # {}
    <3>1. PICK j : j = CHOOSE i \in Entries(s, x) : TRUE
      OBVIOUS
    <3>2. j \in DOMAIN s.queue /\ s.queue[j][1] = x
      BY <2>3, <3>1 DEF Entries
    <3>3. PICK k : k = From(w0, first, x) /\ s.queue[j][2] = k
      BY <1>3, <3>2 DEF WalkReads
    <3>4. PICK m : m = [n EXCEPT !.trunc = TRUE, !.next = k]
      OBVIOUS
    <3>5. m.role = n.role /\ m.live = n.live /\ m.kids = n.kids /\ m.trunc /\ m.next = k
      BY <2>1, <3>4 DEF IsNode
    <3>6. look.nodes[x] = m
      BY <1>5, <2>1, <2>3, <3>1, <3>3, <3>4 DEF Ended, Met
    <3>7. n.kids = <<>>
      <4>1. x \in Queued(s)
        BY <3>2 DEF Queued
      <4> QED BY <1>3, <2>1, <4>1 DEF WalkOK
    <3>8. PICK kids : kids = Kids(u, x) /\ kids \in Seq(Wires(u))
      BY <1>6 DEF IsTree
    <3>9. k \in Nat /\ k <= Len(kids) /\ Len(kids) \in Nat
      BY <3>3, <3>8 DEF From
    <3>10. SubSeq(kids, k + 1, k) = <<>>
      BY <3>9, SubSeqEmpty
    <3>11. HasPage(u, x, m, k)
      BY <3>5, <3>7, <3>8, <3>9, <3>10 DEF HasPage
    <3> QED BY <2>1, <3>3, <3>5, <3>6, <3>11
  <2> QED BY <2>2, <2>3
<1> QED BY <1>4, <1>5, <1>6, <1>7 DEF LookReads

\* Its children are children in the application, and all of them are in the look.
LEMMA KidsAreKids ==
  ASSUME NEW u, IsTree(u), NEW look, IsLook(look), NEW first \in Nat, LookReads(u, look, first), NEW x \in Wires(look)
  PROVE  ToSet(Kids(look, x)) \subseteq ToSet(Kids(u, x)) \cap Wires(look)
<1>1. PICK kids, from : kids = Kids(u, x) /\ kids \in Seq(Wires(u)) /\ from = From(look.root, first, x) /\ from \in Nat
  BY DEF LookReads, IsTree, From
<1>2. PICK m \in Nat : from <= m /\ m <= Len(kids) /\ Kids(look, x) = SubSeq(kids, from + 1, m)
  BY <1>1 DEF LookReads, HasPage, Kids
<1>3. \A y : y \in ToSet(SubSeq(kids, from + 1, m)) <=> \E i \in from + 1 .. m : kids[i] = y
  <2>1. kids \in Seq(Wires(u)) /\ from \in Nat /\ from <= m /\ m <= Len(kids)
    BY <1>1, <1>2
  <2>2. Cut(Wires(u), kids, from, m)
    BY <2>1, CutIs
  <2> QED BY <2>2 DEF Cut
<1>4. \A y \in ToSet(Kids(look, x)) : y \in ToSet(kids)
  <2> SUFFICES ASSUME NEW y \in ToSet(Kids(look, x)) PROVE y \in ToSet(kids)
    OBVIOUS
  <2>1. PICK i \in from + 1 .. m : kids[i] = y
    BY <1>2, <1>3
  <2>2. i \in DOMAIN kids
    BY <1>1, <1>2, <2>1
  <2> QED BY <2>1, <2>2, ToSetIs
<1>5. ToSet(Kids(look, x)) \subseteq Wires(look)
  BY KidsIn DEF IsLook, Closed
<1> QED BY <1>1, <1>4, <1>5

\* An unpruned look is shown whole.
LEMMA LookIsShown ==
  ASSUME NEW u, IsTree(u), NEW look, NEW first \in Nat, LookReads(u, look, first)
  PROVE  Shown(look, u, first)
<1> SUFFICES ASSUME NEW x \in Wires(look) PROVE ShownNode(u, Whole(u), x, look.nodes[x], From(look.root, first, x))
  BY DEF Shown, LookReads
<1>1. PICK kids, from, n : /\ kids = Kids(u, x) /\ kids \in Seq(Wires(u)) /\ from = From(look.root, first, x) /\ from \in Nat
                           /\ n = look.nodes[x] /\ HasPage(u, x, n, from)
  BY DEF LookReads, IsTree, From
<1>2. PICK m \in Nat : /\ from <= m /\ m <= Len(kids) /\ n.kids = SubSeq(kids, from + 1, m)
                       /\ IF n.trunc THEN n.next = m ELSE n.next = 0 /\ m = Len(kids)
  BY <1>1 DEF HasPage
<1>3. PICK page, L : page = SubSeq(kids, from + 1, m) /\ page \in Seq(Wires(u)) /\ L = ToSet(page)
  <2>1. kids \in Seq(Wires(u)) /\ from \in Nat /\ from <= m /\ m <= Len(kids)
    BY <1>1, <1>2
  <2>2. Cut(Wires(u), kids, from, m)
    BY <2>1, CutIs
  <2> QED BY <2>2 DEF Cut
<1>4. n.kids = Only(page, L) /\ ToSet(page) \cap Whole(u) \subseteq L
  BY <1>2, <1>3, OnlyAll
<1>5. m \in from .. Len(kids)
  BY <1>1, <1>2
<1> QED BY <1>1, <1>2, <1>3, <1>4, <1>5 DEF ShownNode, ReadTo

\* The tree of an application is a look at all of it.
LEMMA TreeIsLook == ASSUME NEW u, IsTree(u) PROVE IsLook(u)
<1>1. u = [root |-> u.root, nodes |-> u.nodes] /\ IsFiniteSet(Wires(u)) /\ u.root \in Wires(u)
  BY DEF IsTree
<1>2. \A x \in Wires(u) : IsNode(u.nodes[x]) /\ Kids(u, x) \in Seq(Wires(u))
  BY DEF IsTree
<1>3. Parents(u, u.root) = {}
  <2>1. Wires(u) \in SUBSET Wires(u) /\ Wires(u) # {}
    BY <1>1
  <2>2. PICK w \in Wires(u) : Parents(u, w) \cap Wires(u) = {}
    BY <2>1 DEF IsTree
  <2>3. Parents(u, w) = {}
    BY <2>2 DEF Parents
  <2> QED BY <2>2, <2>3 DEF IsTree
<1>4. \A x \in Wires(u) : u.root \notin ToSet(Kids(u, x))
  BY <1>3, ToSetIs DEF Parents
<1>5. ASSUME NEW T \in SUBSET Wires(u), u.root \in T, \A w \in T : ToSet(Kids(u, w)) \subseteq T PROVE T = Wires(u)
  <2>1. PICK S : S = Wires(u) \ T
    OBVIOUS
  <2>2. SUFFICES ASSUME S # {} PROVE FALSE
    BY <2>1
  <2>3. S \in SUBSET Wires(u)
    BY <2>1
  <2>4. PICK w \in S : Parents(u, w) \cap S = {}
    BY <2>2, <2>3 DEF IsTree
  <2>5. w \in Wires(u) /\ w # u.root
    BY <1>5, <2>1
  <2>6. Parents(u, w) # {}
    BY <2>5 DEF IsTree
  <2>7. PICK p \in Wires(u) : p \in Parents(u, w) /\ \E i \in DOMAIN Kids(u, p) : Kids(u, p)[i] = w
    BY <2>6 DEF Parents
  <2>8. p \in T /\ w \in ToSet(Kids(u, p))
    BY <2>1, <2>4, <2>7, ToSetIs
  <2> QED BY <1>5, <2>1, <2>8
<1> QED BY <1>1, <1>2, <1>4, <1>5 DEF IsLook, Closed, Connected

\* What is pruned, and what is left of a node.
Gone(o) == UNION {Below(o, w) : w \in Detached(o)}

\* A pruned look keeps its nodes but for the children that are gone.
LEMMA PruneHas ==
  ASSUME NEW o, IsLook(o), NEW p, p = PruneDetachedWebAreas(o)
  PROVE  /\ p.root = o.root /\ Wires(p) = Wires(o) \ Gone(o)
         /\ \A w \in Wires(p) : /\ p.nodes[w].kids = Only(Kids(o, w), Wires(p))
                                /\ p.nodes[w].trunc = o.nodes[w].trunc /\ p.nodes[w].next = o.nodes[w].next
<1> DEFINE gone == UNION {Below(o, w) : w \in Detached(o)}
           L == Wires(o) \ gone
           t == [w \in L |-> [o.nodes[w] EXCEPT !.kids = Only(@, L)]]
<1>1. p = [o EXCEPT !.nodes = Table(t)]
  BY Zenon DEF PruneDetachedWebAreas
<1>2. L = Wires(o) \ Gone(o)
  BY DEF Gone
<1> HIDE DEF gone, L
<1>3. p.root = o.root /\ p.nodes = t /\ Wires(p) = L
  <2>1. p.root = o.root /\ p.nodes = t /\ Wires(p) = DOMAIN t
    <3> HIDE DEF t
    <3> QED BY <1>1, WithNodes DEF IsLook
  <2> QED BY <2>1
<1>4. ASSUME NEW w \in L
      PROVE  p.nodes[w].kids = Only(Kids(o, w), L) /\ p.nodes[w].trunc = o.nodes[w].trunc /\ p.nodes[w].next = o.nodes[w].next
  <2>1. PICK n : n = o.nodes[w] /\ IsNode(n)
    BY <1>2, <1>4 DEF IsLook
  <2>2. PICK kids : kids = Only(n.kids, L)
    OBVIOUS
  <2>3. p.nodes[w] = [n EXCEPT !.kids = kids]
    BY <1>3, <2>1, <2>2
  <2> QED BY <2>1, <2>2, <2>3 DEF IsNode, Kids
<1> QED BY <1>2, <1>3, <1>4

\* A look takes no live document for a detached one.
LEMMA GoneIsGone ==
  ASSUME NEW u, IsTree(u), NEW look, IsLook(look), look.root = u.root, LookReads(u, look, 0)
  PROVE  Gone(look) \cap Whole(u) = {}
<1>1. IsLook(u)
  BY TreeIsLook
<1>2. Whole(u) = Wires(u) \ Gone(u)
  BY <1>1, PruneHas DEF Whole
<1>3. \A x \in Wires(look) : x \in Wires(u) /\ look.nodes[x].role = u.nodes[x].role /\ look.nodes[x].live = u.nodes[x].live
  BY DEF LookReads
<1>4. ASSUME NEW d \in Detached(look) PROVE d \in Detached(u) /\ d \in Wires(look)
  BY <1>3 DEF Detached, WebAreas
<1>5. ASSUME NEW d \in Detached(look) PROVE Below(look, d) \subseteq Below(u, d)
  <2>1. d \in Wires(look) /\ d \in Wires(u)
    BY <1>3, <1>4
  <2>2. d \in Below(u, d) /\ \A x \in Below(u, d) : ToSet(Kids(u, x)) \subseteq Below(u, d)
    BY <1>1, <2>1, BelowIs DEF IsLook
  <2>3. PICK T : T = Below(u, d) \cap Wires(look)
    OBVIOUS
  <2>4. \A x \in T : Kids(look, x) \in Seq(T)
    <3> SUFFICES ASSUME NEW x \in T PROVE Kids(look, x) \in Seq(T)
      OBVIOUS
    <3>1. ToSet(Kids(look, x)) \subseteq ToSet(Kids(u, x)) \cap Wires(look)
      BY <2>3, KidsAreKids
    <3>2. PICK kids : kids = Kids(look, x) /\ kids \in Seq(Wires(look)) /\ ToSet(kids) \subseteq T
      BY <2>2, <2>3, <3>1 DEF IsLook, Closed
    <3>3. \A i \in 1 .. Len(kids) : kids[i] \in T
      BY <3>2, ToSetIs
    <3> QED BY <3>2, <3>3
  <2>5. LevelsFrom(look, <<d>>) \in Seq(T)
    BY <2>1, <2>2, <2>3, <2>4, LevelsIn DEF IsLook
  <2>6. Below(look, d) \subseteq T
    BY <2>5, KidsIn DEF Below
  <2> QED BY <2>3, <2>6
<1> QED BY <1>2, <1>4, <1>5 DEF Gone

\* A look from the root, pruned, shows the application.
LEMMA PrunedIsShown ==
  ASSUME NEW u, IsTree(u), NEW look \in BoundedLooks(u, u.root, 0), NEW p, p = PruneDetachedWebAreas(look)
  PROVE  Shown(p, u, 0) /\ p.root = u.root
<1>1. u.root \in Wires(u) /\ Kids(u, u.root) \in Seq(Wires(u))
  BY DEF IsTree
<1>2. 0 <= Len(Kids(u, u.root))
  BY <1>1
<1>3. IsLook(look) /\ LookReads(u, look, 0) /\ look.root = u.root
  BY <1>1, <1>2, LooksAre, LooksRead
<1>4. /\ p.root = look.root /\ Wires(p) = Wires(look) \ Gone(look)
      /\ \A w \in Wires(p) : /\ p.nodes[w].kids = Only(Kids(look, w), Wires(p))
                             /\ p.nodes[w].trunc = look.nodes[w].trunc /\ p.nodes[w].next = look.nodes[w].next
  BY <1>3, PruneHas
<1>5. Gone(look) \cap Whole(u) = {}
  BY <1>3, GoneIsGone
<1>6. ASSUME NEW x \in Wires(p) PROVE ShownNode(u, Whole(u), x, p.nodes[x], From(p.root, 0, x))
  <2>1. PICK kids : kids = Kids(u, x) /\ kids \in Seq(Wires(u)) /\ x \in Wires(look) /\ From(p.root, 0, x) = 0
    BY <1>3, <1>4, <1>6 DEF LookReads, IsTree, From
  <2>2. PICK m \in Nat : /\ 0 <= m /\ m <= Len(kids) /\ Kids(look, x) = SubSeq(kids, 0 + 1, m)
                         /\ IF look.nodes[x].trunc THEN look.nodes[x].next = m ELSE look.nodes[x].next = 0 /\ m = Len(kids)
    <3>1. HasPage(u, x, look.nodes[x], 0)
      <4>1. \A y \in Wires(look) : HasPage(u, y, look.nodes[y], From(look.root, 0, y))
        BY <1>3 DEF LookReads
      <4>2. From(look.root, 0, x) = 0
        BY DEF From
      <4> QED BY <2>1, <4>1, <4>2
    <3>2. Kids(look, x) = look.nodes[x].kids /\ kids = u.nodes[x].kids
      BY <2>1 DEF Kids
    <3> QED BY <2>1, <3>1, <3>2 DEF HasPage, Kids
  <2>3. PICK page, L : page = SubSeq(kids, 0 + 1, m) /\ L = Wires(p)
    OBVIOUS
  <2>4. ToSet(page) \subseteq Wires(look)
    BY <1>3, <2>1, <2>2, <2>3, KidsAreKids
  <2>5. p.nodes[x].kids = Only(page, L) /\ ToSet(page) \cap Whole(u) \subseteq L
    BY <1>4, <1>5, <1>6, <2>2, <2>3, <2>4
  <2>6. m \in 0 .. Len(kids) /\ ReadTo(p.nodes[x], kids, m)
    BY <1>4, <1>6, <2>1, <2>2 DEF ReadTo
  <2> QED BY <2>1, <2>3, <2>5, <2>6 DEF ShownNode
<1>7. Wires(p) \subseteq Wires(u)
  BY <1>3, <1>4 DEF LookReads
<1> QED BY <1>3, <1>4, <1>6, <1>7 DEF Shown

\* So a fresh outline is faithful, whatever it is named after.
LEMMA FirstIsFaithful ==
  ASSUME NEW u, IsTree(u), NEW look, Shown(look, u, 0), look.root = u.root, NEW o, SameNodes(o, look)
  PROVE  Faithful(o, u)
<1>1. ASSUME NEW x \in Wires(o) PROVE FaithfulNode(u, Whole(u), x, o.nodes[x])
  <2>1. x \in Wires(look) /\ x \in Wires(u) /\ From(look.root, 0, x) = 0
    BY <1>1 DEF SameNodes, Shown, From
  <2>2. FaithfulNode(u, Whole(u), x, look.nodes[x])
    BY <2>1, ShownIsFaithful DEF Shown
  <2>3. /\ o.nodes[x].kids = look.nodes[x].kids /\ o.nodes[x].trunc = look.nodes[x].trunc
        /\ o.nodes[x].next = look.nodes[x].next
    BY <2>1 DEF SameNodes
  <2> QED BY <2>2, <2>3 DEF FaithfulNode, ReadTo
<1> QED BY <1>1 DEF Faithful, SameNodes, Shown

\* A graft of a look at an element where its children were left off, or from the
\* first on, keeps an outline faithful.
LEMMA GraftOfLook ==
  ASSUME NEW u, IsTree(u), NEW o, IsOutline(o), Faithful(o, u), NEW w \in Wires(o), NEW from \in Nat,
         from \in {0, o.nodes[w].next}, NEW look \in BoundedLooks(u, w, from)
  PROVE  Faithful(GraftScopedOutline(o, look, from > 0), u)
<1>1. w \in Wires(u) /\ Kids(u, w) \in Seq(Wires(u))
  BY DEF Faithful, IsTree
<1>2. from <= Len(Kids(u, w))
  <2>1. PICK k \in 0 .. Len(Kids(u, w)) : ReadTo(o.nodes[w], Kids(u, w), k)
    BY DEF Faithful, FaithfulNode
  <2> QED BY <1>1, <2>1 DEF ReadTo
<1>3. IsLook(look) /\ look.root = w /\ LookReads(u, look, from)
  BY <1>1, <1>2, LooksAre, LooksRead
<1>4. Shown(look, u, from)
  BY <1>3, LookIsShown
<1>5. CASE from > 0
  <2>1. from = o.nodes[look.root].next
    BY <1>3, <1>5
  <2>2. Faithful(GraftScopedOutline(o, look, TRUE), u)
    BY <1>3, <1>4, <1>5, <2>1, GraftIsFaithful
  <2>3. (from > 0) = TRUE
    BY <1>5
  <2> QED BY <2>2, <2>3
<1>6. CASE from = 0
  <2>1. Faithful(GraftScopedOutline(o, look, FALSE), u)
    BY <1>3, <1>4, <1>6, GraftIsFaithful
  <2>2. (from > 0) = FALSE
    BY <1>6
  <2> QED BY <2>1, <2>2
<1> QED BY <1>5, <1>6

\* Nothing that a faithful outline reaches is left to read: then it is whole.
LEMMA NothingIsOpen ==
  ASSUME NEW o, IsOutline(o), o.root \in Wires(o), Frontiers(o) = <<>>, NEW w \in ToSet(BreadthFirst(o))
  PROVE  ~o.nodes[w].trunc
<1> SUFFICES ASSUME o.nodes[w].trunc PROVE FALSE
  OBVIOUS
<1>1. PICK order : order = BreadthFirst(o) /\ order \in Seq(Wires(o))
  BY LevelsIn DEF BreadthFirst, IsOutline, Closed
<1>2. PICK open : open = {x \in Wires(o) : o.nodes[x].trunc}
  OBVIOUS
<1>3. PICK begun : begun = {x \in open : o.nodes[x].next > 0}
  OBVIOUS
<1>4. PICK a, b : a = Only(order, begun) /\ b = Only(order, open \ begun)
  OBVIOUS
<1>5. Frontiers(o) = a \o b
  BY <1>1, <1>2, <1>3, <1>4 DEF Frontiers
<1>6. a \in Seq(Wires(o)) /\ b \in Seq(Wires(o))
  <2>1. a \in Seq(Wires(o) \cap begun) /\ b \in Seq(Wires(o) \cap (open \ begun))
    BY <1>1, <1>4, OnlyIs
  <2> QED BY <2>1
<1>7. w \in open /\ w \in ToSet(order)
  BY <1>1, <1>2, KidsIn
<1>8. w \in ToSet(a) \/ w \in ToSet(b)
  BY <1>1, <1>4, <1>7, OnlyIs
<1>9. w \in ToSet(a \o b)
  BY <1>6, <1>8, JoinedToSet
<1> QED BY <1>5, <1>9 DEF ToSet

\* What is whole has every live element of the application, in its order.
LEMMA FaithfulIsWhole ==
  ASSUME NEW u, IsTree(u), NEW o, IsOutline(o), Faithful(o, u), o.root \in Wires(o), Frontiers(o) = <<>>,
         NEW whole, whole = PruneDetachedWebAreas(u)
  PROVE  \A w \in Wires(whole) : w \in Wires(o) /\ InOrder(Kids(whole, w), Kids(o, w))
<1>1. IsLook(u) /\ IsLook(whole) /\ whole.root = u.root /\ Wires(whole) = Whole(u)
  BY TreeIsLook, PruneIs, PruneHas DEF Whole
<1>2. \A w \in Wires(whole) : w \in Wires(u) /\ Kids(whole, w) = Only(Kids(u, w), Whole(u))
  BY <1>1, PruneHas DEF Kids
<1>3. PICK R : R = Below(o, o.root)
  OBVIOUS
<1>4. /\ R \subseteq Wires(o) /\ o.root \in R /\ \A x \in R : ToSet(Kids(o, x)) \subseteq R
  BY <1>3, BelowIs DEF IsOutline
<1>5. \A w \in R : ~o.nodes[w].trunc
  BY <1>3, NothingIsOpen DEF Below, BreadthFirst
<1>6. ASSUME NEW w \in R PROVE InOrder(Only(Kids(u, w), Whole(u)), Kids(o, w)) /\ w \in Wires(u)
  <2>1. w \in Wires(u) /\ Kids(u, w) \in Seq(Wires(u)) /\ FaithfulNode(u, Whole(u), w, o.nodes[w])
    BY <1>4, <1>6 DEF Faithful, IsTree
  <2>2. PICK kids : kids = Kids(u, w) /\ kids \in Seq(Wires(u))
    BY <2>1
  <2>3. PICK k \in 0 .. Len(kids) : ReadTo(o.nodes[w], kids, k) /\ InOrder(Only(SubSeq(kids, 1, k), Whole(u)), o.nodes[w].kids)
    BY <2>1, <2>2 DEF FaithfulNode
  <2>4. k = Len(kids)
    BY <1>5, <1>6, <2>3 DEF ReadTo
  <2>5. SubSeq(kids, 1, k) = kids
    BY <2>2, <2>4, SubSeqFull
  <2> QED BY <2>1, <2>2, <2>3, <2>5 DEF Kids
<1>7. PICK T : T = R \cap Wires(whole)
  OBVIOUS
<1>8. whole.root \in T
  BY <1>1, <1>4, <1>7 DEF Faithful, IsLook, Connected
<1>9. \A w \in T : ToSet(Kids(whole, w)) \subseteq T
  <2> SUFFICES ASSUME NEW w \in T, NEW y \in ToSet(Kids(whole, w)) PROVE y \in T
    OBVIOUS
  <2>1. PICK q : q = Kids(whole, w) /\ q = Only(Kids(u, w), Whole(u)) /\ q \in Seq(Wires(whole)) /\ InOrder(q, Kids(o, w))
    BY <1>1, <1>2, <1>6, <1>7 DEF IsLook, Closed
  <2>2. y \in Wires(whole)
    BY <2>1, KidsIn
  <2>3. PICK old : old = Kids(o, w) /\ old \in Seq(Wires(o))
    BY <1>4, <1>7 DEF IsOutline, Closed
  <2>4. y \in ToSet(old)
    <3>1. Only(old, ToSet(q)) = q
      BY <2>1, <2>3 DEF InOrder
    <3>2. \A x : x \in ToSet(Only(old, ToSet(q))) <=> x \in ToSet(old) /\ x \in ToSet(q)
      BY <2>3, OnlyIs
    <3> QED BY <2>1, <3>1, <3>2
  <2> QED BY <1>4, <1>7, <2>2, <2>3, <2>4
<1>10. T = Wires(whole)
  <2>1. T \in SUBSET Wires(whole)
    BY <1>7
  <2> QED BY <1>1, <1>8, <1>9, <2>1 DEF IsLook, Connected
<1> QED BY <1>2, <1>4, <1>6, <1>7, <1>10

--------------------------------------------------------------------------------
(* Time: the application changes by itself or by a write, and what was seen
   before is then only of the past.                                           *)

\* What was seen at this moment is what the application shows.
Current(x, u, n, e) ==
  /\ x.at \in Nat /\ x.at <= n /\ x.epoch \in Nat /\ x.epoch <= e
  /\ (x.at = n /\ x.epoch = e) => Faithful(x.outline, u)
Now(st, u, n, e) == st.id = NoState \/ Current(st, u, n, e)
Done(x) == x.phase = "complete" => Frontiers(x.outline) = <<>>
WholeInv ==
  /\ changes \in Nat
  /\ \A i \in DOMAIN saved : Now(saved[i], ui, changes, epoch)
  /\ \A c \in Calls : Now(calls[c].st, ui, changes, epoch)
  /\ index.phase # "none" => Current(index, ui, changes, epoch)
  /\ Done(index)

\* How time goes on, and what a call does meanwhile.
TimeMoves ==
  \/ UNCHANGED <<ui, changes, epoch>>
  \/ changes' = changes + 1 /\ epoch' = epoch
  \/ changes' = changes /\ epoch' = epoch + 1
Seen(x) == Current(x, ui', changes', epoch')
Held(st) == Now(st, ui', changes', epoch')
IndexMoves == index' = index \/ (Seen(index') /\ Done(index'))
SavedHeld == \A i \in DOMAIN saved' : (\E j \in DOMAIN saved : saved'[i] = saved[j]) \/ Held(saved'[i])
WholeMoves(c) ==
  /\ \A d \in Calls : d # c => calls'[d] = calls[d]
  /\ Held(calls'[c].st) /\ SavedHeld /\ TimeMoves /\ IndexMoves

\* What was of this moment is so still, or is of the past.
LEMMA CurrentLater ==
  ASSUME NEW x, changes \in Nat, epoch \in Nat, Current(x, ui, changes, epoch), TimeMoves
  PROVE  Seen(x)
<1>1. CASE UNCHANGED <<ui, changes, epoch>>
  BY <1>1 DEF Seen, Current
<1>2. CASE changes' = changes + 1 /\ epoch' = epoch
  <2>1. x.at \in Nat /\ x.at <= changes' /\ x.at # changes' /\ x.epoch \in Nat /\ x.epoch <= epoch'
    BY <1>2 DEF Current
  <2> QED BY <2>1 DEF Seen, Current
<1>3. CASE changes' = changes /\ epoch' = epoch + 1
  <2>1. x.at \in Nat /\ x.at <= changes' /\ x.epoch # epoch' /\ x.epoch \in Nat /\ x.epoch <= epoch'
    BY <1>3 DEF Current
  <2> QED BY <2>1 DEF Seen, Current
<1> QED BY <1>1, <1>2, <1>3 DEF TimeMoves

\* The same of a state, which may be none.
LEMMA HeldLater ==
  ASSUME NEW st, changes \in Nat, epoch \in Nat, Now(st, ui, changes, epoch), TimeMoves
  PROVE  Held(st)
BY CurrentLater DEF Now, Held, Seen

\* Only what is said of the moment and of the outline counts.
LEMMA SeenAlike ==
  ASSUME NEW x, Seen(x), NEW y, y.at = x.at, y.epoch = x.epoch, y.outline = x.outline
  PROVE  Seen(y)
BY DEF Seen, Current

\* The copy of a call is held.
LEMMA CopyIsHeld == ASSUME EpochInv, WholeInv, NEW c \in Calls, TimeMoves PROVE Held(calls[c].st)
BY HeldLater DEF EpochInv, WholeInv

\* No call holds no state.
LEMMA IdleIsHeld == Held(Idle.st)
<1>1. PICK n : n = 1
  OBVIOUS
<1>2. Grounded(Idle.st, n)
  BY <1>1, NothingIs
<1>3. Idle.st.id = NoState
  <2>1. Idle.st.id \in Nat /\ Idle.st.id < 1
    BY <1>1, <1>2 DEF Grounded
  <2> QED BY <2>1 DEF NoState
<1> QED BY <1>3 DEF Held, Now

\* A call that answers saves one state that is held.
LEMMA ReplyHeld ==
  ASSUME EpochInv, NEW c \in Calls, NEW st, NEW told, Reply(c, st, told), Held(st), TimeMoves, IndexMoves
  PROVE  WholeMoves(c)
<1>1. calls' = [calls EXCEPT ![c] = Idle] /\ saved' = Persisted(st) /\ calls = [d \in Calls |-> calls[d]]
  BY DEF Reply, EpochInv
<1>2. calls'[c] = Idle /\ \A d \in Calls : d # c => calls'[d] = calls[d]
  BY <1>1
<1>3. SavedHeld
  <2> SUFFICES ASSUME NEW i \in DOMAIN saved'
               PROVE  (\E j \in DOMAIN saved : saved'[i] = saved[j]) \/ Held(saved'[i])
    BY DEF SavedHeld
  <2>1. saved'[i] = st \/ \E j \in DOMAIN saved : saved'[i] = saved[j]
    BY <1>1, PersistedHas DEF EpochInv
  <2> QED BY <2>1
<1> QED BY <1>2, <1>3, IdleIsHeld DEF WholeMoves

\* A call that fails saves none.
LEMMA FailHeld ==
  ASSUME EpochInv, NEW c \in Calls, Fail(c), TimeMoves, IndexMoves
  PROVE  WholeMoves(c)
<1>1. calls' = [calls EXCEPT ![c] = Idle] /\ saved' = saved /\ calls = [d \in Calls |-> calls[d]]
  BY DEF Fail, EpochInv
<1>2. calls'[c] = Idle /\ \A d \in Calls : d # c => calls'[d] = calls[d]
  BY <1>1
<1>3. SavedHeld
  BY <1>1 DEF SavedHeld
<1> QED BY <1>2, <1>3, IdleIsHeld DEF WholeMoves

\* A call that goes on holds one state in its copy.
LEMMA GoesOnHeld ==
  ASSUME EpochInv, NEW c \in Calls, NEW call, calls' = [calls EXCEPT ![c] = call], Held(call.st), SavedHeld, TimeMoves, IndexMoves
  PROVE  WholeMoves(c)
<1>1. calls = [d \in Calls |-> calls[d]]
  BY DEF EpochInv
<1>2. calls'[c] = call /\ \A d \in Calls : d # c => calls'[d] = calls[d]
  BY <1>1
<1> QED BY <1>2 DEF WholeMoves

\* The index begins with a state of this moment.
LEMMA SeedHeld == ASSUME NEW st, SeedSemanticIndex(st), Seen(st) PROVE IndexMoves
<1>1. PICK p : /\ p = IF Frontiers(st.outline) = <<>> THEN "complete" ELSE "crawling"
               /\ index' = [phase |-> p, outline |-> st.outline, epoch |-> st.epoch, epochs |-> st.epochs,
                            since |-> st.since, at |-> st.at, stale |-> FALSE]
  BY DEF SeedSemanticIndex
<1>2. index'.phase = p /\ index'.outline = st.outline /\ index'.epoch = st.epoch /\ index'.at = st.at
  BY <1>1
<1>3. Done(index')
  BY <1>1, <1>2 DEF Done
<1> QED BY <1>2, <1>3, SeenAlike DEF IndexMoves

\* A capture is of this moment.
LEMMA CaptureIsSeen ==
  ASSUME EpochInv, NameInv, WholeInv, NEW st, NEW n, Grounded(st, n), NEW tree \in Uis, ui' = tree, changes' = changes,
         NEW e \in Nat, epoch' = e, NEW id, NEW x \in Captures(st, tree, e, id)
  PROVE  Seen(x)
<1>1. PICK seen \in BoundedLooks(tree, tree.root, 0) : x = CaptureOf(st, PruneDetachedWebAreas(seen), e, id)
  BY DEF Captures
<1>2. IsTree(tree) /\ tree.root \in Wires(tree)
  BY ObservationAssumption DEF IsTree
<1>3. PICK look : look = PruneDetachedWebAreas(seen) /\ IsLook(look) /\ Shown(look, tree, 0) /\ look.root = tree.root
  BY <1>1, <1>2, LooksAre, PruneIs, PrunedIsShown
<1>4. PICK o : o = IF st.id = NoState THEN BuildOutline(look) ELSE StabilizeRefs(st.outline, look)
  OBVIOUS
<1>5. PICK note : x = [id |-> id, outline |-> o, epoch |-> e, note |-> note, read |-> FALSE, by |-> "observe", epochs |-> {e}, since |-> e, at |-> changes]
  BY <1>1, <1>3, <1>4 DEF CaptureOf
<1>6. x.outline = o /\ x.epoch = e /\ x.at = changes
  BY <1>5
<1>7. SameNodes(o, look)
  <2>1. CASE st.id = NoState
    BY <1>3, <1>4, <2>1, BuildIs
  <2>2. CASE st.id # NoState
    <3>1. Successor(StabilizeRefs(st.outline, look), st.outline, look)
      BY <1>3, StabilizeIs DEF Grounded
    <3> QED BY <1>4, <2>2, <3>1 DEF Successor
  <2> QED BY <2>1, <2>2
<1>8. Faithful(o, tree)
  BY <1>2, <1>3, <1>7, FirstIsFaithful
<1>9. changes \in Nat
  BY DEF WholeInv
<1> QED BY <1>6, <1>8, <1>9 DEF Seen, Current

\* Reading on where a state of this moment stopped is faithful, too.
LEMMA GraftIsSeen ==
  ASSUME EpochInv, NameInv, WholeInv, NEW st, NEW n, Grounded(st, n), st.id # NoState, Now(st, ui, changes, epoch),
         st.epoch = epoch, NEW w \in Wires(st.outline), NEW from \in {0, st.outline.nodes[w].next},
         NEW look \in BoundedLooks(ui, w, from)
  PROVE  st.at = changes => Faithful(GraftScopedOutline(st.outline, look, from > 0), ui)
<1>1. IsTree(ui) /\ IsOutline(st.outline)
  BY ObservationAssumption DEF NameInv, Grounded
<1>2. from \in Nat
  <2>1. st.outline.nodes[w].next \in Nat
    BY <1>1 DEF IsOutline, IsNode
  <2> QED BY <2>1
<1>3. st.at = changes => Faithful(st.outline, ui)
  BY DEF Now, Current
<1> QED BY <1>1, <1>2, <1>3, GraftOfLook

\* At the start nothing was seen.
LEMMA WholeStart == ObservationInit => WholeInv
<1> SUFFICES ASSUME ObservationInit PROVE WholeInv
  OBVIOUS
<1>1. changes \in Nat /\ index.phase = "none" /\ DOMAIN saved = {} /\ \A c \in Calls : calls[c].st = Idle.st
  BY DEF ObservationInit, NoIndex
<1>2. PICK n : n = 1
  OBVIOUS
<1>3. Grounded(Idle.st, n)
  BY <1>2, NothingIs
<1>4. Idle.st.id = NoState
  <2>1. Idle.st.id \in Nat /\ Idle.st.id < 1
    BY <1>2, <1>3 DEF Grounded
  <2> QED BY <2>1 DEF NoState
<1> QED BY <1>1, <1>4 DEF WholeInv, Now, Done

\* One lemma for each step of a call: starting it,
LEMMA StartHeld == ASSUME EpochInv, WholeInv, NEW c \in Calls, Start(c) PROVE WholeMoves(c)
<1>1. PICK op, id, ref, query, st :
        /\ id \in SavedIds \cup {NoState}
        /\ st = IF id = NoState THEN Idle.st ELSE Get(id)
        /\ calls' = [calls EXCEPT ![c] = [phase |-> "run", op |-> op, ref |-> ref, query |-> query, st |-> st]]
  <2>1. PICK op \in Ops, id \in SavedIds \cup {NoState} :
          LET st == IF id = NoState THEN Idle.st ELSE Get(id) IN
            \E ref, query : calls' = [calls EXCEPT ![c] = [phase |-> "run", op |-> op, ref |-> ref, query |-> query, st |-> st]]
    BY DEF Start
  <2>2. PICK st : st = IF id = NoState THEN Idle.st ELSE Get(id)
    OBVIOUS
  <2>3. PICK ref, query : calls' = [calls EXCEPT ![c] = [phase |-> "run", op |-> op, ref |-> ref, query |-> query, st |-> st]]
    BY <2>1, <2>2
  <2> QED BY <2>1, <2>2, <2>3, Zenon
<1>2. UNCHANGED <<ui, changes, epoch, index, saved>>
  BY DEF Start
<1>3. Held(st)
  <2>1. CASE id = NoState
    BY <1>1, <2>1, IdleIsHeld
  <2>2. CASE id # NoState
    <3>1. PICK i : i = CHOOSE j \in DOMAIN saved : saved[j].id = id
      OBVIOUS
    <3>2. i \in DOMAIN saved
      BY <1>1, <2>2, <3>1 DEF SavedIds
    <3>3. st = saved[i]
      BY <1>1, <2>2, <3>1 DEF Get
    <3> QED BY <1>2, <3>2, <3>3 DEF WholeInv, Held
  <2> QED BY <2>1, <2>2
<1>4. PICK call : call = [phase |-> "run", op |-> op, ref |-> ref, query |-> query, st |-> st]
  OBVIOUS
<1>5. call.st = st /\ calls' = [calls EXCEPT ![c] = call]
  BY <1>1, <1>4
<1> QED BY <1>2, <1>3, <1>5, GoesOnHeld DEF SavedHeld, TimeMoves, IndexMoves

\* observing,
LEMMA ObserveHeld == ASSUME EpochInv, NameInv, WholeInv, NEW c \in Calls, ObserveUi(c) PROVE WholeMoves(c)
<1>1. PICK st \in Captures(calls[c].st, ui, epoch, nextState) : SeedSemanticIndex(st) /\ Reply(c, st, Told(st, {}))
  BY DEF ObserveUi
<1>2. UNCHANGED <<ui, changes, epoch>> /\ ui \in Uis /\ epoch \in Nat /\ Grounded(calls[c].st, nextState)
  BY DEF ObserveUi, NameInv, EpochInv
<1>3. Seen(st)
  BY <1>1, <1>2, CaptureIsSeen
<1> QED BY <1>1, <1>2, <1>3, SeedHeld, ReplyHeld DEF TimeMoves, Held, Now, Seen

\* expanding,
LEMMA ExpandHeld == ASSUME EpochInv, NameInv, WholeInv, NEW c \in Calls, ExpandUi(c) PROVE WholeMoves(c)
<1> DEFINE st == calls[c].st
           w == CHOOSE x \in Named(st.outline, calls[c].ref) : TRUE
           n == st.outline.nodes[w].next
<1>1. \/ Fail(c) \/ Reply(c, st, Told(st, {w}))
      \/ /\ Named(st.outline, calls[c].ref) # {} /\ st.epoch = epoch
         /\ \E look \in BoundedLooks(ui, w, n) :
              \E o \in {GraftScopedOutline(st.outline, look, n > 0)} :
                \E grown \in {[st EXCEPT !.outline = o, !.epochs = @ \cup {epoch}]} : Reply(c, grown, Told(grown, {w}))
  BY Zenon DEF ExpandUi
<1>2. Named(st.outline, calls[c].ref) # {} => w \in Wires(st.outline)
  BY DEF Named
<1> HIDE DEF w, n
<1>3. Grounded(st, nextState) /\ IsState(st) /\ Now(st, ui, changes, epoch)
  BY DEF NameInv, EpochInv, StateOK, WholeInv
<1>4. TimeMoves /\ IndexMoves /\ UNCHANGED <<ui, changes, epoch>>
  BY DEF ExpandUi, TimeMoves, IndexMoves
<1>5. CASE Fail(c)
  BY <1>4, <1>5, FailHeld
<1>6. CASE Reply(c, st, Told(st, {w}))
  BY <1>4, <1>6, CopyIsHeld, ReplyHeld
<1>7. ASSUME Named(st.outline, calls[c].ref) # {}, st.epoch = epoch, NEW look \in BoundedLooks(ui, w, n),
             NEW o, o = GraftScopedOutline(st.outline, look, n > 0),
             NEW grown, grown = [st EXCEPT !.outline = o, !.epochs = @ \cup {epoch}], Reply(c, grown, Told(grown, {w}))
      PROVE  WholeMoves(c)
  <2>1. w \in Wires(st.outline) /\ st.id # NoState
    BY <1>2, <1>3, <1>7 DEF Grounded
  <2>2. st.at = changes => Faithful(o, ui)
    BY <1>3, <1>7, <2>1, GraftIsSeen DEF n
  <2>3. grown.id = st.id /\ grown.outline = o /\ grown.epoch = st.epoch /\ grown.at = st.at
    <3> HIDE DEF st
    <3> QED BY <1>3, <1>7 DEF IsState
  <2>4. Held(grown)
    BY <1>3, <1>4, <2>1, <2>2, <2>3 DEF Now, Held, Current
  <2>5. PICK told : told = Told(grown, {w})
    OBVIOUS
  <2> QED BY <1>4, <1>7, <2>4, <2>5, ReplyHeld
<1> QED BY <1>1, <1>5, <1>6, <1>7

\* searching,
LEMMA SearchHeld == ASSUME EpochInv, WholeInv, NEW c \in Calls, SearchUi(c) \/ SearchWaits(c) PROVE WholeMoves(c)
<1>1. /\ UNCHANGED <<ui, changes, epoch, index, saved>>
      /\ \E phase \in {"waiting", "ranked"} : calls' = [calls EXCEPT ![c].phase = phase]
  BY DEF SearchUi, SearchWaits
<1>2. PICK phase \in {"waiting", "ranked"} : calls' = [calls EXCEPT ![c].phase = phase]
  BY <1>1
<1>3. PICK old, call : old = calls[c] /\ call = [old EXCEPT !.phase = phase]
  OBVIOUS
<1>4. IsCall(old) /\ calls' = [calls EXCEPT ![c] = call]
  BY <1>2, <1>3 DEF EpochInv
<1>5. call.st = old.st
  BY <1>3, <1>4 DEF IsCall
<1>6. TimeMoves /\ IndexMoves /\ SavedHeld
  BY <1>1 DEF TimeMoves, IndexMoves, SavedHeld
<1>7. Held(call.st)
  BY <1>3, <1>5, <1>6, CopyIsHeld
<1> QED BY <1>4, <1>6, <1>7, GoesOnHeld

\* taking over the outline of the index,
LEMMA AdoptHeld == ASSUME EpochInv, WholeInv, NEW c \in Calls, SearchAdopts(c) PROVE WholeMoves(c)
<1>1. PICK st : st = calls[c].st
  OBVIOUS
<1>2. IsCall(calls[c]) /\ IsState(st) /\ UNCHANGED <<ui, changes, epoch, index>>
  BY <1>1 DEF EpochInv, StateOK, SearchAdopts
<1>3. PICK adopted, n : adopted = [st EXCEPT !.id = nextState, !.outline = index.outline, !.by = "index",
                                            !.epochs = index.epochs, !.since = index.since, !.at = index.at, !.note = n]
                        /\ n = NoteFromLook(st.note, index.outline)
  OBVIOUS
<1>4. adopted.outline = index.outline /\ adopted.at = index.at /\ adopted.epoch = st.epoch
  BY <1>2, <1>3 DEF IsState
<1>5. \/ calls' = [calls EXCEPT ![c].phase = "found", ![c].st = st] /\ saved' = saved
      \/ /\ calls' = [calls EXCEPT ![c].phase = "found", ![c].st = adopted] /\ saved' = Persisted(adopted)
         /\ index.phase # "none" /\ index.epoch = st.epoch
  <2>1. adopted = [st EXCEPT !.id = nextState, !.outline = index.outline, !.by = "index",
                            !.epochs = index.epochs, !.since = index.since, !.at = index.at, !.note = NoteFromLook(@, index.outline)]
    BY <1>3
  <2> QED BY <1>1, <2>1 DEF SearchAdopts, IndexFor
<1>6. TimeMoves /\ IndexMoves
  BY <1>2 DEF TimeMoves, IndexMoves
<1>7. ASSUME NEW next, calls' = [calls EXCEPT ![c].phase = "found", ![c].st = next], Held(next), SavedHeld
      PROVE  WholeMoves(c)
  <2>1. PICK old, call : old = calls[c] /\ call = [old EXCEPT !.phase = "found", !.st = next]
    OBVIOUS
  <2>2. calls' = [calls EXCEPT ![c] = call]
    BY <1>7, <2>1
  <2>3. call.st = next
    BY <1>2, <2>1 DEF IsCall
  <2> QED BY <1>6, <1>7, <2>2, <2>3, GoesOnHeld
<1>8. CASE calls' = [calls EXCEPT ![c].phase = "found", ![c].st = st] /\ saved' = saved
  BY <1>1, <1>6, <1>7, <1>8, CopyIsHeld DEF SavedHeld
<1>9. CASE /\ calls' = [calls EXCEPT ![c].phase = "found", ![c].st = adopted] /\ saved' = Persisted(adopted)
           /\ index.phase # "none" /\ index.epoch = st.epoch
  <2>1. Current(index, ui, changes, epoch)
    BY <1>9 DEF WholeInv
  <2>2. Seen(index)
    BY <1>2, <2>1 DEF Seen
  <2>3. Held(adopted)
    BY <1>4, <1>9, <2>2, SeenAlike DEF Held, Now, Seen
  <2>4. SavedHeld
    <3> SUFFICES ASSUME NEW i \in DOMAIN saved'
                 PROVE  (\E j \in DOMAIN saved : saved'[i] = saved[j]) \/ Held(saved'[i])
      BY DEF SavedHeld
    <3>1. saved'[i] = adopted \/ \E j \in DOMAIN saved : saved'[i] = saved[j]
      BY <1>9, PersistedHas DEF EpochInv
    <3> QED BY <2>3, <3>1
  <2> QED BY <1>7, <1>9, <2>3, <2>4
<1> QED BY <1>5, <1>8, <1>9

\* searching by a look of its own,
LEMMA ReadsHeld == ASSUME EpochInv, NameInv, WholeInv, NEW c \in Calls, SearchReads(c) PROVE WholeMoves(c)
<1>1. PICK st : st = calls[c].st
  OBVIOUS
<1>2. UNCHANGED <<ui, changes, epoch, index>> /\ ui \in Uis /\ epoch \in Nat /\ Grounded(st, nextState)
  BY <1>1 DEF NameInv, EpochInv, SearchReads
<1>3. \/ Fail(c)
      \/ Reply(c, st, Found(st, calls[c].query))
      \/ \E seen \in Captures(st, ui, epoch, nextState) : \E told : Reply(c, [seen EXCEPT !.read = TRUE], told)
  BY <1>1 DEF SearchReads
<1>4. TimeMoves /\ IndexMoves
  BY <1>2 DEF TimeMoves, IndexMoves
<1>5. CASE Fail(c)
  BY <1>4, <1>5, FailHeld
<1>6. CASE Reply(c, st, Found(st, calls[c].query))
  BY <1>1, <1>4, <1>6, CopyIsHeld, ReplyHeld
<1>7. ASSUME NEW seen \in Captures(st, ui, epoch, nextState), NEW told, Reply(c, [seen EXCEPT !.read = TRUE], told)
      PROVE  WholeMoves(c)
  <2>1. Seen(seen) /\ IsState(seen)
    BY <1>2, <1>7, CaptureIsSeen, CaptureOK DEF StateOK
  <2>2. PICK x : x = [seen EXCEPT !.read = TRUE]
    OBVIOUS
  <2>3. x.outline = seen.outline /\ x.at = seen.at /\ x.epoch = seen.epoch
    BY <2>1, <2>2 DEF IsState
  <2>4. Held(x)
    BY <2>1, <2>3, SeenAlike DEF Held, Now, Seen
  <2> QED BY <1>4, <1>7, <2>2, <2>4, ReplyHeld
<1> QED BY <1>3, <1>5, <1>6, <1>7

\* inspecting,
LEMMA InspectHeld == ASSUME EpochInv, WholeInv, NEW c \in Calls, InspectUi(c) PROVE WholeMoves(c)
<1>1. Reply(c, calls[c].st, {}) /\ TimeMoves /\ IndexMoves
  BY DEF InspectUi, TimeMoves, IndexMoves
<1> QED BY <1>1, CopyIsHeld, ReplyHeld

\* recovering an action whose state is stale,
LEMMA RecoverHeld == ASSUME EpochInv, NameInv, WholeInv, NEW c \in Calls, RecoverAct(c) PROVE WholeMoves(c)
<1>1. PICK st, ref : st = calls[c].st /\ ref = calls[c].ref
  OBVIOUS
<1>2. PICK w \in Named(st.outline, ref) :
        \E fresh \in Captures(st, ui, epoch, nextState) :
          /\ SeedSemanticIndex(fresh)
          /\ \/ /\ \E x \in MatchFingerprint(st.outline, w, fresh.outline) :
                     calls' = [calls EXCEPT ![c].phase = "again", ![c].st = fresh, ![c].ref = fresh.outline.nodes[x].ref]
                /\ UNCHANGED <<saved, issued>>
             \/ Fail(c)
  <2> DEFINE Fresh(s, w) ==
               \E fresh \in Captures(s, ui, epoch, nextState) :
                 /\ SeedSemanticIndex(fresh)
                 /\ \/ /\ \E x \in MatchFingerprint(s.outline, w, fresh.outline) :
                            calls' = [calls EXCEPT ![c].phase = "again", ![c].st = fresh, ![c].ref = fresh.outline.nodes[x].ref]
                       /\ UNCHANGED <<saved, issued>>
                    \/ MayRefuse(s.outline, w, fresh.outline) /\ Fail(c)
  <2>1. \E s \in {calls[c].st} : \E w \in Named(s.outline, calls[c].ref) : Fresh(s, w)
    BY Zenon DEF RecoverAct
  <2>2. PICK w \in Named(st.outline, ref) : Fresh(st, w)
    <3> HIDE DEF Fresh
    <3> QED BY <1>1, <2>1
  <2>3. \E fresh \in Captures(st, ui, epoch, nextState) :
          /\ SeedSemanticIndex(fresh)
          /\ \/ /\ \E x \in MatchFingerprint(st.outline, w, fresh.outline) :
                     calls' = [calls EXCEPT ![c].phase = "again", ![c].st = fresh, ![c].ref = fresh.outline.nodes[x].ref]
                /\ UNCHANGED <<saved, issued>>
             \/ Fail(c)
    BY <2>2
  <2> HIDE DEF Fresh
  <2> QED BY <2>2, <2>3, Zenon
<1>3. PICK fresh \in Captures(st, ui, epoch, nextState) :
        /\ SeedSemanticIndex(fresh)
        /\ \/ /\ \E x \in MatchFingerprint(st.outline, w, fresh.outline) :
                   calls' = [calls EXCEPT ![c].phase = "again", ![c].st = fresh, ![c].ref = fresh.outline.nodes[x].ref]
              /\ UNCHANGED <<saved, issued>>
           \/ Fail(c)
  BY <1>2
<1>4. UNCHANGED <<ui, changes, epoch>> /\ ui \in Uis /\ epoch \in Nat /\ Grounded(st, nextState)
  BY <1>1 DEF RecoverAct, NameInv, EpochInv
<1>5. Seen(fresh)
  BY <1>3, <1>4, CaptureIsSeen
<1>6. TimeMoves /\ IndexMoves
  BY <1>3, <1>4, <1>5, SeedHeld DEF TimeMoves
<1>7. ASSUME NEW x, saved' = saved,
             calls' = [calls EXCEPT ![c].phase = "again", ![c].st = fresh, ![c].ref = fresh.outline.nodes[x].ref]
      PROVE  WholeMoves(c)
  <2>1. PICK old, to, call : old = calls[c] /\ to = fresh.outline.nodes[x].ref /\ call = [old EXCEPT !.phase = "again", !.st = fresh, !.ref = to]
    OBVIOUS
  <2>2. calls' = [calls EXCEPT ![c] = call] /\ IsCall(old)
    BY <1>7, <2>1 DEF EpochInv
  <2>3. call.st = fresh
    BY <2>1, <2>2 DEF IsCall
  <2>4. SavedHeld
    BY <1>7 DEF SavedHeld
  <2>5. Held(call.st)
    BY <1>5, <2>3 DEF Held, Now, Seen
  <2> QED BY <1>6, <2>2, <2>4, <2>5, GoesOnHeld
<1> QED BY <1>3, <1>6, <1>7, FailHeld

\* and acting: a new look at all of the tree, or at the element that was edited.
LEMMA ActHeld == ASSUME EpochInv, NameInv, WholeInv, NEW c \in Calls, ActUi(c) PROVE WholeMoves(c)
<1>1. PICK st, ref : st = calls[c].st /\ ref = calls[c].ref
  OBVIOUS
<1>2. /\ Grounded(st, nextState) /\ IsState(st) /\ Now(st, ui, changes, epoch) /\ ui \in Uis /\ epoch \in Nat
      /\ changes \in Nat /\ changes' = changes
  BY <1>1 DEF NameInv, EpochInv, StateOK, WholeInv, ActUi
<1>3. CASE Fail(c) /\ UNCHANGED <<ui, epoch, nextState, index>>
  BY <1>2, <1>3, FailHeld DEF TimeMoves, IndexMoves
<1> DEFINE w == CHOOSE x \in Named(st.outline, ref) : TRUE
<1>4. ASSUME epoch' = epoch + 1, Named(st.outline, ref) # {}, ~Stale(st, w),
             NEW tree \in Uis, ui' = tree,
             NEW seen, seen \in Captures(st, tree, epoch + 1, nextState) \/ (tree = ui /\ seen \in Edits(st, w, epoch + 1, nextState)),
             NEW told, SeedSemanticIndex(Acted(seen, ref)), Reply(c, Acted(seen, ref), told)
      PROVE  WholeMoves(c)
  <2>1. w \in Wires(st.outline) /\ st.id # NoState /\ st.epoch = epoch
    <3>1. w \in Named(st.outline, ref)
      BY <1>4
    <3> HIDE DEF w
    <3> QED BY <1>2, <1>4, <3>1 DEF Named, Stale, Grounded
  <2> HIDE DEF w
  <2>2. IsState(seen) /\ Seen(seen)
    <3>1. CASE seen \in Captures(st, tree, epoch + 1, nextState)
      <4>1. PICK e \in Nat : e = epoch + 1
        BY <1>2
      <4>2. Seen(seen)
        BY <1>2, <1>4, <3>1, <4>1, CaptureIsSeen
      <4>3. StateOK(seen)
        BY <3>1, <4>1, CaptureOK
      <4> QED BY <4>2, <4>3 DEF StateOK
    <3>2. CASE tree = ui /\ seen \in Edits(st, w, epoch + 1, nextState)
      <4>1. PICK look \in BoundedLooks(ui, w, 0) : seen = EditOf(st, GraftScopedOutline(st.outline, look, FALSE), epoch + 1, nextState)
        BY <3>2 DEF Edits
      <4>2. PICK o : o = GraftScopedOutline(st.outline, look, FALSE)
        OBVIOUS
      <4>3. st.at = changes => Faithful(o, ui)
        <5>1. PICK from \in {0, st.outline.nodes[w].next} : from = 0
          OBVIOUS
        <5>2. (from > 0) = FALSE /\ look \in BoundedLooks(ui, w, from)
          BY <4>1, <5>1
        <5>3. st.at = changes => Faithful(GraftScopedOutline(st.outline, look, from > 0), ui)
          BY <1>2, <2>1, <5>2, GraftIsSeen
        <5> QED BY <4>2, <5>2, <5>3
      <4>4. PICK n : seen = [st EXCEPT !.id = nextState, !.outline = o, !.epoch = epoch + 1, !.by = "edit",
                                             !.note = n, !.epochs = st.epochs \cup {epoch + 1}]
        BY <4>1, <4>2 DEF EditOf
      <4>5. IsState(seen) /\ seen.outline = o /\ seen.epoch = epoch + 1 /\ seen.at = st.at
        BY <1>2, <4>4 DEF IsState
      <4>6. st.at \in Nat /\ st.at <= changes
        BY <1>2, <2>1 DEF Now, Current
      <4>7. Seen(seen)
        BY <1>2, <1>4, <3>2, <4>3, <4>5, <4>6 DEF Seen, Current
      <4> QED BY <4>5, <4>7
    <3> QED BY <1>4, <3>1, <3>2
  <2>3. PICK x : x = Acted(seen, ref)
    OBVIOUS
  <2>4. x.outline = seen.outline /\ x.at = seen.at /\ x.epoch = seen.epoch
    <3>1. PICK n : Acted(seen, ref) = [seen EXCEPT !.note = n]
      BY DEF Acted
    <3> QED BY <2>2, <2>3, <3>1 DEF IsState
  <2>5. Seen(x)
    BY <2>2, <2>4, SeenAlike
  <2>6. TimeMoves /\ IndexMoves /\ Held(x)
    BY <1>2, <1>4, <2>3, <2>5, SeedHeld DEF TimeMoves, Held, Now, Seen
  <2> QED BY <1>4, <2>3, <2>6, ReplyHeld
<1>5. CASE /\ Named(st.outline, ref) # {} /\ ~Stale(st, w) /\ epoch' = epoch + 1 /\ nextState' = nextState + 1
           /\ \E tree \in IF calls[c].op = "press" THEN Changed(ui) \cup {ui} ELSE {ui} :
                /\ ui' = tree
                /\ \E seen \in IF calls[c].op = "press" THEN Captures(st, tree, epoch + 1, nextState)
                               ELSE Edits(st, w, epoch + 1, nextState) :
                     \E next \in {Acted(seen, ref)} : SeedSemanticIndex(next) /\ Reply(c, next, ToldChanges(st, next))
  <2> HIDE DEF w
  <2>1. PICK tree \in IF calls[c].op = "press" THEN Changed(ui) \cup {ui} ELSE {ui} :
                /\ ui' = tree
                /\ \E seen \in IF calls[c].op = "press" THEN Captures(st, tree, epoch + 1, nextState)
                               ELSE Edits(st, w, epoch + 1, nextState) :
                     \E next \in {Acted(seen, ref)} : SeedSemanticIndex(next) /\ Reply(c, next, ToldChanges(st, next))
    BY <1>5
  <2>2. tree \in Uis
    BY <1>2, <2>1, ObservationAssumption
  <2>3. PICK seen \in IF calls[c].op = "press" THEN Captures(st, tree, epoch + 1, nextState) ELSE Edits(st, w, epoch + 1, nextState) :
          SeedSemanticIndex(Acted(seen, ref)) /\ Reply(c, Acted(seen, ref), ToldChanges(st, Acted(seen, ref)))
    BY <2>1
  <2>4. seen \in Captures(st, tree, epoch + 1, nextState) \/ (tree = ui /\ seen \in Edits(st, w, epoch + 1, nextState))
    BY <2>1, <2>3
  <2> QED BY <1>4, <1>5, <2>1, <2>2, <2>3, <2>4
<1>6. \/ Fail(c) /\ UNCHANGED <<ui, epoch, nextState, index>>
      \/ /\ Named(st.outline, ref) # {} /\ ~Stale(st, w) /\ epoch' = epoch + 1 /\ nextState' = nextState + 1
         /\ \E tree \in IF calls[c].op = "press" THEN Changed(ui) \cup {ui} ELSE {ui} :
              /\ ui' = tree
              /\ \E seen \in IF calls[c].op = "press" THEN Captures(st, tree, epoch + 1, nextState)
                             ELSE Edits(st, w, epoch + 1, nextState) :
                   \E next \in {Acted(seen, ref)} : SeedSemanticIndex(next) /\ Reply(c, next, ToldChanges(st, next))
  BY <1>1, Zenon DEF ActUi
<1> QED BY <1>3, <1>5, <1>6

\* The first frontier is an element of the outline.
LEMMA FrontierIsIn == ASSUME NEW o, IsOutline(o), Rooted(o), Frontiers(o) # <<>> PROVE Head(Frontiers(o)) \in Wires(o)
<1>1. PICK open, begun, order :
         open \subseteq Wires(o) /\ begun \subseteq Wires(o) /\ order = BreadthFirst(o)
         /\ Frontiers(o) = Only(order, begun) \o Only(order, open \ begun)
  <2>1. PICK open : open = {x \in Wires(o) : o.nodes[x].trunc}
    OBVIOUS
  <2>2. PICK begun : begun = {x \in open : o.nodes[x].next > 0}
    OBVIOUS
  <2> QED BY <2>1, <2>2 DEF Frontiers
<1>2. order \in Seq(Wires(o))
  BY <1>1, LevelsIn DEF BreadthFirst, IsOutline, Closed, Rooted
<1>3. Only(order, begun) \in Seq(Wires(o) \cap begun) /\ Only(order, open \ begun) \in Seq(Wires(o) \cap (open \ begun))
  BY <1>2, OnlyIs
<1>4. Only(order, begun) \in Seq(Wires(o)) /\ Only(order, open \ begun) \in Seq(Wires(o))
  BY <1>3
<1>5. PICK f : f = Frontiers(o) /\ f \in Seq(Wires(o)) /\ f # <<>>
  <2>1. PICK a, b : a = Only(order, begun) /\ b = Only(order, open \ begun) /\ a \in Seq(Wires(o)) /\ b \in Seq(Wires(o))
    BY <1>4
  <2>2. a \o b \in Seq(Wires(o))
    BY <2>1
  <2>3. Frontiers(o) = a \o b
    BY <1>1, <2>1
  <2> QED BY <2>2, <2>3
<1>6. Head(f) \in Wires(o)
  BY <1>5
<1> QED BY <1>5, <1>6

\* The crawl: a graft, or an element that is gone from an application that has changed.
LEMMA CrawlHeld == ASSUME EpochInv, NameInv, WholeInv, CrawlSlice PROVE IndexMoves
<1>1. PICK o, w, n : o = index.outline /\ w = Head(Frontiers(o)) /\ n = o.nodes[w].next
  OBVIOUS
<1>2. /\ UNCHANGED <<ui, changes, epoch>> /\ IsIndex(index) /\ ui \in Uis /\ IsOutline(o) /\ Rooted(o)
      /\ index.phase = "crawling" /\ Frontiers(o) # <<>> /\ index.epoch = epoch /\ Current(index, ui, changes, epoch)
  <2>1. index.phase = "crawling" /\ index.phase # "none"
    BY DEF CrawlSlice
  <2> QED BY <1>1, <2>1 DEF CrawlSlice, NameInv, EpochInv, WholeInv
<1>3. /\ w \in Wires(ui) => \E look \in BoundedLooks(ui, w, n) : \E es, p :
                              /\ index' = [index EXCEPT !.outline = GraftScopedOutline(o, look, n > 0), !.epochs = es, !.phase = p]
                              /\ p \in {"crawling", "error"}
      /\ w \notin Wires(ui) => index' = [index EXCEPT !.outline.nodes[w].trunc = FALSE, !.outline.nodes[w].next = 0, !.stale = TRUE]
  <2> DEFINE q == index.outline
             v == Head(Frontiers(q))
  <2>1. IF v \in Wires(ui)
        THEN \E look \in BoundedLooks(ui, v, q.nodes[v].next) :
               \E grafted \in {GraftScopedOutline(q, look, q.nodes[v].next > 0)} :
                  index' = [index EXCEPT !.outline = grafted, !.epochs = @ \cup {epoch},
                                         !.phase = IF Advanced(q, grafted, v) THEN @ ELSE "error"]
        ELSE index' = [index EXCEPT !.outline.nodes[v].trunc = FALSE, !.outline.nodes[v].next = 0, !.stale = TRUE]
    BY Zenon DEF CrawlSlice
  <2>2. q = o /\ v = w /\ q.nodes[v].next = n
    BY <1>1
  <2> HIDE DEF q, v
  <2>3. ASSUME w \in Wires(ui)
        PROVE  \E look \in BoundedLooks(ui, w, n) : \E es, p :
                 /\ index' = [index EXCEPT !.outline = GraftScopedOutline(o, look, n > 0), !.epochs = es, !.phase = p]
                 /\ p \in {"crawling", "error"}
    <3> DEFINE m == q.nodes[v].next
    <3>1. v \in Wires(ui) /\ m = n
      BY <2>2, <2>3
    <3>2. PICK look \in BoundedLooks(ui, v, m) : \E grafted \in {GraftScopedOutline(q, look, m > 0)} :
                  index' = [index EXCEPT !.outline = grafted, !.epochs = @ \cup {epoch},
                                         !.phase = IF Advanced(q, grafted, v) THEN @ ELSE "error"]
      BY <2>1, <3>1, Zenon
    <3>3. PICK grafted : /\ grafted = GraftScopedOutline(q, look, m > 0)
                         /\ index' = [index EXCEPT !.outline = grafted, !.epochs = @ \cup {epoch},
                                                   !.phase = IF Advanced(q, grafted, v) THEN @ ELSE "error"]
      BY <3>2, Zenon
    <3> HIDE DEF m
    <3>4. look \in BoundedLooks(ui, w, n) /\ grafted = GraftScopedOutline(o, look, n > 0)
      BY <2>2, <3>1, <3>2, <3>3
    <3>5. PICK es, p : es = index.epochs \cup {epoch} /\ p = IF Advanced(q, grafted, v) THEN index.phase ELSE "error"
      OBVIOUS
    <3>6. index' = [index EXCEPT !.outline = grafted, !.epochs = es, !.phase = p] /\ p \in {"crawling", "error"}
      BY <1>2, <3>3, <3>5
    <3> QED BY <3>6, <3>4
  <2> QED BY <2>1, <2>2, <2>3
<1>4. w \in Wires(o)
  BY <1>1, <1>2, FrontierIsIn
<1>5. IsTree(ui) /\ n \in Nat
  BY <1>1, <1>2, <1>4, ObservationAssumption DEF IsOutline, IsNode
<1>6. index.at = changes => Faithful(o, ui) /\ w \in Wires(ui)
  BY <1>1, <1>2, <1>4 DEF Current, Faithful
<1>7. CASE w \in Wires(ui)
  <2>1. PICK look \in BoundedLooks(ui, w, n) : \E es, p :
          /\ index' = [index EXCEPT !.outline = GraftScopedOutline(o, look, n > 0), !.epochs = es, !.phase = p]
          /\ p \in {"crawling", "error"}
    BY <1>3, <1>7
  <2>2. PICK g : g = GraftScopedOutline(o, look, n > 0)
    OBVIOUS
  <2>3. PICK es, p : index' = [index EXCEPT !.outline = g, !.epochs = es, !.phase = p] /\ p \in {"crawling", "error"}
    BY <2>1, <2>2
  <2>4. index'.outline = g /\ index'.phase = p /\ index'.at = index.at /\ index'.epoch = index.epoch
    BY <1>2, <2>3 DEF IsIndex
  <2>5. n \in {0, o.nodes[w].next}
    BY <1>1
  <2>6. index.at = changes => Faithful(g, ui)
    BY <1>2, <1>4, <1>5, <1>6, <2>2, <2>5, GraftOfLook
  <2>7. Seen(index')
    BY <1>2, <2>4, <2>6 DEF Seen, Current
  <2>8. Done(index')
    BY <2>3, <2>4 DEF Done
  <2> QED BY <2>7, <2>8 DEF IndexMoves
<1>8. CASE w \notin Wires(ui)
  <2>1. index' = [index EXCEPT !.outline.nodes[w].trunc = FALSE, !.outline.nodes[w].next = 0, !.stale = TRUE]
    BY <1>3, <1>8
  <2>2. PICK x, y, z : /\ x = index /\ y = [x EXCEPT !.outline.nodes[w].trunc = FALSE] /\ z = [y EXCEPT !.outline.nodes[w].next = 0]
                       /\ index' = [z EXCEPT !.stale = TRUE]
    BY <2>1
  <2>3. PICK a : y = [x EXCEPT !.outline = a]
    BY <2>2
  <2>4. PICK b : z = [y EXCEPT !.outline = b]
    BY <2>2
  <2>5. index'.phase = index.phase /\ index'.at = index.at /\ index'.epoch = index.epoch
    BY <1>2, <2>2, <2>3, <2>4 DEF IsIndex
  <2>6. index.at # changes
    BY <1>6, <1>8
  <2>7. Seen(index') /\ Done(index')
    BY <1>2, <2>5, <2>6 DEF Seen, Current, Done
  <2> QED BY <2>7 DEF IndexMoves
<1> QED BY <1>7, <1>8

\* The end of a crawl.
LEMMA CrawlEndHeld == ASSUME EpochInv, WholeInv, CrawlEnd PROVE IndexMoves
<1>1. /\ UNCHANGED <<ui, changes, epoch>> /\ IsIndex(index) /\ Current(index, ui, changes, epoch)
  <2>1. index.phase = "crawling" /\ index.phase # "none"
    BY DEF CrawlEnd
  <2> QED BY <2>1 DEF CrawlEnd, EpochInv, WholeInv
<1>2. PICK p : index' = [index EXCEPT !.phase = p] /\ (p = "complete" => Frontiers(index.outline) = <<>>)
  <2>1. CASE Frontiers(index.outline) = <<>> /\ index' = [index EXCEPT !.phase = "complete"]
    BY <2>1
  <2>2. CASE index' = [index EXCEPT !.phase = "error"]
    <3>1. PICK p : p = "error"
      OBVIOUS
    <3>2. index' = [index EXCEPT !.phase = p] /\ p # "complete"
      BY <2>2, <3>1
    <3> QED BY <3>2
  <2> QED BY <2>1, <2>2 DEF CrawlEnd
<1>3. index'.outline = index.outline /\ index'.phase = p /\ index'.at = index.at /\ index'.epoch = index.epoch
  BY <1>1, <1>2 DEF IsIndex
<1>4. Seen(index)
  BY <1>1 DEF Seen
<1> QED BY <1>2, <1>3, <1>4, SeenAlike DEF IndexMoves, Done

\* Every step.
LEMMA CallHeld == ASSUME EpochInv, NameInv, WholeInv, NEW c \in Calls, Start(c) \/ CallStep(c) PROVE WholeMoves(c)
BY StartHeld, ObserveHeld, ExpandHeld, SearchHeld, AdoptHeld, ReadsHeld, InspectHeld, RecoverHeld, ActHeld DEF CallStep

\* What is not a step of a call.
LEMMA OtherHeld ==
  ASSUME EpochInv, NameInv, WholeInv, CrawlSlice \/ CrawlEnd \/ UserChange \/ Rest \/ UNCHANGED oVars
  PROVE  TimeMoves /\ IndexMoves /\ UNCHANGED <<calls, saved>>
<1>1. CASE CrawlSlice
  BY <1>1, CrawlHeld DEF CrawlSlice, TimeMoves
<1>2. CASE CrawlEnd
  BY <1>2, CrawlEndHeld DEF CrawlEnd, TimeMoves
<1>3. CASE UserChange
  BY <1>3 DEF UserChange, TimeMoves, IndexMoves
<1>4. CASE Rest \/ UNCHANGED oVars
  BY <1>4 DEF Rest, oVars, TimeMoves, IndexMoves
<1> QED BY <1>1, <1>2, <1>3, <1>4

\* Every step keeps WholeInv.
LEMMA WholeStep == EpochInv /\ NameInv /\ WholeInv /\ [ObservationNext]_oVars => WholeInv'
<1> SUFFICES ASSUME EpochInv, NameInv, WholeInv, [ObservationNext]_oVars PROVE WholeInv'
  OBVIOUS
<1>1. changes \in Nat /\ epoch \in Nat
  BY DEF WholeInv, EpochInv
<1>2. ASSUME TimeMoves, IndexMoves, \A i \in DOMAIN saved' : Held(saved'[i]), \A c \in Calls : Held(calls'[c].st) PROVE WholeInv'
  <2>1. changes' \in Nat
    BY <1>1, <1>2 DEF TimeMoves
  <2>2. (index'.phase # "none" => Seen(index')) /\ Done(index')
    <3>1. CASE index' = index
      BY <1>1, <1>2, <3>1, CurrentLater DEF WholeInv
    <3> QED BY <1>2, <3>1 DEF IndexMoves
  <2> QED BY <1>2, <2>1, <2>2 DEF WholeInv, Seen, Held, Done
<1>3. ASSUME TimeMoves PROVE /\ \A i \in DOMAIN saved : Held(saved[i])
                             /\ \A c \in Calls : Held(calls[c].st)
  BY <1>1, <1>3, HeldLater DEF WholeInv
<1>4. CASE TimeMoves /\ IndexMoves /\ UNCHANGED <<calls, saved>>
  BY <1>2, <1>3, <1>4
<1>5. ASSUME NEW c \in Calls, WholeMoves(c) PROVE WholeInv'
  <2>1. TimeMoves /\ IndexMoves
    BY <1>5 DEF WholeMoves
  <2>2. \A d \in Calls : Held(calls'[d].st)
    BY <1>3, <1>5, <2>1 DEF WholeMoves
  <2>3. \A i \in DOMAIN saved' : Held(saved'[i])
    <3> SUFFICES ASSUME NEW i \in DOMAIN saved' PROVE Held(saved'[i])
      OBVIOUS
    <3>1. (\E j \in DOMAIN saved : saved'[i] = saved[j]) \/ Held(saved'[i])
      BY <1>5 DEF WholeMoves, SavedHeld
    <3> QED BY <1>3, <2>1, <3>1
  <2> QED BY <1>2, <2>1, <2>2, <2>3
<1> QED BY <1>4, <1>5, CallHeld, OtherHeld DEF ObservationNext

\* However the looks are cut off and the slices of the crawl follow one another:
\* when the index says it is complete, and nothing has changed since its first
\* look, it has every live element in its order (crawlSemanticIndex,
\* graftScopedOutline and the frontiers of semantic-index.ts).
THEOREM CompleteIndexHasAll == ObservationSafety => []CompleteIndexIsWhole
<1>1. NameInv /\ WholeInv => CompleteIndexIsWhole
  <2> SUFFICES ASSUME NameInv, WholeInv, index.phase = "complete", index.at = changes, index.epoch = epoch,
                      NEW whole, whole = PruneDetachedWebAreas(ui)
               PROVE  \A w \in Wires(whole) : w \in Wires(index.outline) /\ InOrder(Kids(whole, w), Kids(index.outline, w))
    BY DEF CompleteIndexIsWhole
  <2>1. PICK o : o = index.outline
    OBVIOUS
  <2>2. index.phase # "none"
    OBVIOUS
  <2>3. Faithful(o, ui) /\ Frontiers(o) = <<>> /\ IsOutline(o) /\ o.root \in Wires(o) /\ IsTree(ui)
    BY <2>1, <2>2, ObservationAssumption DEF NameInv, WholeInv, Rooted, Current, Done
  <2> QED BY <2>1, <2>3, FaithfulIsWhole
<1>2. EpochInv /\ NameInv /\ WholeInv /\ [ObservationNext]_oVars => EpochInv' /\ NameInv' /\ WholeInv'
  BY EpochStep, NameStep, WholeStep
<1> QED BY <1>1, <1>2, EpochStart, NameStart, WholeStart, PTL DEF ObservationSafety
===============================================================================
