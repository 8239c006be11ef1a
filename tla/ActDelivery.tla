------------------------------- MODULE ActDelivery -------------------------------
(***************************************************************************)
(* How act_ui delivers a transaction of UI actions to desktop              *)
(* applications (src/src/bridge.ts, performAct down to helperAct): under   *)
(* the lease of the application, in the background first, in the           *)
(* foreground under the attention lease and the priority of the physical   *)
(* user, and with one automatic retry after a stale-state error.           *)
(*                                                                         *)
(* Leases and epochs are those of FencedResource, the promise that         *)
(* ResourceScheduler makes; the calls below are its clients, each with a   *)
(* state observed at epoch 0.  The native helper, the applications and     *)
(* the user are external: the helper answers in any way its protocol       *)
(* allows, applications change at any time, the user comes and goes.       *)
(***************************************************************************)
EXTENDS Naturals, Sequences, FiniteSets

CONSTANTS
  Call,        \* act_ui calls, each one transaction
  App,         \* applications; desktopResourceKey names their leases
  Attention,   \* FOREGROUND_ATTENTION_RESOURCE_KEY
  Nobody,      \* no lease holder; no application in front
  On,          \* the application a call acts on
  Settings     \* what may be asked of the calls, and what they may meet

\* press: a ref-backed control.  field: a press that focuses a text input.
\* point: a press at coordinates.  text: typed or set in a ref.
\* type: typed or pressed without a target, into the field that has the focus.
Kind == {"press", "field", "point", "text", "type", "wait"}

\* A call without actions is not made.
Setting ==
  [ actions : [Call -> Seq(Kind)],
    guarded : SUBSET Call,   \* calls with live guards
    stable : SUBSET Call,    \* calls with stableControlBatch
    mode : {"headless", "background", "foreground"},  \* execution_mode
    changes : BOOLEAN,       \* environment: applications change while a call runs
    user : BOOLEAN,          \* environment: the physical user uses the machine
    late : BOOLEAN ]         \* environment: posted text may show up late

ASSUME CallAssumption ==
  /\ Attention \notin App /\ Nobody \notin Call \cup App
  /\ On \in [Call -> App]
ASSUME SettingAssumption ==
  \A s \in Settings :
    /\ s \in Setting
    /\ \A c \in Call :
         /\ Len(s.actions[c]) <= 20
         /\ c \in s.stable => Len(s.actions[c]) > 1
         /\ \A i \in DOMAIN s.actions[c] :
              /\ c \in s.stable => s.actions[c][i] = "press"
              /\ s.actions[c][i] = "type" => \E j \in 1 .. i - 1 : s.actions[c][j] = "field"

VARIABLES
  setting,              \* one of Settings; never changes
  holder, epoch, base,  \* of FencedResource
  pc,        \* where a call is
  at,        \* its current action
  attempt,   \* 1, or 2 after automatic stale recovery
  stale,     \* its application has changed since it was observed
  spent,     \* its time for waiting for the user is over
  mend,      \* bounded foreground recovery: "no", "running" or "over"
  verdict,   \* the delivery the caller is told: "", "completed", "never" or "maybe"
  user,      \* the physical user: "quiet" or "active"
  front,     \* the application in front
  landed,    \* how often each action has taken effect
  torn,      \* history: actions of which a part was posted before the user came between
  late,      \* actions whose input has been posted and has not shown up
  missed     \* history: others acted on the application since it was observed

leaseVars == <<holder, epoch, base>>
world == <<user, front>>
effects == <<landed, late, torn, missed>>
callVars == <<leaseVars, pc, at, attempt, stale, spent, mend, verdict, world, effects>>
vars == <<setting, callVars>>

Actions == setting.actions
Index(c) == DOMAIN Actions[c]
Headless == setting.mode = "headless"
Foreground == setting.mode = "foreground"

Lease == INSTANCE FencedResource WITH Client <- Call, Resource <- App \cup {Attention}, Target <- On

Init ==
  /\ setting \in Settings
  /\ Lease!Init
  /\ pc = [c \in Call |-> IF Actions[c] = <<>> THEN "done" ELSE "idle"]
  /\ at = [c \in Call |-> 1]
  /\ attempt = [c \in Call |-> 1]
  /\ stale = [c \in Call |-> FALSE]
  /\ spent = [c \in Call |-> FALSE]
  /\ mend = [c \in Call |-> "no"]
  /\ verdict = [c \in Call |-> ""]
  /\ user = "quiet"
  /\ front = Nobody
  /\ landed = [c \in Call |-> [i \in Index(c) |-> 0]]
  /\ late = [c \in Call |-> {}]
  /\ torn = [c \in Call |-> {}]
  /\ missed = [c \in Call |-> FALSE]

--------------------------------------------------------------------------------
(* The plan of a transaction: dispatchUiTransaction.                         *)

Is(c, kinds) == Actions[c][at[c]] \in kinds
OwnTarget == {"press", "field", "text"}      \* the helper resolves a ref
NeedsForeground == {"field", "point", "type"}

\* A native batch, one foreground chain, or each action by itself.
Batched(c) ==
  \/ Headless /\ \A i \in Index(c) : Actions[c][i] # "wait"
  \/ c \in setting.stable
Chained(c) ==
  /\ ~Headless /\ ~Batched(c)
  /\ \E i \in Index(c) : Actions[c][i] = "type"
FirstStop(c) == IF Batched(c) THEN "batch" ELSE IF Chained(c) THEN "quiet" ELSE "deliver"

Goto(c, there) == pc' = [pc EXCEPT ![c] = there]

\* The action is done: on to the next one, or to the verification.
Advance(c, there) ==
  IF at[c] < Len(Actions[c])
  THEN at' = [at EXCEPT ![c] = @ + 1] /\ Goto(c, there)
  ELSE Goto(c, "verify") /\ UNCHANGED at

\* A set of actions of c takes effect.
Land(c, I) ==
  /\ landed' = [landed EXCEPT ![c] = [i \in Index(c) |-> @[i] + IF i \in I THEN 1 ELSE 0]]
  /\ missed' = [d \in Call |-> missed[d] \/ (I # {} /\ d # c /\ On[d] = On[c])]
  /\ UNCHANGED torn

\* An answer of "didnt".  Text may have been posted all the same: the helper
\* looks for it 30 ms later.
Nothing(c) ==
  /\ late' \in {late} \cup IF setting.late /\ Is(c, {"text", "type"})
                             THEN {[late EXCEPT ![c] = @ \cup {at[c]}]} ELSE {}
  /\ UNCHANGED <<landed, torn, missed>>

Held(c) == {r \in DOMAIN holder : holder[r] = c}

\* An error leaves the transaction, its leases are released, and performAct
\* looks at it: an error that proves that the state was stale is retried once.
Throw(c, retried, told) ==
  /\ IF mend[c] = "running"
     THEN /\ Goto(c, "verify")
          /\ mend' = [mend EXCEPT ![c] = "over"]
          /\ Lease!Drop(Held(c) \cap {Attention})
          /\ UNCHANGED verdict
     ELSE /\ Lease!Drop(Held(c))
          /\ UNCHANGED mend
          /\ IF retried /\ attempt[c] = 1
             THEN Goto(c, "observe") /\ UNCHANGED verdict
             ELSE Goto(c, "done") /\ verdict' = [verdict EXCEPT ![c] = told]
  /\ spent' = [spent EXCEPT ![c] = FALSE]
  /\ UNCHANGED <<at, attempt, stale, world>>

Calm(c) == UNCHANGED <<attempt, stale, spent, mend, verdict, world>>

--------------------------------------------------------------------------------
(* Admission: withWindowWriteLock and writeGuarded.                          *)

\* The root has changed, or a selector matches nothing any more.
Diverted(c) ==
  /\ pc[c] = "idle"
  /\ stale[c]
  /\ Throw(c, TRUE, "never")
  /\ UNCHANGED effects

Enter(c) ==
  /\ pc[c] = "idle"
  /\ Lease!Take(c, On[c])
  /\ Goto(c, "admit")
  /\ Calm(c) /\ UNCHANGED <<at, effects>>

\* StaleResourceStateError, or LiveGuardError.
Refuse(c) ==
  /\ pc[c] = "admit"
  /\ \/ base[c] # epoch[On[c]]
     \/ c \in setting.guarded /\ stale[c]
  /\ Throw(c, TRUE, "never")
  /\ UNCHANGED effects

AdmitStale(c) ==  \* mutant: the epoch of the state is not compared
  /\ pc[c] = "admit"
  /\ epoch' = [epoch EXCEPT ![On[c]] = @ + 1]
  /\ base' = [base EXCEPT ![c] = epoch[On[c]] + 1]
  /\ Goto(c, FirstStop(c))
  /\ Calm(c) /\ UNCHANGED <<holder, at, effects>>

Admit(c) ==
  /\ pc[c] = "admit"
  /\ Lease!Mutate(c)
  /\ Goto(c, FirstStop(c))
  /\ Calm(c) /\ UNCHANGED <<at, effects>>

\* No lease within 30 seconds: of the application, or of the attention when
\* earlier actions of the transaction have been delivered.
LeaseTimesOut(c) ==
  /\ \/ pc[c] \in {"idle", "observe"} /\ holder[On[c]] # Nobody
     \/ pc[c] = "attend" /\ holder[Attention] # Nobody
  /\ Throw(c, FALSE, "never")
  /\ UNCHANGED effects

--------------------------------------------------------------------------------
(* Delivery: dispatchUiAction, helperAct and actBatch.                       *)

\* The helper runs the batch and stops at the first action that fails, which
\* it reports as a step that did not work, whatever the failure.
Batch(c) ==
  /\ pc[c] = "batch"
  /\ \E k \in 0 .. Len(Actions[c]) : Land(c, 1 .. k)
  /\ Goto(c, "verify")
  /\ Calm(c) /\ UNCHANGED <<leaseVars, at, late>>

Wait(c) ==
  /\ \/ pc[c] = "deliver" /\ Is(c, {"wait"}) /\ Advance(c, "deliver") /\ UNCHANGED leaseVars
     \/ pc[c] = "front" /\ Is(c, {"wait"}) /\ Advance(c, "front")
        /\ IF pc'[c] = "verify" THEN Lease!Drop({Attention}) ELSE UNCHANGED leaseVars
  /\ Calm(c) /\ UNCHANGED effects

\* The policies that do not try the background first.
StraightToFront(c) == ~Headless /\ (Foreground \/ Is(c, NeedsForeground))
InBackground(c) ==
  /\ pc[c] = "deliver"
  /\ ~Is(c, {"wait"})
  /\ ~StraightToFront(c)

Escalate(c) ==
  /\ pc[c] = "deliver"
  /\ ~Is(c, {"wait"})
  /\ StraightToFront(c)
  /\ Goto(c, "quiet")
  /\ Calm(c) /\ UNCHANGED <<leaseVars, at, effects>>

\* "worked", or "unknown", which nothing replays.
BackgroundLands(c) ==
  /\ InBackground(c)
  /\ Land(c, {at[c]})
  /\ Advance(c, "deliver")
  /\ Calm(c) /\ UNCHANGED <<leaseVars, late>>

RetriesUnknown(c) ==  \* mutant: also escalates when the outcome is unknown
  /\ InBackground(c)
  /\ \/ Nothing(c)
     \/ Land(c, {at[c]}) /\ UNCHANGED late
  /\ Goto(c, IF ~Headless THEN "quiet" ELSE "verify")
  /\ Calm(c) /\ UNCHANGED <<leaseVars, at>>

\* "didnt": text, and a press the helper calls retrySafe, get a second chance
\* in the foreground.  Anything else ends the transaction.
BackgroundDidnt(c) ==
  /\ InBackground(c)
  /\ Nothing(c)
  /\ \/ ~Headless /\ Goto(c, "quiet")
     \/ (Headless \/ ~Is(c, {"text"})) /\ Goto(c, "verify")
  /\ Calm(c) /\ UNCHANGED <<leaseVars, at>>

\* foreground_required, which a text also gets whose value was written, accepted
\* and not seen when it was read back.
BackgroundRefused(c) ==
  /\ InBackground(c)
  /\ Nothing(c)
  /\ IF Headless
     THEN Throw(c, FALSE, "never")
     ELSE Goto(c, "quiet") /\ Calm(c) /\ UNCHANGED <<leaseVars, at>>

Delivering(c) ==
  \/ InBackground(c)
  \/ pc[c] = "front" /\ ~Is(c, {"wait"})

\* stale_ref, stale_look or element_ref_invalid.
TargetGone(c) ==
  /\ Delivering(c)
  /\ stale[c]
  /\ Is(c, OwnTarget)
  /\ Throw(c, TRUE, "never")
  /\ UNCHANGED effects

LostUntold(c) ==  \* mutant: a failed helper counts as one that did nothing
  /\ Delivering(c)
  /\ \E I \in {{}, {at[c]}} : Land(c, I)
  /\ Throw(c, FALSE, "never")
  /\ UNCHANGED late

\* The helper fails or times out, or the caller cancels: nobody knows.
HelperLost(c) ==
  /\ Delivering(c) \/ pc[c] = "batch"
  /\ \E I \in IF pc[c] = "batch" THEN {1 .. k : k \in 0 .. Len(Actions[c])} ELSE {{}, {at[c]}} :
       Land(c, I)
  /\ Throw(c, FALSE, "maybe")
  /\ UNCHANGED late

--------------------------------------------------------------------------------
(* The foreground: withForegroundUserPriority and withForegroundAttention.   *)

\* waitForUserQuietPeriod, outside the attention lease.
Quiet(c) ==
  /\ pc[c] = "quiet"
  /\ user = "quiet"
  /\ Goto(c, "attend")
  /\ Calm(c) /\ UNCHANGED <<leaseVars, at, effects>>

\* user_active, when the time to wait for the user is over.
UserStays(c) ==
  /\ pc[c] = "quiet"
  /\ spent[c]
  /\ user = "active"
  /\ Throw(c, FALSE, "never")
  /\ UNCHANGED effects

\* The lease, assertUserQuietPeriod and focusWindow.
Attend(c) ==
  /\ pc[c] = "attend"
  /\ user = "quiet"
  /\ Lease!Take(c, Attention)
  /\ front' = On[c]
  /\ Goto(c, "front")
  /\ UNCHANGED <<at, attempt, stale, spent, mend, verdict, user, effects>>

\* The recheck under the lease throws; the lease is released again.
AttendYields(c) ==
  /\ pc[c] = "attend"
  /\ user = "active"
  /\ holder[Attention] = Nobody
  /\ UNCHANGED effects
  /\ IF spent[c]
     THEN Throw(c, FALSE, "never")
     ELSE Goto(c, "quiet") /\ Calm(c) /\ UNCHANGED <<leaseVars, at>>

\* The helper checks once more that the user is quiet and the window in front.
InFront(c) == pc[c] = "front" /\ ~Is(c, {"wait"})
Clear(c) == user = "quiet" /\ front = On[c]

\* The section ends; another one would wait for the user from scratch.
LeaveFront(c) ==
  /\ Lease!Drop(Held(c) \cap {Attention})
  /\ spent' = [spent EXCEPT ![c] = FALSE]

\* What follows an action that has been delivered in the foreground.
AfterFront(c) ==
  /\ IF mend[c] = "running"
     THEN mend' = [mend EXCEPT ![c] = "over"] /\ Goto(c, "verify") /\ UNCHANGED at
     ELSE Advance(c, IF Chained(c) THEN "front" ELSE "deliver") /\ UNCHANGED mend
  /\ IF pc'[c] = "front" THEN UNCHANGED <<leaseVars, spent>> ELSE LeaveFront(c)
  /\ UNCHANGED <<attempt, stale, verdict, world>>

FrontLands(c) ==
  /\ InFront(c)
  /\ Clear(c)
  /\ Land(c, {at[c]})
  /\ AfterFront(c)
  /\ UNCHANGED late

FrontDidnt(c) ==
  /\ InFront(c)
  /\ Clear(c)
  /\ Nothing(c)
  /\ Goto(c, "verify")
  /\ mend' = [mend EXCEPT ![c] = IF @ = "running" THEN "over" ELSE @]
  /\ LeaveFront(c)
  /\ UNCHANGED <<at, attempt, stale, verdict, world>>

FrontAlwaysYields(c) ==  \* mutant: waits for the user for ever
  /\ InFront(c)
  /\ ~Clear(c)
  /\ Goto(c, "quiet")
  /\ at' = [at EXCEPT ![c] = IF Chained(c) THEN 1 ELSE @]
  /\ Lease!Drop(Held(c) \cap {Attention})
  /\ Calm(c) /\ UNCHANGED effects

\* The user comes between two events of an action: a button is down and not up,
\* the first characters are typed and the others are not.
Tears(c) ==
  /\ torn' = [torn EXCEPT ![c] = @ \cup {at[c]}]
  /\ missed' = [d \in Call |-> missed[d] \/ (d # c /\ On[d] = On[c])]
  /\ UNCHANGED <<landed, late>>

\* user_active, before an action or between its events: "retrying this checked
\* section after yielding is safe".  The section is one action, or the whole
\* chain.
FrontYields(c) ==
  /\ InFront(c)
  /\ ~Clear(c)
  /\ UNCHANGED effects \/ Tears(c)
  /\ IF spent[c]
     THEN Throw(c, FALSE, "never")
     ELSE /\ Goto(c, "quiet")
          /\ at' = [at EXCEPT ![c] = IF Chained(c) THEN 1 ELSE @]
          /\ Lease!Drop(Held(c) \cap {Attention})
          /\ Calm(c)

--------------------------------------------------------------------------------
(* After delivery, and stale recovery.                                       *)

\* Verification and the successor observation; errors here end in a terminal
\* result and nothing is replayed.
Finish(c) ==
  /\ pc[c] = "verify"
  /\ Lease!Drop({On[c]})
  /\ Goto(c, "done")
  /\ verdict' = [verdict EXCEPT ![c] = "completed"]
  /\ UNCHANGED <<at, attempt, stale, spent, mend, world, effects>>

\* The application puts the old value back after a setText that seemed to
\* work; the text is set once more, in the foreground.
Mend(c) ==
  /\ pc[c] = "verify"
  /\ Actions[c] = <<"text">> /\ mend[c] = "no" /\ ~Headless /\ ~Foreground
  /\ setting.changes /\ landed[c][1] > 0
  /\ landed' = [landed EXCEPT ![c][1] = @ - 1]
  /\ mend' = [mend EXCEPT ![c] = "running"]
  /\ Goto(c, "quiet")
  /\ UNCHANGED <<leaseVars, at, attempt, stale, spent, verdict, world, late, torn, missed>>

\* performObserve takes the lease of the application once more.
LookAgain(c) ==
  /\ pc[c] = "observe"
  /\ Lease!Take(c, On[c])
  /\ Goto(c, "looking")
  /\ Calm(c) /\ UNCHANGED <<at, effects>>

Look(c) ==
  /\ pc[c] = "looking"
  /\ Lease!Observe(c)
  /\ stale' = [stale EXCEPT ![c] = FALSE]
  /\ missed' = [missed EXCEPT ![c] = FALSE]
  /\ Goto(c, "looked")
  /\ UNCHANGED <<at, attempt, spent, mend, verdict, world, landed, late, torn>>

\* rebindActParams finds every target again, and the transaction starts over.
Rebind(c) ==
  /\ pc[c] = "looked"
  /\ Lease!Drop({On[c]})
  /\ Goto(c, "idle")
  /\ at' = [at EXCEPT ![c] = 1]
  /\ attempt' = [attempt EXCEPT ![c] = 2]
  /\ UNCHANGED <<stale, spent, mend, verdict, world, effects>>

\* TargetRebindError.
RebindFails(c) ==
  /\ pc[c] = "looked"
  /\ Throw(c, FALSE, "never")
  /\ UNCHANGED effects

--------------------------------------------------------------------------------
(* The environment.                                                          *)

Changes(a) ==
  /\ setting.changes
  /\ \E c \in Call : On[c] = a /\ ~stale[c]
  /\ stale' = [c \in Call |-> stale[c] \/ On[c] = a]
  /\ UNCHANGED <<leaseVars, pc, at, attempt, spent, mend, verdict, world, effects>>

UserComes ==
  /\ setting.user
  /\ user = "quiet"
  /\ user' = "active"
  /\ front' \in App \cup {Nobody}
  /\ UNCHANGED <<leaseVars, pc, at, attempt, stale, spent, mend, verdict, effects>>

UserRests ==
  /\ user = "active"
  /\ user' = "quiet"
  /\ UNCHANGED <<leaseVars, pc, at, attempt, stale, spent, mend, verdict, front, effects>>

\* user_activity_timeout_ms, counted from the first wait of a section.
TimeUp(c) ==
  /\ pc[c] \in {"quiet", "attend", "front"}
  /\ ~spent[c]
  /\ spent' = [spent EXCEPT ![c] = TRUE]
  /\ UNCHANGED <<leaseVars, pc, at, attempt, stale, mend, verdict, world, effects>>

ShowsUp(c, i) ==
  /\ i \in late[c]
  /\ late' = [late EXCEPT ![c] = @ \ {i}]
  /\ landed' = [landed EXCEPT ![c][i] = @ + 1]
  /\ UNCHANGED <<leaseVars, pc, at, attempt, stale, spent, mend, verdict, world, torn, missed>>

--------------------------------------------------------------------------------

Step(c) ==
  \/ Diverted(c) \/ Enter(c) \/ Refuse(c) \/ Admit(c) \/ LeaseTimesOut(c)
  \/ Batch(c) \/ Wait(c) \/ Escalate(c)
  \/ BackgroundLands(c) \/ BackgroundDidnt(c) \/ BackgroundRefused(c)
  \/ TargetGone(c) \/ HelperLost(c)
  \/ Quiet(c) \/ UserStays(c) \/ Attend(c) \/ AttendYields(c)
  \/ FrontLands(c) \/ FrontDidnt(c) \/ FrontYields(c)
  \/ Finish(c) \/ Mend(c) \/ LookAgain(c) \/ Look(c) \/ Rebind(c) \/ RebindFails(c)

Environment ==
  \/ \E a \in App : Changes(a)
  \/ UserComes \/ UserRests
  \/ \E c \in Call : TimeUp(c) \/ \E i \in Index(c) : ShowsUp(c, i)

Next ==
  /\ (\E c \in Call : Step(c)) \/ Environment
  /\ UNCHANGED setting

Spec == Init /\ [][Next]_vars

\* Calls run, time passes, and a lease that is free again and again is had.
Claiming(c) == Enter(c) \/ LookAgain(c) \/ Attend(c) \/ AttendYields(c)
Fairness ==
  \A c \in Call :
    WF_callVars(Step(c)) /\ WF_callVars(TimeUp(c)) /\ SF_callVars(Claiming(c))

FairSpec == Spec /\ Fairness

--------------------------------------------------------------------------------
(* Properties.                                                               *)

Place == {"idle", "admit", "batch", "deliver", "quiet", "attend", "front", "verify",
          "observe", "looking", "looked", "done"}

\* The state is well formed, and a call holds the leases of where it is.
TypeOK ==
  /\ holder \in [App \cup {Attention} -> Call \cup {Nobody}]
  /\ epoch \in [App \cup {Attention} -> Nat] /\ base \in [Call -> Nat]
  /\ setting \in Settings
  /\ pc \in [Call -> Place] /\ attempt \in [Call -> 1 .. 2]
  /\ at \in [Call -> Nat] /\ \A c \in Call : Index(c) # {} => at[c] \in Index(c)
  /\ stale \in [Call -> BOOLEAN] /\ spent \in [Call -> BOOLEAN] /\ missed \in [Call -> BOOLEAN]
  /\ mend \in [Call -> {"no", "running", "over"}]
  /\ verdict \in [Call -> {"", "completed", "never", "maybe"}]
  /\ user \in {"quiet", "active"} /\ front \in App \cup {Nobody}
  /\ DOMAIN landed = Call /\ \A c \in Call : landed[c] \in [Index(c) -> Nat]
  /\ DOMAIN late = Call /\ \A c \in Call : late[c] \subseteq Index(c)
  /\ DOMAIN torn = Call /\ \A c \in Call : torn[c] \subseteq Index(c)
  /\ \A c \in Call :
       Held(c) = (IF pc[c] \in {"idle", "observe", "done"} THEN {} ELSE {On[c]})
                 \cup (IF pc[c] = "front" THEN {Attention} ELSE {})

Once(c) == \A i \in Index(c) : landed[c][i] <= 1
Truthful(c) ==
  verdict[c] = "never" => torn[c] = {} /\ \A i \in Index(c) : landed[c][i] = 0 /\ i \notin late[c]

\* A transaction that is delivered as one: a single action, a native batch, or
\* a focus chain with nobody to disturb it; but not a text alone where posted
\* text may show up after the helper has looked for it.
Undivided(c) ==
  /\ \/ Len(Actions[c]) = 1
     \/ Batched(c)
     \/ Chained(c) /\ ~setting.user /\ ~setting.changes
  /\ setting.late => Actions[c] # <<"text">>

\* And nothing of it was cut off between two events: such an action is posted
\* again from its beginning, or reported as never delivered.
OnePiece(c) == Undivided(c) /\ torn[c] = {}

\* No action of a transaction delivered in one piece takes effect twice: the
\* foreground retry, the bounded recovery and the automatic stale recovery
\* repeat only what was never delivered.
PieceAtMostOnce == \A c \in Call : OnePiece(c) => Once(c)

\* A caller whose transaction was delivered in one piece, and who is told that
\* it never was, may safely try again.  Who was cut off between two events of
\* an action may not, whatever user_active says (README, departure 20).
PieceHonestVerdict == \A c \in Call : OnePiece(c) => Truthful(c)

\* The same of every transaction: "It does not replay an action that may already
\* have been delivered."
AtMostOnce == \A c \in Call : Once(c)

\* The same of every transaction: user_active, a lease timeout or a stale ref is
\* returned as definitely not delivered.
HonestVerdict == \A c \in Call : Truthful(c)

\* An action is only ever delivered after all those before it in its
\* transaction: one that did not work ends it.
InOrder ==
  \A c \in Call : \A i \in Index(c) : \A j \in 1 .. i - 1 :
    landed[c][i] > 0 /\ Actions[c][j] # "wait" => landed[c][j] > 0

\* How often the input of an action was sent on its way, shown up or not, whole
\* or in part.
Sent(c, i) == landed[c][i] + (IF i \in late[c] THEN 1 ELSE 0) + (IF i \in torn[c] THEN 1 ELSE 0)

\* No call acts on an application on the strength of an observation that an
\* action of another call has come after.
Isolated ==
  [][\A c \in Call : (\E i \in Index(c) : Sent(c, i)' > Sent(c, i)) => ~missed[c]]_vars

\* Every call ends: the user, other calls and failures delay it, no more.
CallEnds == <>(\A c \in Call : pc[c] = "done")
================================================================================
