----------------------------- MODULE BrowserAct -----------------------------
(***************************************************************************)
(* performBrowserTransaction of src/bridge.ts, from a saved state of a page *)
(* to its verdict: a transaction that is already satisfied is skipped, the  *)
(* others are admitted under the lease of the page, delivered command by    *)
(* command over CDP (cdp.ts), verified and observed.  A failure is told with*)
(* what it means for delivery (mcp/errors.ts), and from that performAct and *)
(* execute_plan decide to look again and to deliver again.                  *)
(* A page is not found while its transport does not answer, too, so it may  *)
(* be gone and come back.  Time passes where a step offers it.              *)
(***************************************************************************)
EXTENDS Integers, Sequences, FiniteSets

CONSTANTS Transactions,  \* what may be asked for, see TransactionAssumption
          MaxAttempts,   \* executions of one transaction, retries of a plan included
          MaxChanges       \* changes of the page, of the user and by other calls

Pieces(action) == action.pieces    \* commands that take effect
ASSUME TransactionAssumption ==
  \A t \in Transactions :
    /\ t.actions \in Seq([kind : {"node", "input", "wait"}, pieces : 0..3])
    /\ \A i \in DOMAIN t.actions : t.actions[i].kind = "wait" => t.actions[i].pieces = 0
    /\ {t.expect, t.skip, t.foreground, t.guarded} \subseteq BOOLEAN

VARIABLES tx,      \* the transaction
          tab,     \* its page: there, its condition and guard hold, it looks different
          user,    \* the physical user: busy or quiet
          base,    \* the saved state: what it shows, and whether its epoch is current
          log,     \* what took effect in this execution, in order
          landed,  \* how often every piece took effect
          changes

actVars == <<tx, tab, user, base, log, landed, changes>>

PiecesOf(t) == [i \in DOMAIN t.actions |-> [j \in 1..Pieces(t.actions[i]) |-> <<i, j>>]]
\* Every command of a transaction in its order.
InOrderOf(t) == LET upTo[i \in 0..Len(t.actions)] == IF i = 0 THEN <<>> ELSE upTo[i - 1] \o PiecesOf(t)[i] IN upTo[Len(t.actions)]

Snapshot == [holds |-> tab.holds, guard |-> tab.guard, fresh |-> TRUE]
Begun(t, attempt) ==
  [asked |-> t, at |-> "begin", i |-> 1, j |-> 1, worked |-> TRUE, dispatched |-> 0, acked |-> {},
   attempt |-> attempt, recovered |-> FALSE, blind |-> FALSE, code |-> "none", verdict |-> "none"]

ActInit ==
  /\ \E t \in Transactions :
       /\ tx = Begun(t, 1)
       /\ landed = [i \in DOMAIN t.actions |-> [j \in 1..Pieces(t.actions[i]) |-> 0]]
  /\ tab \in [there : {TRUE}, holds : BOOLEAN, guard : {TRUE}, changed : {FALSE}]
  /\ base = Snapshot
  /\ user \in {"quiet", "busy"} /\ log = <<>> /\ changes = 0

NoAct ==
  /\ tx = [Begun([actions |-> <<>>, expect |-> FALSE, skip |-> FALSE, foreground |-> FALSE, guarded |-> FALSE], 1) EXCEPT !.at = "ended"]
  /\ tab = [there |-> TRUE, holds |-> FALSE, guard |-> TRUE, changed |-> FALSE]
  /\ base = Snapshot /\ user = "quiet" /\ log = <<>> /\ landed = <<>> /\ changes = MaxChanges

Fails(code) == tx' = [tx EXCEPT !.at = "failed", !.code = code]
Goes(at) == tx' = [tx EXCEPT !.at = at]
Preexisting == tx.asked.expect /\ base.holds
\* Guards hold in the saved state, and later in a fresh snapshot.
SavedGuards == tx.asked.guarded => base.guard
LiveGuards == tx.asked.guarded => tab.there /\ tab.guard

(***************************************************************************)
(* Admission.                                                              *)
(***************************************************************************)
Prepares ==
  /\ tx.at = "begin"
  /\ \/ ~SavedGuards /\ Fails("guard_failed")
     \/ /\ SavedGuards
        /\ IF tx.asked.skip /\ Preexisting
           THEN tx' = [tx EXCEPT !.at = "ended", !.verdict = "skipped"]
           ELSE Goes("queued")
  /\ UNCHANGED <<tab, user, base, log, landed, changes>>

\* withBrowserWrite: the epoch, the guards on a fresh snapshot, then the epoch
\* advances, and whoever does not own the page is refused.
Admits ==
  /\ tx.at = "queued"
  /\ \/ ~base.fresh /\ Fails("stale_state")
     \/ base.fresh /\ ~LiveGuards /\ Fails("guard_failed")
     \/ /\ base.fresh /\ LiveGuards
        /\ Fails("resource_owned") \/ Goes("admitted")
  /\ UNCHANGED <<tab, user, base, log, landed, changes>>

\* The mutation count is read if there is something to wait for.
Starts ==
  /\ tx.at = "admitted"
  /\ \/ Goes(IF tx.asked.foreground THEN "yielding" ELSE "delivering")
     \/ tx.asked.expect /\ ~Preexisting /\ Fails("operation_failed")
  /\ UNCHANGED <<tab, user, base, log, landed, changes>>

\* withForegroundUserPriority: the user goes first, and is looked for again
\* behind the lease of the foreground and after the page was brought there.
Presents ==
  /\ tx.at = "yielding"
  /\ \/ user = "quiet" /\ tab.there /\ Goes("delivering")
     \/ user = "quiet" /\ ~tab.there /\ Fails("unsupported_background")
     \/ user = "busy" /\ Fails("user_active")
  /\ UNCHANGED <<tab, user, base, log, landed, changes>>

(***************************************************************************)
(* Delivery: cdpPerformActionDetailedForContext for one action after the    *)
(* other, one command at a time.                                            *)
(***************************************************************************)
Action == tx.asked.actions[tx.i]
Land == /\ log' = Append(log, <<tx.i, tx.j>>)
        /\ landed' = [landed EXCEPT ![tx.i][tx.j] = @ + 1]
        /\ tab' \in {tab, [tab EXCEPT !.changed = TRUE], [tab EXCEPT !.changed = TRUE, !.holds = TRUE]}

\* What the wrapped error says: a transaction that has dispatched nothing has
\* delivered nothing.
\* Mutant: nothing was, whatever was dispatched.
NeverDelivered == "not_delivered"
DeliveryOfFailure == IF tx.dispatched > 0 THEN "delivery_failed" ELSE "not_delivered"

FindsNoPage ==
  /\ tx.at = "delivering" /\ tx.i <= Len(tx.asked.actions) /\ tx.j = 1
  /\ Action.kind # "wait" /\ ~tab.there
  /\ Fails(DeliveryOfFailure)
  /\ UNCHANGED <<tab, user, base, log, landed, changes>>

\* A command is answered.  A detached element takes nothing and says so; the
\* clicks that follow it are tried all the same.
PieceDone ==
  /\ tx.at = "delivering" /\ tx.i <= Len(tx.asked.actions) /\ tx.j <= Pieces(Action)
  /\ tx.j = 1 => tab.there
  /\ \/ Land /\ tx' = [tx EXCEPT !.j = @ + 1]
     \/ /\ Action.kind = "node"
        /\ tx' = [tx EXCEPT !.j = @ + 1, !.worked = FALSE]
        /\ UNCHANGED <<tab, log, landed>>
  /\ UNCHANGED <<user, base, changes>>

\* It is not: it never arrived, or its answer is lost or late.
PieceFails ==
  /\ tx.at = "delivering" /\ tx.i <= Len(tx.asked.actions) /\ tx.j <= Pieces(Action)
  /\ tx.j = 1 => tab.there
  /\ Fails(DeliveryOfFailure)
  /\ Land \/ UNCHANGED <<tab, log, landed>>
  /\ UNCHANGED <<user, base, changes>>

\* A wait is not counted; an abort ends it.
ActionDone ==
  /\ tx.at = "delivering" /\ tx.i <= Len(tx.asked.actions) /\ tx.j > Pieces(Action)
  /\ \/ /\ tx.worked
        /\ tx' = [tx EXCEPT !.i = @ + 1, !.j = 1, !.dispatched = IF Action.kind = "wait" THEN @ ELSE @ + 1, !.acked = @ \cup {tx.i}]
     \/ (~tx.worked \/ Action.kind = "wait") /\ Fails(DeliveryOfFailure)
  /\ UNCHANGED <<tab, user, base, log, landed, changes>>

Delivered ==
  /\ tx.at = "delivering" /\ tx.i > Len(tx.asked.actions)
  /\ Goes(IF tx.asked.expect THEN "checking" ELSE "observing")
  /\ UNCHANGED <<tab, user, base, log, landed, changes>>

(***************************************************************************)
(* Verification and the successor state.                                   *)
(***************************************************************************)
OutcomeChecked(holds) == IF ~holds THEN "didnt" ELSE IF Preexisting THEN "preexisting" ELSE "worked"
\* A snapshot, or the value of a text that was set, shows the condition; the
\* time is up; the page is not there; the call is aborted, or the snapshot fails.
Verifies ==
  /\ tx.at = "checking"
  /\ \/ tab.there /\ tx' = [tx EXCEPT !.at = "observing", !.verdict = OutcomeChecked(tab.holds)]
     \/ ~tab.there /\ Fails("state_unavailable")
     \/ Fails("cancelled") \/ Fails("operation_failed")
  /\ UNCHANGED <<tab, user, base, log, landed, changes>>

OutcomeObserved(verdict) == IF verdict # "none" THEN verdict ELSE IF tab.changed THEN "worked" ELSE "unknown"
\* Without a condition the difference to the base decides.
Observes ==
  /\ tx.at = "observing"
  /\ \/ /\ tab.there
        /\ tx' = [tx EXCEPT !.at = "ended", !.verdict = OutcomeObserved(@)]
     \/ ~tab.there /\ Fails("state_unavailable")
     \/ Fails("operation_failed")
  /\ UNCHANGED <<tab, user, base, log, landed, changes>>

(***************************************************************************)
(* What a failure leads to.                                                *)
(***************************************************************************)
\* scuaErrorEnvelope: the codes that say that nothing was delivered and that
\* ask for a new observation.
Reobserve == {"guard_failed", "stale_state", "not_delivered", "state_unavailable"}
\* performAct observes, rebinds and executes once more.
Recoverable == {"guard_failed", "stale_state"}

Again(attempt, recovered) ==
  /\ tab.there
  /\ base' = Snapshot /\ log' = <<>>
  /\ tx' = [Begun(tx.asked, attempt) EXCEPT !.recovered = recovered, !.acked = tx.acked,
                                            !.blind = tx.blind \/ tx.code = "state_unavailable"]
  /\ UNCHANGED <<tab, user, landed, changes>>
IsOver ==
  /\ Goes("over")
  /\ UNCHANGED <<tab, user, base, log, landed, changes>>

\* A page that is not there is not observed, and what is gone from it cannot
\* be rebound.
Recovers ==
  /\ tx.at = "failed"
  /\ tx.code \in Recoverable /\ ~tx.recovered
  /\ Again(tx.attempt, TRUE) \/ IsOver
\* execute_plan refreshes its state and tries again.
Retries ==
  /\ tx.at = "failed"
  /\ tx.code \in Recoverable => tx.recovered
  /\ \/ tx.code \in Reobserve /\ tx.attempt < MaxAttempts /\ Again(tx.attempt + 1, FALSE)
     \/ IsOver

(***************************************************************************)
(* The page, the user and other calls.                                     *)
(***************************************************************************)
Changes ==
  /\ tx.at \notin {"ended", "over"} /\ changes < MaxChanges
  /\ changes' = changes + 1
  /\ \/ /\ tab' \in {[tab EXCEPT !.there = ~@], [tab EXCEPT !.holds = ~@, !.changed = TRUE], [tab EXCEPT !.guard = ~@, !.changed = TRUE]}
        /\ UNCHANGED <<user, base>>
     \/ user' = (IF user = "busy" THEN "quiet" ELSE "busy") /\ UNCHANGED <<tab, base>>
     \/ tx.at \in {"begin", "queued", "failed"} /\ base' = [base EXCEPT !.fresh = FALSE] /\ UNCHANGED <<tab, user>>
  /\ UNCHANGED <<tx, log, landed>>

TransactionStep ==
  \/ Prepares \/ Admits \/ Starts \/ Presents
  \/ FindsNoPage \/ PieceDone \/ PieceFails \/ ActionDone \/ Delivered
  \/ Verifies \/ Observes \/ Recovers \/ Retries
ActNext == TransactionStep \/ Changes
ActFairness == WF_actVars(TransactionStep)
ActSpec == ActInit /\ [][ActNext]_actVars /\ ActFairness

(***************************************************************************)
(* Properties.                                                             *)
(***************************************************************************)
\* No command of a transaction takes effect twice (performBrowserTransaction,
\* performAct and execute_plan).
NeverReplayed == \A i \in DOMAIN landed : \A j \in DOMAIN landed[i] : landed[i][j] <= 1

\* An action that was acknowledged is not delivered again, whatever fails after
\* it, unless the page could not be found when it was to be observed.
AckedOnce == [][\A i \in tx.acked : tx.blind \/ landed'[i] = landed[i]]_actVars

Before(c, d) == c[1] < d[1] \/ (c[1] = d[1] /\ c[2] < d[2])
\* PiecesOf take effect in the order of their actions, none is passed over but
\* by the action that fails of it, and a verdict speaks of all of them.
DeliversInOrder ==
  LET all == InOrderOf(tx.asked)
      before == SelectSeq(all, LAMBDA c : c[1] < tx.i)
  IN /\ \A k \in 1..(Len(log) - 1) : Before(log[k], log[k + 1])
     /\ SelectSeq(log, LAMBDA c : c[1] < tx.i) = before
     /\ tx.at = "ended" /\ tx.verdict # "skipped" => log = all

ActOver == tx.at \in {"ended", "over"}
=============================================================================
