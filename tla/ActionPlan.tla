---------------------------- MODULE ActionPlan ----------------------------
(***************************************************************************)
(* execute_plan: src/action-plan.ts with the adapter mcp/server.ts gives   *)
(* it.  A plan is a graph of nodes; each node is one act_ui transaction on *)
(* the state it names or on the state a dependency left behind.  The       *)
(* scheduler starts what is ready, a node whose failure proves that        *)
(* nothing was delivered may observe again and retry, and an abort cancels *)
(* what has not started.                                                   *)
(*                                                                         *)
(* What runs between two awaits is one step: a pass of the scheduler, an   *)
(* answer of act_ui, an answer of observe_ui.  Removing a node from        *)
(* "running" is part of the step that ends it.                             *)
(***************************************************************************)
EXTENDS Integers, Sequences, SequencesExt, FiniteSets

CONSTANTS Node,     \* ids of plan nodes
          Gone,     \* an id that no node has
          Plans     \* the requests of the instance


VARIABLES plan,      \* the request
          phase,     \* of the call
          aborted,   \* the signal of the call
          woken,     \* the race the scheduler awaits has been won
          trace,     \* what is recorded of every node
          landed     \* how often a node's actions took effect and act_ui did not deny it

planVars == <<plan, phase, aborted, woken, trace, landed>>

MaxPlanNodes == 64
MaxNodeActions == 20

Nodes == Range(plan.order)
Bounded(value, low, high) == IF value < low THEN low ELSE IF value > high THEN high ELSE value

\* A request: node ids in order, and per node its dependencies, the node it
\* takes its state from (Gone: none), whether it names a state, its number of
\* actions, what guards them, its conflict policy and its retry options.
Request == [order : Seq(Node), dependsOn : [Node -> SUBSET (Node \cup {Gone})],
            stateFrom : [Node -> Node \cup {Gone}], stateId : [Node -> BOOLEAN],
            actions : [Node -> Nat], guard : [Node -> {"guards", "selectors", "none"}],
            refresh : [Node -> BOOLEAN], maxAttempts : [Node -> Int],
            acceptUnknown : [Node -> BOOLEAN], maxConcurrency : Int]

ASSUME PlanAssumption == Gone \notin Node /\ Plans \subseteq Request

MaxConcurrency == Bounded(plan.maxConcurrency, 1, 32)
MaxAttempts(n) == Bounded(plan.maxAttempts[n], 1, 3)

\* The nodes that are visited after so many rounds of counting indegrees down.
Visited[round \in 0..MaxPlanNodes] ==
  IF round = 0 THEN {}
  ELSE LET before == Visited[round - 1]
       IN {n \in Nodes : plan.dependsOn[n] \subseteq before}

Valid ==
  /\ Len(plan.order) \in 1..MaxPlanNodes
  /\ IsInjective(plan.order)
  /\ \A n \in Nodes :
       /\ plan.actions[n] \in 1..MaxNodeActions
       /\ plan.guard[n] # "none"
       /\ plan.stateId[n] = (plan.stateFrom[n] = Gone)
       /\ plan.dependsOn[n] \subseteq Nodes \ {n}
       /\ plan.stateFrom[n] # Gone => plan.stateFrom[n] \in plan.dependsOn[n]
  /\ Visited[Len(plan.order)] = Nodes

(***************************************************************************)
(* States and verdicts.                                                    *)
(***************************************************************************)
NoState == [of |-> Gone, kind |-> "none", at |-> 0]
State == [of : Node, kind : {"given", "refreshed", "successor"}, at : 0..3] \cup {NoState}
Made(n, kind, at) == [of |-> n, kind |-> kind, at |-> at]

\* What act_ui answers: an outcome with or without a successor state, or an
\* error, named for what its envelope says.
Answer == [outcome : {"worked", "unknown", "didnt"}, successor : BOOLEAN]
            \cup [outcome : {"refused", "busy", "unsupported", "lost"}, successor : {FALSE}]

\* The delivery and the advice an answer comes down to for its node.
Succeeds(n, answer) ==
  /\ answer.successor
  /\ answer.outcome = "worked" \/ (answer.outcome = "unknown" /\ plan.acceptUnknown[n])
DefinitelyNotDelivered(answer) == answer.outcome \in {"refused", "busy", "unsupported"}
MayReobserve(answer) == answer.outcome = "refused"

\* Mutant: every failure is worth another attempt.
CanRefreshAnyway(n, answer, inTime) == plan.refresh[n] /\ trace[n].attempt < MaxAttempts(n) /\ inTime

\* In time: the retry budget of the node has not run out.
CanRefresh(n, answer, inTime) ==
  /\ plan.refresh[n]
  /\ trace[n].attempt < MaxAttempts(n)
  /\ inTime
  /\ DefinitelyNotDelivered(answer)
  /\ MayReobserve(answer)

(***************************************************************************)
(* The trace.                                                              *)
(***************************************************************************)
Status == {"pending", "running", "succeeded", "failed", "cancelled", "blocked"}
Fresh == [status |-> "pending", doing |-> "nothing", attempt |-> 0, state |-> NoState, successor |-> NoState]

\* Nodes whose promise is in "running".
Running == {n \in Nodes : trace[n].doing \in {"act", "refresh"}}
Unsettled == {n \in Nodes : trace[n].status \in {"pending", "running"}}

\* Mutant: the state the dependency ran on, in place of the one it left.
InputOfBefore(n, t) == IF plan.stateId[n] THEN Made(n, "given", 0) ELSE t[plan.stateFrom[n]].state
InputOf(n, t) == IF plan.stateId[n] THEN Made(n, "given", 0) ELSE t[plan.stateFrom[n]].successor

\* A node's run up to its first await.
StartNode(n, t) ==
  [t EXCEPT ![n] = IF InputOf(n, t) = NoState
                   THEN [@ EXCEPT !.status = "failed"]
                   ELSE [@ EXCEPT !.status = "running", !.doing = "act", !.attempt = 1, !.state = InputOf(n, t)]]

\* One node of a pass over the nodes in order.
Visit(t, n) ==
  LET deps == {t[d].status : d \in plan.dependsOn[n]}
      busy == {m \in Nodes : t[m].doing \in {"act", "refresh"}}
  IN IF Cardinality(busy) >= MaxConcurrency \/ t[n].status # "pending" \/ deps \cap {"pending", "running"} # {}
     THEN t
     ELSE IF deps \ {"succeeded"} # {}
          THEN [t EXCEPT ![n].status = "blocked"]
          ELSE StartNode(n, t)

\* A pass over the nodes.
Visits(t) ==
  LET visited[k \in 0..Len(plan.order)] == IF k = 0 THEN t ELSE Visit(visited[k - 1], plan.order[k])
  IN visited[Len(plan.order)]

PlanInit ==
  /\ plan \in Plans
  /\ phase = "new"
  /\ aborted = FALSE
  /\ woken = TRUE
  /\ trace = [n \in Node |-> Fresh]
  /\ landed = [n \in Node |-> 0]

\* No call: for instances that check something else.
NoPlan ==
  /\ plan \in Plans
  /\ phase = "idle"
  /\ aborted = FALSE
  /\ woken = FALSE
  /\ trace = [n \in Node |-> Fresh]
  /\ landed = [n \in Node |-> 0]

PlanOpens ==
  /\ phase = "new"
  /\ phase' = IF Valid THEN "open" ELSE "invalid"
  /\ UNCHANGED <<plan, aborted, woken, trace, landed>>

\* The scheduler looks again, until something runs or nothing is left.
SchedulerPass ==
  /\ phase = "open" /\ woken
  /\ Unsettled # {}
  /\ ~aborted
  /\ LET after == Visits(trace) IN
       /\ trace' = after
       /\ woken' = (\A n \in Nodes : after[n].doing = "nothing")
       /\ phase' = IF after = trace /\ Running = {} THEN "stuck" ELSE "open"
  /\ UNCHANGED <<plan, aborted, landed>>

\* The loop sees the abort: what has not started is cancelled, what runs is awaited.
SchedulerAborts ==
  /\ phase = "open" /\ woken
  /\ Unsettled # {}
  /\ aborted
  /\ trace' = [n \in Node |-> IF n \in Nodes /\ trace[n].status = "pending"
                              THEN [trace[n] EXCEPT !.status = "cancelled"] ELSE trace[n]]
  /\ phase' = "draining"
  /\ UNCHANGED <<plan, aborted, woken, landed>>

PlanAnswers ==
  /\ \/ phase = "open" /\ woken /\ Unsettled = {}
     \/ phase = "draining"
  /\ Running = {}
  /\ phase' = "answered"
  /\ UNCHANGED <<plan, aborted, woken, trace, landed>>

\* act_ui answers; took says whether its actions took effect.  That does not
\* bind the answer: act_ui may call definitely not delivered what was (a stale
\* ref of a later action, a section run a second time), and nobody here can
\* tell.  What worked did take effect.
ActAnswers(n) ==
  /\ trace[n].doing = "act"
  /\ UNCHANGED <<plan, phase, aborted>>
  /\ \E answer \in Answer, inTime, took \in BOOLEAN :
       /\ took = FALSE => answer.outcome # "worked"
       /\ landed' = [landed EXCEPT ![n] = @ + (IF took /\ ~DefinitelyNotDelivered(answer) THEN 1 ELSE 0)]
       /\ trace' = [trace EXCEPT ![n] =
            IF Succeeds(n, answer)
            THEN [@ EXCEPT !.status = "succeeded", !.doing = "nothing", !.successor = Made(n, "successor", trace[n].attempt)]
            ELSE IF aborted THEN [@ EXCEPT !.status = "cancelled", !.doing = "nothing"]
            ELSE IF CanRefresh(n, answer, inTime) THEN [@ EXCEPT !.doing = "refresh"]
            ELSE [@ EXCEPT !.status = "failed", !.doing = "nothing"]]
       /\ woken' = (woken \/ trace'[n].doing = "nothing")

\* observe_ui gives a new state, and the node tries again on it.
Refreshes(n) ==
  /\ trace[n].doing = "refresh"
  /\ ~aborted
  /\ trace' = [trace EXCEPT ![n].doing = "act", ![n].attempt = @ + 1, ![n].state = Made(n, "refreshed", trace[n].attempt)]
  /\ UNCHANGED <<plan, phase, aborted, woken, landed>>

RefreshFails(n) ==
  /\ trace[n].doing = "refresh"
  /\ trace' = [trace EXCEPT ![n].status = "failed", ![n].doing = "nothing"]
  /\ woken' = TRUE
  /\ UNCHANGED <<plan, phase, aborted, landed>>

\* The abort came while the node observed: its next attempt throws outside of
\* the recorded part.  Whoever awaits the node rejects; if the race had been
\* won by another node, nobody does.
AttemptThrows(n) ==
  /\ trace[n].doing = "refresh"
  /\ aborted
  /\ trace' = [trace EXCEPT ![n].doing = "thrown"]
  /\ phase' = IF phase = "draining" \/ (phase = "open" /\ ~woken) THEN "rejected" ELSE phase
  /\ UNCHANGED <<plan, aborted, woken, landed>>

PlanAborts ==
  /\ phase \in {"new", "open", "draining"}
  /\ ~aborted
  /\ aborted' = TRUE
  /\ UNCHANGED <<plan, phase, woken, trace, landed>>

NodeStep(n) == ActAnswers(n) \/ Refreshes(n) \/ RefreshFails(n) \/ AttemptThrows(n)
PlanCallStep == PlanOpens \/ SchedulerPass \/ SchedulerAborts \/ PlanAnswers

PlanNext == PlanCallStep \/ PlanAborts \/ \E n \in Node : NodeStep(n)

\* The helper answers every call, and the process runs what is due.
PlanFairness == WF_planVars(PlanCallStep) /\ \A n \in Node : WF_planVars(NodeStep(n))

PlanSpec == PlanInit /\ [][PlanNext]_planVars /\ PlanFairness

(***************************************************************************)
(* Properties.                                                             *)
(***************************************************************************)
PlanTypeOK ==
  /\ plan \in Plans
  /\ phase \in {"idle", "new", "invalid", "open", "draining", "answered", "rejected", "stuck"}
  /\ aborted \in BOOLEAN /\ woken \in BOOLEAN
  /\ trace \in [Node -> [status : Status, doing : {"nothing", "act", "refresh", "thrown"},
                         attempt : 0..3, state : State, successor : State]]
  /\ landed \in [Node -> 0..3]

\* A plan sends a node's actions again only after answers that denied their
\* delivery: once they took effect and act_ui said so, or left it open, the node
\* is over, through aborts, refreshes and whatever else is answered.  What an
\* answer denied although it took effect is sent again; the plan cannot know.
NoRetryOfDelivered == \A n \in Node : landed[n] <= 1 /\ (landed[n] > 0 => trace[n].doing \notin {"act", "refresh"})

\* A node is only attempted when all it depends on has succeeded, never with
\* more than maxConcurrency of them, and on the state its source left behind
\* or one it has observed since.
BranchOrder ==
  phase # "idle" =>
    /\ Cardinality(Running) <= MaxConcurrency
    /\ \A n \in Nodes : trace[n].attempt > 0 =>
         /\ \A d \in plan.dependsOn[n] : trace[d].status = "succeeded"
         /\ trace[n].state \in {Made(n, "refreshed", k) : k \in 1..3}
              \cup {IF plan.stateId[n] THEN Made(n, "given", 0)
                    ELSE Made(plan.stateFrom[n], "successor", trace[plan.stateFrom[n]].attempt)}

\* A plan that passes validation is never found in an invalid dependency
\* state, never lacks an input state, and is answered with a verdict on every
\* node: without an abort, a node is blocked exactly if a dependency of it did
\* not succeed, and everything else was attempted.
TraceComplete ==
  /\ phase # "stuck"
  /\ \A n \in Nodes : trace[n].status = "failed" => trace[n].state # NoState
  /\ phase = "answered" =>
       /\ Running = {}
       /\ \A n \in Nodes : trace[n].status \in {"pending", "running"} => trace[n].doing = "thrown"
       /\ ~aborted => \A n \in Nodes :
            (trace[n].status = "blocked") = (\E d \in plan.dependsOn[n] : trace[d].status # "succeeded")

\* What a plan does and what it tells of itself fit its dependencies.
PlanSound == BranchOrder /\ TraceComplete

\* An aborted plan is answered with its trace and an explicit cancelled
\* status, as scripts/check-action-plan.mjs says of it.
AbortIsAnswered == phase # "rejected"

\* Every plan is answered, or rejected.
PlanEnds == phase = "new" ~> phase \in {"invalid", "answered", "rejected"}
=============================================================================
