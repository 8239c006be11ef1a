------------------------------ MODULE MCTasks ------------------------------
(***************************************************************************)
(* Instances of ActionPlan, GoalExecutor, JevPolicy and UiSubscriptions    *)
(* for TLC.  They share no state: every behaviour is one plan, one goal,   *)
(* one decision, or the streams of one actor.                              *)
(***************************************************************************)
EXTENDS ActionPlan, GoalExecutor, UiSubscriptions, TLC

CONSTANTS n1, n2, n3, t1, t2, s1, s2, r1, app

PlanNode(deps, from) ==
  [order |-> <<n1, n2, n3>>, dependsOn |-> deps, stateFrom |-> from, stateId |-> [n \in Node |-> from[n] = Gone],
   actions |-> [n \in Node |-> 1], guard |-> [n \in Node |-> "guards"], refresh |-> [n \in Node |-> TRUE],
   maxAttempts |-> [n \in Node |-> 2], acceptUnknown |-> [n \in Node |-> n = n2], maxConcurrency |-> 2]
\* n1 feeds n2, and n3 waits for both; the order is against the dependencies.
Chain == [PlanNode((n1 :> {} @@ n2 :> {n1} @@ n3 :> {n1, n2}), (n1 :> Gone @@ n2 :> n1 @@ n3 :> n2))
            EXCEPT !.order = <<n3, n2, n1>>, !.refresh[n2] = FALSE]
Apart == PlanNode([n \in Node |-> {}], [n \in Node |-> Gone])
Fork == [PlanNode((n1 :> {} @@ n2 :> {n1} @@ n3 :> {n1}), (n1 :> Gone @@ n2 :> n1 @@ n3 :> Gone)) EXCEPT !.maxConcurrency = 99, !.maxAttempts[n1] = 9]
Flawed == {[Chain EXCEPT !.dependsOn[n1] = {n3}], [Chain EXCEPT !.dependsOn[n1] = {Gone}], [Chain EXCEPT !.dependsOn[n3] = {n1}],
           [Apart EXCEPT !.dependsOn[n1] = {n1}], [Apart EXCEPT !.actions[n2] = 21], [Apart EXCEPT !.guard[n2] = "none"],
           [Apart EXCEPT !.stateFrom[n2] = n1], [Apart EXCEPT !.order = <<n1, n1>>], [Apart EXCEPT !.order = <<>>]}
SomePlans == {Chain, Apart, Fork} \cup Flawed

Nothing == [keys |-> <<>>, clears |-> FALSE]
Template == [order |-> <<t1, t2>>, dependsOn |-> [t \in Task |-> {}], stateFrom |-> (t1 :> NoTask @@ t2 :> t1),
             inputs |-> [t \in Task |-> 1], completion |-> (t1 :> TRUE @@ t2 :> FALSE), maxSteps |-> (t1 :> 2 @@ t2 :> 1),
             maxBatch |-> [t \in Task |-> 6], objective |-> [t \in Task |-> Nothing]]
Chain2 == [automatic |-> FALSE, template |-> Template, maxConcurrency |-> 2, roots |-> <<>>, excluded |-> {}, maxTasks |-> 6, maxWaves |-> 3]
Types == [Chain2 EXCEPT !.template.order = <<t1>>, !.template.completion[t1] = FALSE, !.template.maxSteps[t1] = 3,
                        !.template.objective[t1] = [keys |-> <<"1", "+", "2", "=">>, clears |-> TRUE]]
Windows == [Chain2 EXCEPT !.automatic = TRUE, !.template.stateFrom = [t \in Task |-> NoTask], !.template.maxSteps = [t \in Task |-> 1],
                          !.template.completion = [t \in Task |-> TRUE], !.roots = <<t2, t1>>, !.maxConcurrency = 1]
Apart2 == [Windows EXCEPT !.automatic = FALSE, !.maxConcurrency = 2]
FlawedGoals == {[Chain2 EXCEPT !.template.dependsOn[t1] = {t2}], [Chain2 EXCEPT !.template.inputs[t1] = 2],
                [Chain2 EXCEPT !.template.order = <<t2>>]}
SomeGoals == {Chain2, Types, Windows, Apart2, [Windows EXCEPT !.excluded = {t2}, !.maxTasks = 1]} \cup FlawedGoals

Sparse == [met |-> FALSE, rich |-> FALSE, bank |-> FALSE]
SomeViews == {Sparse, [Sparse EXCEPT !.met = TRUE], [Sparse EXCEPT !.bank = TRUE, !.rich = TRUE]}

Leaves == <<Terminal(9, "done"), Terminal(10, "escalate")>>
SomeSurfaces == {[i \in 1..7 |-> Action(i)] \o Leaves, [i \in 1..4 |-> Action(i)] \o Leaves, <<Action(1)>> \o Leaves,
                 <<Action(1), Action(1)>>, <<Action(1)>>, <<Action(1)>> \o [i \in 1..6 |-> Terminal(10 + i, "wait")]}

\* Two streams of one resource, the first with a condition, a source and a
\* reader.
BothOnApp == [s \in Sub |-> app]
ReadsFirst == [t \in Reader |-> s1]
Reports == [s \in Sub |-> IF s = s1 THEN 2 ELSE 0]
NoActor == open = FALSE /\ NoStreams

TasksInit ==
  \/ PlanInit /\ NoGoal /\ NoSelection /\ request = Chain2 /\ NoActor
  \/ NoPlan /\ plan = Chain /\ GoalInit /\ NoSelection /\ NoActor
  \/ NoPlan /\ plan = Chain /\ NoGoal /\ request = Chain2 /\ JevInit /\ NoActor
  \/ NoPlan /\ plan = Chain /\ NoGoal /\ request = Chain2 /\ NoSelection /\ Init
TasksNext ==
  \/ PlanNext /\ UNCHANGED <<goalVars, jevVars, vars>>
  \/ GoalNext /\ UNCHANGED <<planVars, jevVars, vars>>
  \/ JevNext /\ UNCHANGED <<planVars, goalVars, vars>>
  \/ Next /\ UNCHANGED <<planVars, goalVars, jevVars>>
TasksSpec ==
  /\ TasksInit /\ [][TasksNext]_<<planVars, goalVars, jevVars, vars>>
  /\ PlanFairness /\ GoalFairness /\ JevFairness /\ Fairness

\* Every plan, every goal and every decision comes to its end: no node, worker
\* or question is waited for in vain.
EveryTaskEnds == PlanEnds /\ GoalEnds /\ SelectionEnds
=============================================================================
