---------------------------- MODULE GoalExecutor ----------------------------
(***************************************************************************)
(* execute_goal: src/goal-executor.ts.  A goal is a graph of tasks, given  *)
(* or allocated by the model to waves of windows; each task is a worker    *)
(* that observes, decides and acts until its condition holds, the model    *)
(* calls it done, a gate fails, or its step budget is spent.               *)
(*                                                                         *)
(* What a worker sees is a view: whether its condition holds, whether      *)
(* there is anything to act on, and whether the bank of stable buttons is  *)
(* there.  What happens between two awaits is one step.                    *)
(***************************************************************************)
EXTENDS JevPolicy

CONSTANTS Task,       \* ids of tasks, and of the windows of an automatic plan
          NoTask,
          Goals,      \* the requests of the instance
          Views       \* what the workers of the instance may see

VARIABLES request,   \* the call's parameters
          goal,      \* phase of the call
          tasks,     \* the validated tasks
          due,       \* the scheduler's loop has to run
          job,       \* the worker of every task
          results,   \* tasks whose trace the scheduler has taken
          stopped    \* the signal of the call is aborted

goalVars == <<request, goal, tasks, due, job, results, stopped>>

MaxTasks == 32
RecentActions == 6
Settling == 4      \* re-observations after 100, 200, 400 and 800 ms

View == [met : BOOLEAN, rich : BOOLEAN, bank : BOOLEAN]
Clamp(value, low, high) == IF value < low THEN low ELSE IF value > high THEN high ELSE value

\* Tasks: their order, dependencies, the task a state is taken from, how many
\* of root, stateId and stateFrom they give, and the options of a worker.
GoalTasks == [order : Seq(Task), dependsOn : [Task -> SUBSET (Task \cup {NoTask})], stateFrom : [Task -> Task \cup {NoTask}],
              inputs : [Task -> 0..3], completion : [Task -> BOOLEAN], maxSteps : [Task -> Int],
              maxBatch : [Task -> Int], objective : [Task -> [keys : Seq(STRING), clears : BOOLEAN]]]

\* A request: its tasks, or with an automatic plan what every window's worker is
\* given (its root, and no state of another) and the windows that are found.
GoalRequest == [automatic : BOOLEAN, template : GoalTasks, maxConcurrency : Int, roots : Seq(Task),
                excluded : SUBSET Task, maxTasks : Int, maxWaves : Int]

ASSUME GoalAssumption ==
  /\ NoTask \notin Task
  /\ Goals \subseteq GoalRequest
  /\ \A g \in Goals : g.automatic =>
       \A t \in Task : g.template.inputs[t] = 1 /\ g.template.stateFrom[t] = NoTask

Dependencies(t) == tasks.dependsOn[t] \cup ({tasks.stateFrom[t]} \ {NoTask})
Members == Range(tasks.order)
MaxSteps(t) == Clamp(tasks.maxSteps[t], 1, 30)
MaxBatch(t) == Clamp(tasks.maxBatch[t], 1, 8)
Concurrency == Clamp(request.maxConcurrency, 1, 16)

\* Depth-first search finds no task on its own path: peeling leaves nothing.
Peeled[round \in 0..MaxTasks] ==
  IF round = 0 THEN {} ELSE LET before == Peeled[round - 1] IN {t \in Members : Dependencies(t) \subseteq before}

ValidTasks ==
  /\ Len(tasks.order) \in 1..MaxTasks
  /\ IsInjective(tasks.order)
  /\ \A t \in Members : tasks.inputs[t] <= 1 /\ Dependencies(t) \subseteq Members \ {t}
  /\ Peeled[Len(tasks.order)] = Members

(***************************************************************************)
(* Automatic planning.                                                     *)
(***************************************************************************)
\* The first sixteen windows that are not excluded.
Eligible(roots) ==
  LET allowed == {i \in DOMAIN roots : roots[i] \notin request.excluded}
  IN {roots[i] : i \in {j \in allowed : Cardinality(allowed \cap 1..(j - 1)) < 16}}

\* The selected windows by confidence, margin and wave.  Of an answer's
\* confidence and margin, sure says whether both pass their gates: what they
\* are beyond that may bring the windows into any order.
Rankings(roots, answers) == SetToSeqs(SelectedRoots(roots, answers))
Retained(ranking) == SubSeq(ranking, 1, Clamp(Len(ranking), 0, Clamp(request.maxTasks, 1, 16)))
NormalWave(kept, answers, r) == Cardinality({answers[q].wave : q \in Range(kept)} \cap 0..(answers[r].wave - 1))

\* A worker per retained window, each behind all of the wave before its own.
Allocated(kept, answers) ==
  [request.template EXCEPT
     !.order = kept,
     !.dependsOn = [t \in Task |-> IF t \notin Range(kept) THEN {}
                    ELSE {q \in Range(kept) : NormalWave(kept, answers, q) = NormalWave(kept, answers, t) - 1}]]

(***************************************************************************)
(* Workers.                                                                *)
(***************************************************************************)
TaskStatus == {"pending", "active", "succeeded", "failed", "blocked", "escalated", "cancelled"}
NoView == [met |-> FALSE, rich |-> FALSE, bank |-> FALSE]
NewJob == [status |-> "pending", doing |-> "nothing", step |-> 0, view |-> NoView, recent |-> <<>>,
           batch |-> <<>>, settled |-> 0, worked |-> FALSE, acts |-> 0, typed |-> 0]

\* Of a worker that has ended, its status and what it saw last remain.
EndJob(j, status) == [j EXCEPT !.status = status, !.doing = "nothing", !.recent = <<>>, !.batch = <<>>,
                               !.settled = 0, !.worked = FALSE, !.step = 0]
\* An error of anything awaited.
Fail(j) == EndJob(j, IF stopped THEN "cancelled" ELSE "failed")

\* The candidates of a view; the bank has a button for every key of the objective.
CandidatesOf(t, view) ==
  LET keys == Keys(tasks.objective[t], <<>>)
      new == {i \in DOMAIN keys : \A j \in 1..(i - 1) : keys[j] # keys[i]}
  IN (IF view.bank THEN {Button(10 + i, keys[i]) : i \in new} ELSE {})
     \cup (IF view.rich THEN {Action(1)} ELSE {})
     \cup (IF tasks.completion[t] THEN {} ELSE {Terminal(2, "done")})
     \cup {Terminal(3, "wait"), Terminal(4, "escalate")}

HasTarget(t, view) == \E c \in CandidatesOf(t, view) : c.kind = "action"
Satisfied(t, view) == tasks.completion[t] /\ view.met

\* Mutant: one step too many.
LookOnceMore(t, j, view, step) ==
  LET seen == [j EXCEPT !.view = view, !.step = step, !.settled = 0]
  IN IF step > MaxSteps(t) THEN EndJob(seen, "escalated") ELSE IF stopped THEN EndJob(seen, "cancelled")
     ELSE IF Satisfied(t, view) THEN EndJob(seen, "succeeded") ELSE [seen EXCEPT !.doing = "decide"]

\* The top of the worker's loop, with what it has just seen.
Look(t, j, view, step) ==
  LET seen == [j EXCEPT !.view = view, !.step = step, !.settled = 0]
  IN IF step >= MaxSteps(t) THEN EndJob(seen, "escalated")
     ELSE IF stopped THEN EndJob(seen, "cancelled")
     ELSE IF Satisfied(t, view) THEN EndJob(seen, "succeeded")
     ELSE [seen EXCEPT !.doing = "decide"]

\* After an action that worked, a view that shows nothing to act on settles
\* first: a delay, which an abort ends, and another observation.
Onward(t, j, view) ==
  IF j.worked /\ j.settled < Settling /\ ~HasTarget(t, view) /\ ~Satisfied(t, view)
  THEN IF stopped THEN EndJob(j, "cancelled")
       ELSE [j EXCEPT !.view = view, !.doing = "settle", !.settled = @ + 1]
  ELSE Look(t, j, view, j.step + 1)

\* The last actions a decision is told of.
Remember(recent, batch, executed) ==
  LET all == recent \o [i \in 1..executed |-> batch[i].control]
  IN SubSeq(all, Clamp(Len(all) - RecentActions + 1, 1, Len(all) + 1), Len(all))

IsCompiled(batch) == Len(batch) > 1

JobObserves(t) ==
  /\ job[t].doing = "observe"
  /\ \E view \in Views : job' = [job EXCEPT ![t] = Look(t, @, view, 0)]
  /\ UNCHANGED <<request, goal, tasks, due, results, stopped>>

\* The decision: the compiled sequence, or a candidate the model is sure of or not.
JobDecides(t) ==
  /\ job[t].doing = "decide"
  /\ LET candidates == CandidatesOf(t, job[t].view)
         compiled == CompiledSequence(tasks.objective[t], job[t].recent, candidates, MaxBatch(t))
     IN \/ /\ compiled # <<>>
           /\ job' = [job EXCEPT ![t].doing = "act", ![t].batch = compiled]
        \/ /\ compiled = <<>>
           /\ \E choice \in candidates, sure \in BOOLEAN :
                job' = [job EXCEPT ![t] =
                  IF ~sure \/ choice.kind = "escalate" THEN EndJob(@, "escalated")
                  ELSE IF choice.kind = "done" THEN EndJob(@, "succeeded")
                  ELSE [@ EXCEPT !.doing = "act", !.batch = <<choice>>]]
  /\ UNCHANGED <<request, goal, tasks, due, results, stopped>>

\* act_ui answers how many actions were executed and, unless the window is
\* gone, shows what they led to.
JobActs(t) ==
  /\ job[t].doing = "act"
  /\ \E executed \in 1..Len(job[t].batch), worked, terminal \in BOOLEAN, view \in Views :
       LET j == [job[t] EXCEPT
                   !.recent = Remember(@, job[t].batch, executed), !.batch = <<>>, !.worked = worked, !.acts = @ + 1,
                   !.typed = IF IsCompiled(job[t].batch) /\ executed = Len(job[t].batch) THEN @ + 1 ELSE @]
       IN job' = [job EXCEPT ![t] = IF terminal THEN [j EXCEPT !.doing = "refresh"] ELSE Onward(t, j, view)]
  /\ UNCHANGED <<request, goal, tasks, due, results, stopped>>

JobLooksAgain(t) ==
  /\ job[t].doing \in {"refresh", "settle"}
  /\ \E view \in Views : job' = [job EXCEPT ![t] = Onward(t, @, view)]
  /\ UNCHANGED <<request, goal, tasks, due, results, stopped>>

\* Whatever the worker awaits fails, or the abort ends a delay.
JobFails(t) ==
  /\ job[t].doing # "nothing"
  /\ job' = [job EXCEPT ![t] = Fail(@)]
  /\ UNCHANGED <<request, goal, tasks, due, results, stopped>>

(***************************************************************************)
(* The scheduler.                                                          *)
(***************************************************************************)
\* Workers whose promise the scheduler has not taken yet.
Active(j, taken) == {t \in Members : j[t].status # "pending" /\ t \notin taken}

\* One task of a pass: acc holds the jobs and the results.
Admit(acc, t) ==
  IF \/ Cardinality(Active(acc.job, acc.results)) >= Concurrency
     \/ acc.job[t].status # "pending"
     \/ ~(Dependencies(t) \subseteq acc.results)
  THEN acc
  ELSE IF \E d \in Dependencies(t) : acc.job[d].status # "succeeded"
       THEN [job |-> [acc.job EXCEPT ![t].status = "blocked"], results |-> acc.results \cup {t}]
       ELSE [acc EXCEPT !.job[t] = IF stopped THEN EndJob(@, "cancelled")
                                   ELSE [@ EXCEPT !.status = "active", !.doing = "observe"]]

\* A pass over the tasks.
Admits(acc) ==
  LET admitted[k \in 0..Len(tasks.order)] == IF k = 0 THEN acc ELSE Admit(admitted[k - 1], tasks.order[k])
  IN admitted[Len(tasks.order)]

GoalInit ==
  /\ request \in Goals
  /\ goal = "new" /\ due = TRUE /\ stopped = FALSE
  /\ tasks = request.template
  /\ job = [t \in Task |-> NewJob] /\ results = {}

NoGoal ==
  /\ request \in Goals
  /\ goal = "idle" /\ due = FALSE /\ stopped = FALSE
  /\ tasks = request.template
  /\ job = [t \in Task |-> NewJob] /\ results = {}

GoalOpens ==
  /\ goal = "new"
  /\ goal' = IF request.automatic THEN "planning" ELSE IF ValidTasks THEN "open" ELSE "invalid"
  /\ UNCHANGED <<request, tasks, due, job, results, stopped>>

\* The windows are found, or the allowlisted ones observed, and allocated; a
\* plan with a retained window below the gates, or with none, is escalated.
Allocates ==
  /\ goal = "planning"
  /\ Eligible(request.roots) # {}
  /\ \E answers \in [Eligible(request.roots) -> PlanningChoices(request.maxWaves)] :
     \E ranking \in Rankings(Eligible(request.roots), answers) :
       LET kept == Retained(ranking) IN
         IF kept = <<>> \/ \E r \in Range(kept) : answers[r].sure = 0
         THEN goal' = "escalated" /\ UNCHANGED tasks
         ELSE goal' = "planned" /\ tasks' = Allocated(kept, answers)
  /\ UNCHANGED <<request, due, job, results, stopped>>

\* No window is eligible, one cannot be observed, or the model does not answer.
PlanningFails ==
  /\ goal = "planning"
  /\ goal' = "rejected"
  /\ UNCHANGED <<request, tasks, due, job, results, stopped>>

PlannedOpens ==
  /\ goal = "planned"
  /\ goal' = IF ValidTasks THEN "open" ELSE "invalid"
  /\ UNCHANGED <<request, tasks, due, job, results, stopped>>

\* The loop: again at once as long as nothing is active.
GoalPass ==
  /\ goal = "open" /\ due
  /\ results # Members
  /\ LET after == Admits([job |-> job, results |-> results]) IN
       /\ job' = after.job
       /\ results' = after.results
       /\ due' = (Active(after.job, after.results) = {})
       /\ goal' = IF due' /\ after.job = job THEN "stuck" ELSE "open"
  /\ UNCHANGED <<request, tasks, stopped>>

\* Mutant: the loop is not woken.
GoalCollectsAsleep(t) ==
  /\ goal = "open" /\ ~due /\ t \in Active(job, results) /\ job[t].doing = "nothing"
  /\ results' = results \cup {t}
  /\ UNCHANGED <<request, goal, tasks, due, job, stopped>>

\* The race gives the trace of one finished worker.
GoalCollects(t) ==
  /\ goal = "open" /\ ~due
  /\ t \in Active(job, results) /\ job[t].doing = "nothing"
  /\ results' = results \cup {t}
  /\ due' = TRUE
  /\ UNCHANGED <<request, goal, tasks, job, stopped>>

Verdict ==
  LET with(statuses) == {t \in Members : job[t].status \in statuses} IN
  IF with({"cancelled"}) # {} THEN "cancelled"
  ELSE IF with({"succeeded"}) = Members THEN "succeeded"
  ELSE IF with({"succeeded"}) # {} THEN "partial"
  ELSE IF with({"escalated"}) # {} /\ with({"failed", "blocked"}) = {} THEN "escalated"
  ELSE "failed"

GoalAnswers ==
  /\ goal = "open" /\ due
  /\ results = Members
  /\ goal' = Verdict
  /\ UNCHANGED <<request, tasks, due, job, results, stopped>>

GoalStops ==
  /\ goal \in {"planning", "open"}
  /\ ~stopped
  /\ stopped' = TRUE
  /\ UNCHANGED <<request, goal, tasks, due, job, results>>

JobStep(t) == JobObserves(t) \/ JobDecides(t) \/ JobActs(t) \/ JobLooksAgain(t) \/ JobFails(t)
GoalCallStep == GoalOpens \/ Allocates \/ PlanningFails \/ PlannedOpens \/ GoalPass \/ GoalAnswers \/ \E t \in Task : GoalCollects(t)
GoalNext == GoalCallStep \/ GoalStops \/ \E t \in Task : JobStep(t)

\* The tools and the model answer, with a result or an error.
GoalFairness == WF_goalVars(GoalCallStep) /\ \A t \in Task : WF_goalVars(JobStep(t))
GoalSpec == GoalInit /\ [][GoalNext]_goalVars /\ GoalFairness

(***************************************************************************)
(* Properties.                                                             *)
(***************************************************************************)
GoalTypeOK ==
  /\ goal \in {"idle", "new", "planning", "planned", "open", "stuck", "invalid", "rejected"}
              \cup {"succeeded", "partial", "failed", "escalated", "cancelled"}
  /\ results \subseteq Task /\ due \in BOOLEAN /\ stopped \in BOOLEAN
  /\ \A t \in Task : /\ job[t].status \in TaskStatus
                     /\ job[t].doing \in {"nothing", "observe", "decide", "act", "refresh", "settle"}
                     /\ job[t].view \in View /\ Len(job[t].recent) <= RecentActions /\ job[t].settled \in 0..Settling

\* A worker starts only once everything its task depends on, and with an
\* automatic plan every window of an earlier wave, has succeeded; there are
\* never more than maxConcurrency; no worker acts more often than its budget
\* of steps; a valid goal is never stuck, an automatic one never invalid; and
\* the call's verdict says succeeded only if every task did, of which those
\* with a condition had it in view.
GoalSound ==
  goal # "idle" =>
    /\ \A t \in Members : job[t].status \notin {"pending", "blocked"} =>
         \A d \in Dependencies(t) : job[d].status = "succeeded" /\ d \in results
    /\ goal = "open" => Cardinality(Active(job, results)) <= Concurrency
    /\ \A t \in Members : job[t].acts <= MaxSteps(t)
    /\ goal # "stuck" /\ ~(request.automatic /\ goal = "invalid")
    /\ goal = "succeeded" => \A t \in Members : job[t].status = "succeeded" /\ (tasks.completion[t] => job[t].view.met)

\* "A delivered stable sequence was compiled a second time" is what
\* scripts/check-jev-policy.mjs rules out.
SequenceTypedOnce == \A t \in Task : job[t].typed <= 1

\* Every goal is answered.
GoalEnds == goal = "new" ~> goal \notin {"new", "planning", "planned", "open"}
=============================================================================
