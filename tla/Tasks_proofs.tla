----------------------------- MODULE Tasks_proofs -----------------------------
(***************************************************************************)
(* Theorems about ActionPlan, GoalExecutor and JevPolicy, for every set of *)
(* requests: what a plan or a goal does, and what it tells of itself, fits *)
(* its dependencies, no node takes effect twice and no worker oversteps    *)
(* its budget; a decision chooses what was submitted, and asked of.        *)
(***************************************************************************)
EXTENDS ActionPlan, GoalExecutor, FiniteSetTheorems, SequenceTheorems, WellFoundedInduction, TLAPS

PlanSafety == PlanInit /\ [][PlanNext]_planVars

--------------------------------------------------------------------------------
(* The invariant.                                                            *)

NodeTrace == [status : Status, doing : {"nothing", "act", "refresh", "thrown"}, attempt : 0..3,
              state : State, successor : State]
Settled == {"succeeded", "failed", "cancelled", "blocked"}
RunningIn(t) == {n \in Nodes : t[n].doing \in {"act", "refresh"}}

\* The record of a node fits itself.
NodeOK(n, r) ==
  /\ r \in NodeTrace
  /\ n \notin Nodes => r = Fresh
  /\ r.status = "running" <=> r.doing # "nothing"
  /\ r.status \in {"pending", "blocked"} => r.attempt = 0
  /\ r.status \in {"running", "succeeded", "failed"} => r.attempt > 0
  /\ r.doing = "refresh" => r.attempt < MaxAttempts(n)
  /\ r.doing = "thrown" \/ r.status = "cancelled" => aborted
  /\ r.status = "succeeded" => r.successor = Made(n, "successor", r.attempt)

\* The states a node may have been attempted on.
Bases(n, t) == {Made(n, "refreshed", k) : k \in 1..3}
                 \cup {IF plan.stateId[n] THEN Made(n, "given", 0)
                       ELSE Made(plan.stateFrom[n], "successor", t[plan.stateFrom[n]].attempt)}

\* The records of the nodes it depends on are what it has been started or blocked for.
DepsOK(n, t) ==
  /\ t[n].attempt > 0 => (\A d \in plan.dependsOn[n] : t[d].status = "succeeded") /\ t[n].state \in Bases(n, t)
  /\ t[n].status = "blocked" => \E d \in plan.dependsOn[n] : t[d].status \in {"failed", "cancelled", "blocked"}

TraceOK(t) ==
  /\ t \in [Node -> NodeTrace]
  /\ \A n \in Node : NodeOK(n, t[n])
  /\ \A n \in Nodes : DepsOK(n, t)
  /\ Cardinality(RunningIn(t)) <= MaxConcurrency

\* What took effect, and was not denied, has settled its node.
LandedOK == /\ landed \in [Node -> Nat]
            /\ \A n \in Node : landed[n] <= 1 /\ (landed[n] > 0 => trace[n].status \in Settled)

PhaseOK ==
  /\ phase \in {"new", "invalid", "open", "draining", "answered", "rejected"}
  /\ phase \in {"new", "invalid"} => trace = [n \in Node |-> Fresh]
  /\ phase \notin {"new", "invalid"} => Valid
  /\ phase = "draining" => aborted
  /\ phase \in {"draining", "answered"} => \A n \in Nodes : trace[n].status # "pending"
  /\ phase = "answered" => RunningIn(trace) = {} /\ (~aborted => \A n \in Nodes : trace[n].status \in Settled)

PlanInv == plan \in Plans /\ aborted \in BOOLEAN /\ woken \in BOOLEAN /\ TraceOK(trace) /\ LandedOK /\ PhaseOK

--------------------------------------------------------------------------------
(* Facts about numbers and functions.                                        *)

\* A set of numbers has a least one.
LEMMA LeastNumber ==
  ASSUME NEW T, T \subseteq Nat, T # {}
  PROVE  \E m \in T : \A k \in T : m <= k
<1>1. PICK m \in T : \A k \in T : <<k, m>> \notin OpToRel(<, Nat)
  BY WFMin, NatLessThanWellFounded, Zenon
<1>2. \A k \in T : k < m => <<k, m>> \in OpToRel(<, Nat)
  BY DEF OpToRel
<1>3. \A k \in T : ~(k < m)
  BY <1>1, <1>2
<1> QED
  BY <1>3

\* Induction, as a fact about a set of numbers.
LEMMA SetInduction ==
  ASSUME NEW S, 0 \in S, \A n \in Nat : n \in S => n + 1 \in S
  PROVE  \A n \in Nat : n \in S
<1> DEFINE T == {n \in Nat : n \notin S}
<1> SUFFICES ASSUME T # {} PROVE FALSE
  OBVIOUS
<1>1. PICK m \in T : \A k \in T : m <= k
  <2> HIDE DEF T
  <2>1. T \subseteq Nat
    BY DEF T
  <2> QED
    BY <2>1, LeastNumber
<1>2. m \in Nat /\ m # 0 /\ m - 1 \in Nat
  OBVIOUS
<1>3. m - 1 \notin T
  <2> HIDE DEF T
  <2> QED
    BY <1>1, <1>2
<1>4. (m - 1) + 1 \in S
  BY <1>2, <1>3
<1> QED
  BY <1>2, <1>4


--------------------------------------------------------------------------------
(* The recursive functions have solutions.                                   *)

VisitedUpTo(f, n) ==
  f = [round \in 0 .. n |-> IF round = 0 THEN {}
                            ELSE LET before == f[round - 1] IN {m \in Nodes : plan.dependsOn[m] \subseteq before}]

LEMMA VisitedExists ==
  ASSUME NEW n \in Nat
  PROVE  \E f : VisitedUpTo(f, n)
<1> DEFINE Next(b) == {m \in Nodes : plan.dependsOn[m] \subseteq b}
           S == {m \in Nat : \E f : VisitedUpTo(f, m)}
<1>0. \A f, m : VisitedUpTo(f, m) <=> f = [k \in 0 .. m |-> IF k = 0 THEN {} ELSE Next(f[k - 1])]
  BY DEF VisitedUpTo
<1> HIDE DEF Next
<1>1. 0 \in S
  <2> DEFINE f == [k \in 0 .. 0 |-> {}]
  <2>1. f = [k \in 0 .. 0 |-> IF k = 0 THEN {} ELSE Next(f[k - 1])]
    OBVIOUS
  <2> HIDE DEF f
  <2> QED
    BY <1>0, <2>1
<1>2. ASSUME NEW m \in Nat, m \in S PROVE m + 1 \in S
  <2>1. PICK f : VisitedUpTo(f, m)
    BY <1>2
  <2> DEFINE v == Next(f[m])
             g == [k \in 0 .. m + 1 |-> IF k = m + 1 THEN v ELSE f[k]]
  <2>2. \A k \in 0 .. m : f[k] = IF k = 0 THEN {} ELSE Next(f[k - 1])
    <3>1. f = [k \in 0 .. m |-> IF k = 0 THEN {} ELSE Next(f[k - 1])]
      BY <1>0, <2>1, Zenon
    <3> QED
      BY <3>1, Zenon
  <2>3. ASSUME NEW k \in 0 .. m + 1
        PROVE  g[k] = IF k = 0 THEN {} ELSE Next(g[k - 1])
    <3>1. CASE k = m + 1
      <4>1. k # 0 /\ k - 1 = m /\ m \in 0 .. m + 1 /\ m # m + 1
        BY <3>1
      <4>2. g[k] = v /\ g[k - 1] = f[m]
        BY <3>1, <4>1
      <4> QED
        BY <3>1, <4>1, <4>2
    <3>2. CASE k # m + 1
      <4>1. k \in 0 .. m /\ g[k] = f[k]
        BY <3>2
      <4>2. k # 0 => g[k - 1] = f[k - 1]
        BY <4>1
      <4> HIDE DEF g
      <4> QED
        BY <4>1, <4>2, <2>2
    <3> QED
      BY <3>1, <3>2
  <2>4. g = [k \in 0 .. m + 1 |-> IF k = 0 THEN {} ELSE Next(g[k - 1])]
    <3>1. g = [k \in 0 .. m + 1 |-> g[k]]
      OBVIOUS
    <3> HIDE DEF g
    <3> QED
      BY <2>3, <3>1
  <2>5. VisitedUpTo(g, m + 1)
    <3> HIDE DEF g
    <3> QED
      BY <1>0, <2>4, Zenon
  <2> HIDE DEF g
  <2> QED
    BY <2>5
<1>3. n \in S
  <2> HIDE DEF S
  <2> QED
    BY <1>1, <1>2, SetInduction
<1> QED
  BY <1>3

LEMMA VisitedIs ==
  /\ Visited[0] = {}
  /\ \A k \in 1 .. MaxPlanNodes : Visited[k] = {m \in Nodes : plan.dependsOn[m] \subseteq Visited[k - 1]}
<1> DEFINE Next(b) == {m \in Nodes : plan.dependsOn[m] \subseteq b}
<1>1. MaxPlanNodes \in Nat
  BY DEF MaxPlanNodes
<1>2. Visited = CHOOSE f : VisitedUpTo(f, MaxPlanNodes)
  BY DEF Visited, VisitedUpTo
<1>3. VisitedUpTo(Visited, MaxPlanNodes)
  BY <1>1, <1>2, VisitedExists
<1>4. Visited = [k \in 0 .. MaxPlanNodes |-> IF k = 0 THEN {} ELSE Next(Visited[k - 1])]
  BY <1>3, Zenon DEF VisitedUpTo
<1> HIDE DEF Next
<1>5. \A k \in 0 .. MaxPlanNodes : Visited[k] = IF k = 0 THEN {} ELSE Next(Visited[k - 1])
  BY <1>4, Zenon
<1>6. Visited[0] = {} /\ \A k \in 1 .. MaxPlanNodes : Visited[k] = Next(Visited[k - 1])
  BY <1>1, <1>5
<1> QED
  BY <1>6 DEF Next

VisitsUpTo(f, t, n) == f = [k \in 0 .. n |-> IF k = 0 THEN t ELSE Visit(f[k - 1], plan.order[k])]

LEMMA VisitsExist ==
  ASSUME NEW t, NEW n \in Nat
  PROVE  \E f : VisitsUpTo(f, t, n)
<1> DEFINE S == {m \in Nat : \E f : VisitsUpTo(f, t, m)}
<1>1. 0 \in S
  <2> DEFINE f == [k \in 0 .. 0 |-> t]
  <2>1. VisitsUpTo(f, t, 0)
    BY DEF VisitsUpTo
  <2> QED
    BY <2>1
<1>2. ASSUME NEW m \in Nat, m \in S PROVE m + 1 \in S
  <2>1. PICK f : VisitsUpTo(f, t, m)
    BY <1>2
  <2> DEFINE v == Visit(f[m], plan.order[m + 1])
             g == [k \in 0 .. m + 1 |-> IF k = m + 1 THEN v ELSE f[k]]
  <2>2. \A k \in 0 .. m : f[k] = IF k = 0 THEN t ELSE Visit(f[k - 1], plan.order[k])
    BY <2>1, Zenon DEF VisitsUpTo
  <2>3. ASSUME NEW k \in 0 .. m + 1
        PROVE  g[k] = IF k = 0 THEN t ELSE Visit(g[k - 1], plan.order[k])
    <3>1. CASE k = m + 1
      <4>1. k # 0 /\ k - 1 = m /\ m \in 0 .. m + 1 /\ m # m + 1
        BY <3>1
      <4>2. g[k] = v /\ g[k - 1] = f[m]
        BY <3>1, <4>1
      <4> QED
        BY <3>1, <4>1, <4>2
    <3>2. CASE k # m + 1
      <4>1. k \in 0 .. m /\ g[k] = f[k]
        BY <3>2
      <4>2. k # 0 => g[k - 1] = f[k - 1]
        BY <4>1
      <4> HIDE DEF g
      <4> QED
        BY <4>1, <4>2, <2>2
    <3> QED
      BY <3>1, <3>2
  <2>4. g = [k \in 0 .. m + 1 |-> IF k = 0 THEN t ELSE Visit(g[k - 1], plan.order[k])]
    <3>1. g = [k \in 0 .. m + 1 |-> g[k]]
      OBVIOUS
    <3> HIDE DEF g
    <3> QED
      BY <2>3, <3>1
  <2>5. VisitsUpTo(g, t, m + 1)
    BY <2>4, Zenon DEF VisitsUpTo
  <2> HIDE DEF g
  <2> QED
    BY <2>5
<1>3. n \in S
  <2> HIDE DEF S
  <2> QED
    BY <1>1, <1>2, SetInduction
<1> QED
  BY <1>3

LEMMA VisitsAre ==
  ASSUME NEW t, Len(plan.order) \in Nat
  PROVE  \E f : /\ Visits(t) = f[Len(plan.order)] /\ f[0] = t
                /\ \A k \in 1 .. Len(plan.order) : f[k] = Visit(f[k - 1], plan.order[k])
<1> DEFINE N == Len(plan.order)
           visited == CHOOSE f : VisitsUpTo(f, t, N)
<1>1. N \in Nat
  OBVIOUS
<1>2. VisitsUpTo(visited, t, N)
  <2> HIDE DEF N
  <2> QED
    BY <1>1, VisitsExist
<1>3. Visits(t) = visited[N]
  BY DEF Visits, VisitsUpTo
<1> HIDE DEF visited, N
<1>4. \A k \in 0 .. N : visited[k] = IF k = 0 THEN t ELSE Visit(visited[k - 1], plan.order[k])
  BY <1>2, Zenon DEF VisitsUpTo
<1>5. visited[0] = t
  BY <1>1, <1>4
<1>6. \A k \in 1 .. N : visited[k] = Visit(visited[k - 1], plan.order[k])
  BY <1>1, <1>4
<1> QED
  BY <1>3, <1>5, <1>6 DEF N

--------------------------------------------------------------------------------
(* A plan that passes validation has no cycle: among any of its nodes there  *)
(* is one that depends on none of them.                                      *)
LEMMA SomeNodeIsFree ==
  ASSUME Valid, NEW U, U \subseteq Nodes, U # {}
  PROVE  \E n \in U : plan.dependsOn[n] \cap U = {}
<1> SUFFICES ASSUME \A n \in U : plan.dependsOn[n] \cap U # {} PROVE FALSE
  OBVIOUS
<1> DEFINE S == {k \in Nat : k <= MaxPlanNodes => Visited[k] \cap U = {}}
<1>1. MaxPlanNodes \in Nat
  BY DEF MaxPlanNodes
<1>2. 0 \in S
  BY VisitedIs
<1>3. ASSUME NEW k \in Nat, k \in S PROVE k + 1 \in S
  <2> SUFFICES ASSUME k + 1 <= MaxPlanNodes, NEW n \in U, n \in Visited[k + 1] PROVE FALSE
    OBVIOUS
  <2>1. k + 1 \in 1 .. MaxPlanNodes /\ (k + 1) - 1 = k /\ k <= MaxPlanNodes
    BY <1>1
  <2>2. plan.dependsOn[n] \subseteq Visited[k]
    BY <2>1, VisitedIs
  <2>3. Visited[k] \cap U = {}
    BY <1>3, <2>1
  <2> QED
    BY <2>2, <2>3
<1>4. \A k \in Nat : k \in S
  <2> HIDE DEF S
  <2> QED
    BY <1>2, <1>3, SetInduction
<1>5. Len(plan.order) \in 1 .. MaxPlanNodes /\ Visited[Len(plan.order)] = Nodes
  BY DEF Valid
<1>6. Len(plan.order) \in Nat /\ Len(plan.order) <= MaxPlanNodes
  BY <1>1, <1>5
<1>7. Nodes \cap U = {}
  BY <1>4, <1>5, <1>6
<1> QED
  BY <1>7

--------------------------------------------------------------------------------
(* What a request bounds.                                                    *)

LEMMA PlanFacts ==
  ASSUME plan \in Request
  PROVE  /\ Len(plan.order) \in Nat
         /\ Nodes \subseteq Node /\ IsFiniteSet(Nodes)
         /\ \A k \in 1 .. Len(plan.order) : plan.order[k] \in Nodes
         /\ \A n \in Nodes : \E k \in 1 .. Len(plan.order) : plan.order[k] = n
         /\ MaxConcurrency \in 1 .. 32
         /\ \A n \in Node : MaxAttempts(n) \in 1 .. 3 /\ plan.stateId[n] \in BOOLEAN
<1>1. /\ plan.order \in Seq(Node) /\ plan.maxConcurrency \in Int /\ plan.maxAttempts \in [Node -> Int]
      /\ plan.stateId \in [Node -> BOOLEAN]
  BY DEF Request
<1> DEFINE s == plan.order
<1>2. s \in Seq(Node)
  BY <1>1
<1>3. Nodes = {s[k] : k \in DOMAIN s}
  BY DEF Nodes, Range
<1> HIDE DEF s
<1>4. Len(s) \in Nat /\ DOMAIN s = 1 .. Len(s) /\ \A k \in 1 .. Len(s) : s[k] \in Node
  BY <1>2
<1>5. Nodes \subseteq Node
  BY <1>3, <1>4
<1>6. /\ \A k \in 1 .. Len(s) : s[k] \in Nodes
      /\ \A n \in Nodes : \E k \in 1 .. Len(s) : s[k] = n
  BY <1>3, <1>4
<1>7. IsFiniteSet(Nodes)
  <2> DEFINE f == [k \in 1 .. Len(s) |-> s[k]]
  <2>1. IsFiniteSet(1 .. Len(s))
    BY <1>4, FS_Interval
  <2>2. f \in Surjection(1 .. Len(s), Nodes)
    BY <1>6 DEF Surjection
  <2> HIDE DEF f
  <2> QED
    BY <2>1, <2>2, FS_Surjection
<1>8. MaxConcurrency \in 1 .. 32
  <2>1. plan.maxConcurrency \in Int
    BY <1>1
  <2> QED
    BY <2>1 DEF MaxConcurrency, Bounded
<1>9. \A n \in Node : MaxAttempts(n) \in 1 .. 3 /\ plan.stateId[n] \in BOOLEAN
  <2> TAKE n \in Node
  <2>1. plan.maxAttempts[n] \in Int /\ plan.stateId[n] \in BOOLEAN
    BY <1>1
  <2> QED
    BY <2>1 DEF MaxAttempts, Bounded
<1> QED
  BY <1>4, <1>5, <1>6, <1>7, <1>8, <1>9 DEF s

LEMMA ValidFacts ==
  ASSUME Valid, NEW n \in Nodes
  PROVE  /\ plan.dependsOn[n] \subseteq Nodes /\ n \notin plan.dependsOn[n]
         /\ plan.stateId[n] = (plan.stateFrom[n] = Gone)
         /\ plan.stateFrom[n] # Gone => plan.stateFrom[n] \in plan.dependsOn[n]
BY DEF Valid

LEMMA RunningIsFinite ==
  ASSUME plan \in Request, NEW t
  PROVE  IsFiniteSet(RunningIn(t)) /\ Cardinality(RunningIn(t)) \in Nat
<1>1. IsFiniteSet(Nodes)
  BY PlanFacts
<1>2. RunningIn(t) \subseteq Nodes
  BY DEF RunningIn
<1>3. IsFiniteSet(RunningIn(t))
  BY <1>1, <1>2, FS_Subset
<1> QED
  BY <1>3, FS_CardinalityType

\* Fewer run.
LEMMA FewerRun ==
  ASSUME plan \in Request, NEW t, NEW u, RunningIn(u) \subseteq RunningIn(t),
         Cardinality(RunningIn(t)) <= MaxConcurrency
  PROVE  Cardinality(RunningIn(u)) <= MaxConcurrency
<1>1. IsFiniteSet(RunningIn(t)) /\ Cardinality(RunningIn(t)) \in Nat /\ Cardinality(RunningIn(u)) \in Nat
  BY RunningIsFinite
<1>2. Cardinality(RunningIn(u)) <= Cardinality(RunningIn(t))
  BY <1>1, FS_Subset
<1>3. MaxConcurrency \in 1 .. 32
  BY PlanFacts
<1> QED
  BY <1>1, <1>2, <1>3

\* One more runs.
LEMMA OneMoreRuns ==
  ASSUME plan \in Request, NEW t, NEW u, NEW n, RunningIn(u) \subseteq RunningIn(t) \cup {n},
         ~(Cardinality(RunningIn(t)) >= MaxConcurrency)
  PROVE  Cardinality(RunningIn(u)) <= MaxConcurrency
<1> DEFINE W == RunningIn(t) \cup {n}
<1>1. IsFiniteSet(RunningIn(t)) /\ Cardinality(RunningIn(t)) \in Nat /\ Cardinality(RunningIn(u)) \in Nat
  BY RunningIsFinite
<1>2. /\ IsFiniteSet(W)
      /\ Cardinality(W) = Cardinality(RunningIn(t)) \/ Cardinality(W) = Cardinality(RunningIn(t)) + 1
  BY <1>1, FS_AddElement
<1> HIDE DEF W
<1>3. RunningIn(u) \subseteq W
  BY DEF W
<1>4. Cardinality(RunningIn(u)) <= Cardinality(W)
  BY <1>2, <1>3, FS_Subset
<1>5. MaxConcurrency \in 1 .. 32
  BY PlanFacts
<1> QED
  BY <1>1, <1>2, <1>4, <1>5

--------------------------------------------------------------------------------
(* A record is still right about its dependencies when only the records      *)
(* change that had not settled.                                              *)
SettledStay(t, u) == \A d \in Nodes : t[d].status \in Settled => u[d] = t[d]
SameBasis(n, t, u) ==
  /\ u[n].attempt > 0 => /\ t[n].attempt > 0
                         /\ u[n].state = t[n].state \/ \E k \in 1 .. 3 : u[n].state = Made(n, "refreshed", k)
  /\ u[n].status = "blocked" => t[n].status = "blocked"

LEMMA DepsStay ==
  ASSUME Valid, NEW t, NEW u, NEW n \in Nodes, DepsOK(n, t), SettledStay(t, u), SameBasis(n, t, u)
  PROVE  DepsOK(n, u)
<1>1. /\ plan.dependsOn[n] \subseteq Nodes
      /\ plan.stateId[n] = (plan.stateFrom[n] = Gone)
      /\ plan.stateFrom[n] # Gone => plan.stateFrom[n] \in plan.dependsOn[n]
  BY ValidFacts
<1>2. ASSUME u[n].attempt > 0
      PROVE  (\A d \in plan.dependsOn[n] : u[d].status = "succeeded") /\ u[n].state \in Bases(n, u)
  <2>1. /\ \A d \in plan.dependsOn[n] : t[d].status = "succeeded"
        /\ t[n].state \in Bases(n, t)
    BY <1>2 DEF DepsOK, SameBasis
  <2>2. \A d \in plan.dependsOn[n] : u[d] = t[d]
    BY <1>1, <2>1 DEF Settled, SettledStay
  <2>3. Bases(n, u) = Bases(n, t)
    <3>1. CASE plan.stateId[n]
      BY <3>1 DEF Bases
    <3>2. CASE ~plan.stateId[n]
      <4>1. u[plan.stateFrom[n]] = t[plan.stateFrom[n]]
        BY <1>1, <2>2, <3>2
      <4> QED
        BY <4>1, Zenon DEF Bases
    <3> QED
      BY <3>1, <3>2
  <2>4. u[n].state \in Bases(n, u)
    <3>1. CASE u[n].state = t[n].state
      BY <2>1, <2>3, <3>1
    <3>2. CASE \E k \in 1 .. 3 : u[n].state = Made(n, "refreshed", k)
      BY <3>2, Zenon DEF Bases
    <3> QED
      BY <1>2, <3>1, <3>2 DEF SameBasis
  <2> QED
    BY <2>1, <2>2, <2>4
<1>3. ASSUME u[n].status = "blocked"
      PROVE  \E d \in plan.dependsOn[n] : u[d].status \in {"failed", "cancelled", "blocked"}
  <2>1. PICK d \in plan.dependsOn[n] : t[d].status \in {"failed", "cancelled", "blocked"}
    BY <1>3 DEF DepsOK, SameBasis
  <2>2. u[d] = t[d]
    BY <1>1, <2>1 DEF Settled, SettledStay
  <2> QED
    BY <2>1, <2>2
<1> QED
  BY <1>2, <1>3 DEF DepsOK

--------------------------------------------------------------------------------
(* A visit.                                                                  *)

Started(r, s) == [r EXCEPT !.status = "running", !.doing = "act", !.attempt = 1, !.state = s]

LEMMA StartedRecord ==
  ASSUME NEW r \in NodeTrace, NEW s \in State
  PROVE  /\ Started(r, s) \in NodeTrace
         /\ Started(r, s).status = "running" /\ Started(r, s).doing = "act"
         /\ Started(r, s).attempt = 1 /\ Started(r, s).state = s
<1> DEFINE r1 == [r EXCEPT !.status = "running"]
           r2 == [r1 EXCEPT !.doing = "act"]
           r3 == [r2 EXCEPT !.attempt = 1]
           r4 == [r3 EXCEPT !.state = s]
<1>1. r1 \in NodeTrace /\ r1.status = "running"
  BY DEF NodeTrace, Status
<1>2. Started(r, s) = r4
  BY DEF Started
<1> HIDE DEF r1
<1>3. r2 \in NodeTrace /\ r2.status = "running" /\ r2.doing = "act"
  BY <1>1 DEF NodeTrace
<1> HIDE DEF r2
<1>4. r3 \in NodeTrace /\ r3.status = "running" /\ r3.doing = "act" /\ r3.attempt = 1
  BY <1>3 DEF NodeTrace
<1> HIDE DEF r3
<1>5. r4 \in NodeTrace /\ r4.status = "running" /\ r4.doing = "act" /\ r4.attempt = 1 /\ r4.state = s
  BY <1>4 DEF NodeTrace
<1> QED
  BY <1>2, <1>5

\* A node whose dependencies have succeeded has a state to start on.
LEMMA InputIs ==
  ASSUME plan \in Request, Gone \notin Node, Valid, NEW t, TraceOK(t), NEW n \in Nodes,
         \A d \in plan.dependsOn[n] : t[d].status = "succeeded"
  PROVE  /\ InputOf(n, t) \in State /\ InputOf(n, t) # NoState
         /\ InputOf(n, t) \in Bases(n, t)
<1>1. n \in Node /\ Nodes \subseteq Node
  BY PlanFacts
<1>2. CASE plan.stateId[n]
  <2>1. InputOf(n, t) = Made(n, "given", 0)
    BY <1>2 DEF InputOf
  <2>2. Made(n, "given", 0) \in State /\ Made(n, "given", 0) # NoState
    BY <1>1 DEF Made, State, NoState
  <2>3. Made(n, "given", 0) \in Bases(n, t)
    BY <1>2 DEF Bases
  <2> QED
    BY <2>1, <2>2, <2>3
<1>3. CASE ~plan.stateId[n]
  <2> DEFINE d == plan.stateFrom[n]
  <2>1. d \in plan.dependsOn[n] /\ d \in Nodes /\ d \in Node
    BY <1>1, <1>3, ValidFacts
  <2>2. InputOf(n, t) = t[d].successor
    BY <1>3 DEF InputOf
  <2> HIDE DEF d
  <2>3. t[d].successor = Made(d, "successor", t[d].attempt) /\ t[d] \in NodeTrace
    BY <2>1 DEF TraceOK, NodeOK
  <2>4. t[d].attempt \in 0 .. 3
    BY <2>3 DEF NodeTrace
  <2>5. Made(d, "successor", t[d].attempt) \in State /\ Made(d, "successor", t[d].attempt) # NoState
    BY <1>1, <2>1, <2>4 DEF Made, State, NoState
  <2>6. Made(d, "successor", t[d].attempt) \in Bases(n, t)
    BY <1>3 DEF Bases, d
  <2> QED
    BY <2>2, <2>3, <2>5, <2>6
<1> QED
  BY <1>2, <1>3

\* One pending node gets another record.
LEMMA OneRecord ==
  ASSUME plan \in Request, Valid, NEW t, TraceOK(t), NEW n \in Nodes, t[n].status = "pending",
         NEW r, NodeOK(n, r), NEW u, u = [t EXCEPT ![n] = r], DepsOK(n, u),
         Cardinality(RunningIn(u)) <= MaxConcurrency
  PROVE  TraceOK(u)
<1>1. n \in Node /\ t \in [Node -> NodeTrace] /\ r \in NodeTrace
  BY PlanFacts DEF TraceOK, NodeOK
<1>2. u \in [Node -> NodeTrace] /\ u[n] = r /\ \A m \in Node : m # n => u[m] = t[m]
  BY <1>1
<1>3. \A m \in Node : NodeOK(m, u[m])
  BY <1>2 DEF TraceOK
<1>4. ASSUME NEW m \in Nodes PROVE DepsOK(m, u)
  <2>1. CASE m = n
    BY <2>1
  <2>2. CASE m # n
    <3>1. m \in Node /\ u[m] = t[m] /\ DepsOK(m, t) /\ Nodes \subseteq Node
      BY <1>2, <2>2, PlanFacts DEF TraceOK
    <3>2. SettledStay(t, u)
      BY <1>2, <3>1 DEF Settled, SettledStay
    <3>3. SameBasis(m, t, u)
      BY <3>1 DEF SameBasis
    <3> QED
      BY <3>1, <3>2, <3>3, DepsStay
  <2> QED
    BY <2>1, <2>2
<1> QED
  BY <1>2, <1>3, <1>4 DEF TraceOK

Moves(t, u, n) ==
  /\ \A m \in Node : t[m].status # "pending" \/ m # n => u[m] = t[m]
  /\ u = t \/ (t[n].status = "pending" /\ u[n].status # "pending")

LEMMA VisitKeeps ==
  ASSUME plan \in Request, Gone \notin Node, Valid, NEW t, TraceOK(t), NEW n \in Nodes
  PROVE  /\ TraceOK(Visit(t, n)) /\ Moves(t, Visit(t, n), n)
         /\ RunningIn(t) = {} /\ t[n].status = "pending"
              /\ (\A d \in plan.dependsOn[n] : t[d].status \notin {"pending", "running"})
              => Visit(t, n) # t
<1> DEFINE deps == {t[d].status : d \in plan.dependsOn[n]}
           stays == \/ Cardinality(RunningIn(t)) >= MaxConcurrency
                    \/ t[n].status # "pending"
                    \/ deps \cap {"pending", "running"} # {}
           blocked == [t EXCEPT ![n].status = "blocked"]
<1>1. Visit(t, n) = IF stays THEN t ELSE IF deps \ {"succeeded"} # {} THEN blocked ELSE StartNode(n, t)
  BY Zenon DEF Visit, RunningIn
<1>2. /\ n \in Node /\ Nodes \subseteq Node /\ t \in [Node -> NodeTrace] /\ t[n] \in NodeTrace /\ NodeOK(n, t[n])
      /\ plan.dependsOn[n] \subseteq Nodes /\ n \notin plan.dependsOn[n]
  BY PlanFacts, ValidFacts DEF TraceOK
<1>3. stays \/ t[n].status = "pending"
  OBVIOUS
<1>4. CASE stays
  <2>1. Visit(t, n) = t
    BY <1>1, <1>4, Zenon
  <2>2. ~(/\ RunningIn(t) = {} /\ t[n].status = "pending"
          /\ \A d \in plan.dependsOn[n] : t[d].status \notin {"pending", "running"})
    <3>1. MaxConcurrency \in 1 .. 32 /\ Cardinality({}) = 0
      BY PlanFacts, FS_EmptySet
    <3>2. RunningIn(t) = {} => ~(Cardinality(RunningIn(t)) >= MaxConcurrency)
      BY <3>1
    <3> QED
      BY <1>4, <3>2
  <2>3. Moves(t, t, n)
    BY DEF Moves
  <2> QED
    BY <2>1, <2>2, <2>3
<1>5. CASE ~stays /\ deps \ {"succeeded"} # {}
  <2>1. t[n].status = "pending" /\ ~(Cardinality(RunningIn(t)) >= MaxConcurrency)
    BY <1>5
  <2>2. PICK d \in plan.dependsOn[n] : t[d].status # "succeeded"
    BY <1>5
  <2>3. t[d].status \in {"failed", "cancelled", "blocked"} /\ d # n /\ d \in Node
    <3>1. t[d] \in NodeTrace
      BY <1>2
    <3>2. t[d].status \in Status
      BY <3>1 DEF NodeTrace
    <3>3. t[d].status # "pending" /\ t[d].status # "running"
      BY <1>5
    <3> QED
      BY <1>2, <2>2, <3>2, <3>3 DEF Status
  <2>4. PICK r : r = [t[n] EXCEPT !.status = "blocked"]
    OBVIOUS
  <2>5. /\ r \in NodeTrace /\ r.status = "blocked" /\ r.doing = t[n].doing /\ r.attempt = t[n].attempt
    <3>1. PICK s \in NodeTrace : s = t[n]
      BY <1>2
    <3>2. r = [s EXCEPT !.status = "blocked"]
      BY <2>4, <3>1
    <3>3. r \in NodeTrace /\ r.status = "blocked" /\ r.doing = s.doing /\ r.attempt = s.attempt
      BY <3>2 DEF NodeTrace, Status
    <3> QED
      BY <3>1, <3>3
  <2>6. NodeOK(n, r)
    <3>1. t[n].doing = "nothing" /\ t[n].attempt = 0
      BY <1>2, <2>1 DEF NodeOK
    <3> QED
      BY <2>5, <3>1 DEF NodeOK
  <2>7. PICK u : u = [t EXCEPT ![n] = r]
    OBVIOUS
  <2>8. blocked = u
    BY <2>4, <2>7
  <2>9. u[n] = r /\ \A m \in Node : m # n => u[m] = t[m]
    BY <1>2, <2>7
  <2>10. DepsOK(n, u)
    <3>1. u[n].attempt = 0 /\ u[d].status \in {"failed", "cancelled", "blocked"}
      BY <1>2, <2>1, <2>3, <2>5, <2>9 DEF NodeOK
    <3> QED
      BY <3>1 DEF DepsOK
  <2>11. RunningIn(u) \subseteq RunningIn(t)
    BY <1>2, <2>5, <2>9 DEF RunningIn
  <2>12. Cardinality(RunningIn(u)) <= MaxConcurrency
    <3>1. Cardinality(RunningIn(t)) <= MaxConcurrency
      BY DEF TraceOK
    <3> QED
      BY <2>11, <3>1, FewerRun
  <2>13. TraceOK(u)
    BY <2>1, <2>6, <2>7, <2>10, <2>12, OneRecord
  <2>14. u[n].status = "blocked"
    BY <2>5, <2>9
  <2>15. Moves(t, u, n) /\ u # t
    BY <2>1, <2>9, <2>14 DEF Moves
  <2>16. Visit(t, n) = u
    <3> HIDE DEF stays, deps, blocked
    <3> QED
      BY <1>1, <1>5, <2>8
  <2> QED
    BY <2>13, <2>15, <2>16
<1>6. CASE ~stays /\ ~(deps \ {"succeeded"} # {})
  <2>1. t[n].status = "pending" /\ ~(Cardinality(RunningIn(t)) >= MaxConcurrency)
    BY <1>6
  <2>2. \A d \in plan.dependsOn[n] : t[d].status = "succeeded"
    BY <1>6
  <2>3. PICK s : s = InputOf(n, t)
    OBVIOUS
  <2>4. s \in State /\ s # NoState /\ s \in Bases(n, t)
    BY <2>2, <2>3, InputIs
  <2>5. PICK r : r = Started(t[n], s)
    OBVIOUS
  <2>6. r \in NodeTrace /\ r.status = "running" /\ r.doing = "act" /\ r.attempt = 1 /\ r.state = s
    BY <1>2, <2>4, <2>5, StartedRecord
  <2>7. NodeOK(n, r)
    BY <2>6 DEF NodeOK
  <2>8. PICK u : u = [t EXCEPT ![n] = r]
    OBVIOUS
  <2>9. StartNode(n, t) = u
    <3>1. StartNode(n, t) = [t EXCEPT ![n] = Started(t[n], s)]
      BY <2>3, <2>4 DEF StartNode, Started
    <3> QED
      BY <2>5, <2>8, <3>1
  <2>10. u[n] = r /\ \A m \in Node : m # n => u[m] = t[m]
    BY <1>2, <2>8
  <2>11. DepsOK(n, u)
    <3>1. \A d \in plan.dependsOn[n] : u[d] = t[d]
      BY <1>2, <2>10
    <3>2. Bases(n, u) = Bases(n, t)
      <4>1. CASE plan.stateId[n]
        BY <4>1 DEF Bases
      <4>2. CASE ~plan.stateId[n]
        <5>1. u[plan.stateFrom[n]] = t[plan.stateFrom[n]]
          BY <3>1, <4>2, ValidFacts
        <5> QED
          BY <5>1, Zenon DEF Bases
      <4> QED
        BY <4>1, <4>2
    <3>3. \A d \in plan.dependsOn[n] : u[d].status = "succeeded"
      BY <2>2, <3>1
    <3>4. u[n].state \in Bases(n, u) /\ u[n].status # "blocked"
      BY <2>4, <2>6, <2>10, <3>2
    <3> QED
      BY <3>3, <3>4 DEF DepsOK
  <2>12. RunningIn(u) \subseteq RunningIn(t) \cup {n}
    BY <1>2, <2>10 DEF RunningIn
  <2>13. Cardinality(RunningIn(u)) <= MaxConcurrency
    BY <2>1, <2>12, OneMoreRuns
  <2>14. TraceOK(u)
    BY <2>1, <2>7, <2>8, <2>11, <2>13, OneRecord
  <2>15. u[n].status = "running"
    BY <2>6, <2>10
  <2>16. Moves(t, u, n) /\ u # t
    BY <2>1, <2>10, <2>15 DEF Moves
  <2>17. Visit(t, n) = u
    <3> HIDE DEF stays, deps, blocked
    <3> QED
      BY <1>1, <1>6, <2>9
  <2> QED
    BY <2>14, <2>16, <2>17
<1> QED
  <2> HIDE DEF stays, deps, blocked
  <2> QED
    BY <1>4, <1>5, <1>6

--------------------------------------------------------------------------------
(* A pass.                                                                   *)

Proceeds(t, u) == \A m \in Node : t[m].status # "pending" => u[m] = t[m]

LEMMA PassKeeps ==
  ASSUME plan \in Request, Gone \notin Node, Valid, NEW t, TraceOK(t)
  PROVE  /\ TraceOK(Visits(t)) /\ Proceeds(t, Visits(t))
         /\ ~aborted /\ RunningIn(t) = {} /\ Visits(t) = t
              => \A n \in Nodes : t[n].status \notin {"pending", "running"}
<1> DEFINE N == Len(plan.order)
<1>1. N \in Nat /\ Nodes \subseteq Node /\ \A k \in 1 .. N : plan.order[k] \in Nodes
  BY PlanFacts
<1>2. PICK v : Visits(t) = v[N] /\ v[0] = t /\ \A k \in 1 .. N : v[k] = Visit(v[k - 1], plan.order[k])
  BY <1>1, VisitsAre
<1> HIDE DEF N
<1>3. \A k \in Nat : k + 1 <= N => /\ plan.order[k + 1] \in Nodes /\ k <= N
                                   /\ v[k + 1] = Visit(v[k], plan.order[k + 1])
  <2> TAKE k \in Nat
  <2> HAVE k + 1 <= N
  <2>1. k + 1 \in 1 .. N /\ (k + 1) - 1 = k /\ k <= N
    BY <1>1
  <2> QED
    BY <1>1, <1>2, <2>1
<1>4. \A k \in Nat : k <= N => TraceOK(v[k])
  <2> DEFINE S == {k \in Nat : k <= N => TraceOK(v[k])}
  <2>1. 0 \in S
    BY <1>2
  <2>2. ASSUME NEW k \in Nat, k \in S PROVE k + 1 \in S
    <3> SUFFICES ASSUME k + 1 <= N PROVE TraceOK(v[k + 1])
      OBVIOUS
    <3>1. /\ plan.order[k + 1] \in Nodes /\ v[k + 1] = Visit(v[k], plan.order[k + 1])
          /\ TraceOK(v[k])
      BY <1>3, <2>2
    <3>2. PICK x, y : x = v[k] /\ y = plan.order[k + 1]
      OBVIOUS
    <3>3. TraceOK(Visit(x, y))
      BY <3>1, <3>2, VisitKeeps
    <3> QED
      BY <3>1, <3>2, <3>3
  <2> HIDE DEF S
  <2>3. \A k \in Nat : k \in S
    BY <2>1, <2>2, SetInduction
  <2> QED
    BY <2>3 DEF S
<1>5. \A k \in Nat : k + 1 <= N => Moves(v[k], v[k + 1], plan.order[k + 1])
  <2> TAKE k \in Nat
  <2> HAVE k + 1 <= N
  <2>1. PICK x, y : x = v[k] /\ y = plan.order[k + 1]
    OBVIOUS
  <2>2. TraceOK(x) /\ y \in Nodes /\ v[k + 1] = Visit(x, y)
    BY <1>3, <1>4, <2>1
  <2>3. Moves(x, Visit(x, y), y)
    BY <2>2, VisitKeeps
  <2> QED
    BY <2>1, <2>2, <2>3
<1>6. \A j \in Nat : \A k \in Nat : k <= j /\ j <= N => Proceeds(v[k], v[j])
  <2> DEFINE S == {j \in Nat : \A k \in Nat : k <= j /\ j <= N => Proceeds(v[k], v[j])}
  <2>1. 0 \in S
    <3>1. \A k \in Nat : k <= 0 => Proceeds(v[k], v[0])
      BY DEF Proceeds
    <3> QED
      BY <3>1
  <2>2. ASSUME NEW j \in Nat, j \in S PROVE j + 1 \in S
    <3> SUFFICES ASSUME NEW k \in Nat, k <= j + 1, j + 1 <= N PROVE Proceeds(v[k], v[j + 1])
      OBVIOUS
    <3>1. CASE k = j + 1
      BY <3>1 DEF Proceeds
    <3>2. CASE k <= j
      <4>0. j <= N
        BY <1>1
      <4>1. Proceeds(v[k], v[j]) /\ Moves(v[j], v[j + 1], plan.order[j + 1])
        BY <1>5, <2>2, <3>2, <4>0
      <4> QED
        BY <4>1 DEF Proceeds, Moves
    <3> QED
      BY <3>1, <3>2
  <2> HIDE DEF S
  <2>3. \A j \in Nat : j \in S
    BY <2>1, <2>2, SetInduction
  <2> QED
    BY <2>3 DEF S
<1>7. TraceOK(Visits(t))
  BY <1>1, <1>2, <1>4
<1>8. Proceeds(t, Visits(t))
  BY <1>1, <1>2, <1>6
<1>9. ASSUME ~aborted, RunningIn(t) = {}, Visits(t) = t, NEW m \in Nodes, t[m].status \in {"pending", "running"}
      PROVE  FALSE
  <2>1. \A k \in Nat : k <= N => v[k] = t
    <3> DEFINE S == {k \in Nat : k <= N => v[k] = t}
    <3>1. 0 \in S
      BY <1>2
    <3>2. ASSUME NEW k \in Nat, k \in S PROVE k + 1 \in S
      <4> SUFFICES ASSUME k + 1 <= N, v[k + 1] # t PROVE FALSE
        OBVIOUS
      <4> DEFINE o == plan.order[k + 1]
      <4>1. v[k] = t /\ o \in Node /\ Moves(v[k], v[k + 1], o) /\ v[N] = t
        BY <1>1, <1>2, <1>3, <1>5, <1>9, <3>2
      <4>2. Proceeds(v[k + 1], v[N])
        BY <1>1, <1>6
      <4> HIDE DEF o
      <4>3. t[o].status = "pending" /\ v[k + 1][o].status # "pending"
        BY <4>1 DEF Moves
      <4>4. v[N][o] = v[k + 1][o]
        BY <4>1, <4>2, <4>3 DEF Proceeds
      <4> QED
        BY <4>1, <4>3, <4>4
    <3> HIDE DEF S
    <3>3. \A k \in Nat : k \in S
      BY <3>1, <3>2, SetInduction
    <3> QED
      BY <3>3 DEF S
  <2> DEFINE U == {n \in Nodes : t[n].status \in {"pending", "running"}}
  <2>2. U \subseteq Nodes /\ U # {}
    BY <1>9
  <2>3. PICK n \in U : plan.dependsOn[n] \cap U = {}
    <3> HIDE DEF U
    <3> QED
      BY <2>2, SomeNodeIsFree
  <2>4. n \in Nodes /\ n \in Node /\ plan.dependsOn[n] \subseteq Nodes
    BY <1>1, ValidFacts
  <2>5. \A d \in plan.dependsOn[n] : t[d].status \notin {"pending", "running"}
    BY <2>3, <2>4
  <2>6. t[n].status = "pending"
    <3> SUFFICES ASSUME t[n].status = "running" PROVE FALSE
      OBVIOUS
    <3>1. NodeOK(n, t[n]) /\ t[n] \in NodeTrace
      BY <2>4 DEF TraceOK
    <3>2. t[n].doing \in {"act", "refresh"}
      BY <1>9, <3>1 DEF NodeOK, NodeTrace
    <3>3. n \in RunningIn(t)
      BY <2>4, <3>2 DEF RunningIn
    <3> QED
      BY <1>9, <3>3
  <2>7. Visit(t, n) # t
    BY <1>9, <2>4, <2>5, <2>6, VisitKeeps
  <2>8. PICK k \in 1 .. N : plan.order[k] = n
    BY <2>4, PlanFacts DEF N
  <2>9. v[k] = t /\ v[k - 1] = t /\ v[k] = Visit(v[k - 1], plan.order[k])
    <3>1. k \in Nat /\ k - 1 \in Nat /\ k <= N /\ k - 1 <= N
      BY <1>1
    <3> QED
      BY <1>2, <2>1, <3>1
  <2> QED
    BY <2>7, <2>8, <2>9
<1> QED
  BY <1>7, <1>8, <1>9

--------------------------------------------------------------------------------
(* The invariant holds at first, and is carried over.                        *)

LEMMA FreshIsOK ==
  /\ Fresh \in NodeTrace
  /\ Fresh.status = "pending" /\ Fresh.doing = "nothing" /\ Fresh.attempt = 0
BY DEF Fresh, NodeTrace, Status, State

LEMMA PlanInitInv == PlanInit => PlanInv
<1> SUFFICES ASSUME PlanInit PROVE PlanInv
  OBVIOUS
<1> USE DEF PlanInit
<1>1. plan \in Request /\ plan \in Plans
  BY PlanAssumption
<1>2. trace \in [Node -> NodeTrace] /\ \A n \in Node : trace[n] = Fresh
  BY FreshIsOK
<1>3. \A n \in Node : NodeOK(n, trace[n])
  BY <1>2, FreshIsOK DEF NodeOK
<1>4. \A n \in Nodes : DepsOK(n, trace)
  BY <1>1, <1>2, FreshIsOK, PlanFacts DEF DepsOK
<1>5. RunningIn(trace) = {}
  BY <1>1, <1>2, FreshIsOK, PlanFacts DEF RunningIn
<1>6. Cardinality(RunningIn(trace)) <= MaxConcurrency
  <2>1. Cardinality(RunningIn(trace)) = 0
    BY <1>5, FS_EmptySet
  <2>2. MaxConcurrency \in 1 .. 32
    BY <1>1, PlanFacts
  <2> QED
    BY <2>1, <2>2
<1>7. TraceOK(trace)
  BY <1>2, <1>3, <1>4, <1>6 DEF TraceOK
<1>8. LandedOK
  BY DEF LandedOK
<1>9. PhaseOK
  BY DEF PhaseOK
<1> QED
  BY <1>1, <1>7, <1>8, <1>9 DEF PlanInv

LEMMA Carried ==
  ASSUME plan' = plan, aborted => aborted', NEW t, trace' = t, TraceOK(t)
  PROVE  TraceOK(trace)'
<1>1. Nodes' = Nodes
  BY DEF Nodes, Range
<1>2. MaxConcurrency' = MaxConcurrency /\ \A n \in Node : MaxAttempts(n)' = MaxAttempts(n)
  BY DEF MaxConcurrency, MaxAttempts
<1>3. t \in [Node -> NodeTrace] /\ (\A n \in Node : NodeOK(n, t[n])) /\ \A n \in Nodes : DepsOK(n, t)
  BY DEF TraceOK
<1>4. (trace \in [Node -> NodeTrace])'
  BY <1>3
<1>5. (\A n \in Node : NodeOK(n, trace[n]))'
  BY <1>1, <1>2, <1>3 DEF NodeOK
<1>6. (\A n \in Nodes : DepsOK(n, trace))'
  <2> SUFFICES ASSUME NEW n \in Nodes PROVE DepsOK(n, trace)'
    BY <1>1
  <2>1. DepsOK(n, t)
    BY <1>3
  <2> QED
    BY <2>1 DEF DepsOK, Bases
<1>7. (RunningIn(trace))' = RunningIn(t)
  BY <1>1 DEF RunningIn
<1>8. (Cardinality(RunningIn(trace)) <= MaxConcurrency)'
  <2>1. Cardinality(RunningIn(t)) <= MaxConcurrency
    BY DEF TraceOK
  <2> QED
    BY <1>2, <1>7, <2>1
<1> QED
  BY <1>4, <1>5, <1>6, <1>8 DEF TraceOK

ValidOf(p) ==
  LET nodes == Range(p.order)
      visited[round \in 0 .. MaxPlanNodes] ==
        IF round = 0 THEN {} ELSE LET before == visited[round - 1] IN {n \in nodes : p.dependsOn[n] \subseteq before}
  IN /\ Len(p.order) \in 1 .. MaxPlanNodes
     /\ IsInjective(p.order)
     /\ \A n \in nodes :
          /\ p.actions[n] \in 1 .. MaxNodeActions
          /\ p.guard[n] # "none"
          /\ p.stateId[n] = (p.stateFrom[n] = Gone)
          /\ p.dependsOn[n] \subseteq nodes \ {n}
          /\ p.stateFrom[n] # Gone => p.stateFrom[n] \in p.dependsOn[n]
     /\ visited[Len(p.order)] = nodes

LEMMA ValidStays == plan' = plan => (Valid' <=> Valid)
<1>1. Valid <=> ValidOf(plan)
  BY Zenon DEF Valid, ValidOf, Visited, Nodes
<1>2. Valid' <=> ValidOf(plan')
  BY Zenon DEF Valid, ValidOf, Visited, Nodes
<1> QED
  BY <1>1, <1>2

--------------------------------------------------------------------------------
(* A step of a node.                                                         *)

\* A running node gets another record.
LEMMA RunningNode ==
  ASSUME plan \in Request, Valid, TraceOK(trace), NEW n \in Nodes, trace[n].doing \in {"act", "refresh"},
         NEW r, NodeOK(n, r), r.status \notin {"pending", "blocked"},
         r.state = trace[n].state \/ \E k \in 1 .. 3 : r.state = Made(n, "refreshed", k),
         NEW u, u = [trace EXCEPT ![n] = r]
  PROVE  TraceOK(u)
<1>1. n \in Node /\ Nodes \subseteq Node /\ trace \in [Node -> NodeTrace] /\ r \in NodeTrace /\ NodeOK(n, trace[n])
  BY PlanFacts DEF TraceOK, NodeOK
<1>2. u \in [Node -> NodeTrace] /\ u[n] = r /\ \A m \in Node : m # n => u[m] = trace[m]
  BY <1>1
<1>3. \A m \in Node : NodeOK(m, u[m])
  BY <1>2 DEF TraceOK
<1>4. trace[n].status = "running" /\ trace[n].attempt > 0
  BY <1>1 DEF NodeOK
<1>5. SettledStay(trace, u)
  BY <1>1, <1>2, <1>4 DEF SettledStay, Settled
<1>6. ASSUME NEW m \in Nodes PROVE DepsOK(m, u)
  <2>1. DepsOK(m, trace)
    BY DEF TraceOK
  <2>2. SameBasis(m, trace, u)
    BY <1>1, <1>2, <1>4 DEF SameBasis
  <2> QED
    BY <1>5, <2>1, <2>2, DepsStay
<1>7. RunningIn(u) \subseteq RunningIn(trace)
  BY <1>1, <1>2 DEF RunningIn
<1>8. Cardinality(RunningIn(u)) <= MaxConcurrency
  <2>1. Cardinality(RunningIn(trace)) <= MaxConcurrency
    BY DEF TraceOK
  <2> QED
    BY <1>7, <2>1, FewerRun
<1> QED
  BY <1>2, <1>3, <1>6, <1>8 DEF TraceOK

\* What the invariant says of a node that runs.
LEMMA RunsNow ==
  ASSUME PlanInv, NEW n \in Node, trace[n].doing \in {"act", "refresh"}
  PROVE  /\ n \in Nodes /\ plan \in Request /\ Valid /\ TraceOK(trace)
         /\ trace[n] \in NodeTrace /\ NodeOK(n, trace[n])
         /\ trace[n].status = "running" /\ trace[n].attempt > 0 /\ landed[n] = 0
         /\ phase \in {"open", "draining", "rejected"}
<1>1. plan \in Request /\ TraceOK(trace) /\ NodeOK(n, trace[n]) /\ trace[n] \in NodeTrace
  BY PlanAssumption DEF PlanInv, TraceOK, NodeOK
<1>2. trace[n].status = "running" /\ trace[n].attempt > 0 /\ trace[n] # Fresh
  BY <1>1, FreshIsOK DEF NodeOK
<1>3. n \in Nodes
  BY <1>1, <1>2 DEF NodeOK
<1>4. landed[n] = 0
  BY <1>2 DEF PlanInv, LandedOK, Settled
<1>5. phase \in {"open", "draining", "rejected"}
  <2>1. n \in RunningIn(trace)
    BY <1>3 DEF RunningIn
  <2>2. phase \notin {"new", "invalid"}
    BY <1>2 DEF PlanInv, PhaseOK
  <2>3. phase # "answered"
    BY <2>1 DEF PlanInv, PhaseOK
  <2> QED
    BY <2>2, <2>3 DEF PlanInv, PhaseOK
<1>6. Valid
  BY <1>5 DEF PlanInv, PhaseOK
<1> QED
  BY <1>1, <1>2, <1>3, <1>4, <1>5, <1>6

\* A step that gives a running node another record keeps the invariant.
LEMMA NodeStepKeeps ==
  ASSUME PlanInv, NEW n \in Node, trace[n].doing \in {"act", "refresh"},
         NEW r, NodeOK(n, r), r.status \notin {"pending", "blocked"},
         r.state = trace[n].state \/ \E k \in 1 .. 3 : r.state = Made(n, "refreshed", k),
         NEW u, u = [trace EXCEPT ![n] = r], trace' = u,
         NEW took \in 0 .. 1, landed' = [landed EXCEPT ![n] = took], took = 1 => r.status \in Settled,
         plan' = plan, aborted' = aborted, woken' \in BOOLEAN, phase' \in {phase, "rejected"}
  PROVE  PlanInv'
<1>1. /\ n \in Nodes /\ plan \in Request /\ Valid /\ TraceOK(trace)
      /\ trace[n].status = "running" /\ landed[n] = 0
      /\ phase \in {"open", "draining", "rejected"}
  BY RunsNow
<1>2. TraceOK(u)
  BY <1>1, RunningNode
<1>3. TraceOK(trace)'
  BY <1>2, Carried
<1>4. Valid'
  BY <1>1, ValidStays
<1>5. u[n] = r /\ (\A m \in Node : m # n => u[m] = trace[m]) /\ Nodes' = Nodes /\ Nodes \subseteq Node
  BY <1>1, PlanFacts DEF TraceOK, Nodes, Range
<1>6. LandedOK'
  <2>1. landed \in [Node -> Nat] /\ \A m \in Node : landed[m] <= 1 /\ (landed[m] > 0 => trace[m].status \in Settled)
    BY DEF PlanInv, LandedOK
  <2>2. landed' \in [Node -> Nat] /\ landed'[n] = took /\ \A m \in Node : m # n => landed'[m] = landed[m]
    BY <2>1
  <2>3. \A m \in Node : landed'[m] <= 1 /\ (landed'[m] > 0 => u[m].status \in Settled)
    <3> TAKE m \in Node
    <3>1. CASE m = n
      BY <1>5, <2>2, <3>1
    <3>2. CASE m # n
      BY <1>5, <2>1, <2>2, <3>2
    <3> QED
      BY <3>1, <3>2
  <2> QED
    BY <2>2, <2>3 DEF LandedOK
<1>7. PhaseOK'
  <2>1. phase' \in {"open", "draining", "rejected"}
    BY <1>1
  <2>2. phase' = "draining" => aborted'
    BY <1>1 DEF PlanInv, PhaseOK
  <2>3. ASSUME phase' = "draining" PROVE \A m \in Nodes : u[m].status # "pending"
    <3>1. phase = "draining"
      BY <2>3
    <3>2. \A m \in Nodes : trace[m].status # "pending"
      BY <3>1 DEF PlanInv, PhaseOK
    <3> QED
      BY <1>5, <3>2
  <2> QED
    BY <1>4, <1>5, <2>1, <2>2, <2>3 DEF PhaseOK
<1>8. plan' \in Plans /\ aborted' \in BOOLEAN
  BY DEF PlanInv
<1> QED
  BY <1>3, <1>6, <1>7, <1>8 DEF PlanInv

--------------------------------------------------------------------------------
(* The steps.                                                                *)

LEMMA ActAnswersKeeps == ASSUME PlanInv, NEW n \in Node, ActAnswers(n) PROVE PlanInv'
<1>1. PICK answer \in Answer, inTime \in BOOLEAN, took \in BOOLEAN :
        /\ trace[n].doing = "act"
        /\ landed' = [landed EXCEPT ![n] = @ + (IF took /\ ~DefinitelyNotDelivered(answer) THEN 1 ELSE 0)]
        /\ trace' = [trace EXCEPT ![n] =
             IF Succeeds(n, answer)
             THEN [@ EXCEPT !.status = "succeeded", !.doing = "nothing", !.successor = Made(n, "successor", trace[n].attempt)]
             ELSE IF aborted THEN [@ EXCEPT !.status = "cancelled", !.doing = "nothing"]
             ELSE IF CanRefresh(n, answer, inTime) THEN [@ EXCEPT !.doing = "refresh"]
             ELSE [@ EXCEPT !.status = "failed", !.doing = "nothing"]]
        /\ woken' = (woken \/ trace'[n].doing = "nothing")
        /\ UNCHANGED <<plan, phase, aborted>>
  BY Zenon DEF ActAnswers
<1>2. /\ n \in Nodes /\ trace[n] \in NodeTrace /\ NodeOK(n, trace[n])
      /\ trace[n].status = "running" /\ trace[n].attempt > 0 /\ landed[n] = 0
  BY <1>1, RunsNow
<1>3. PICK s \in NodeTrace : s = trace[n]
  BY <1>2
<1>4. PICK made : made = Made(n, "successor", s.attempt)
  OBVIOUS
<1>5. made \in State
  <2>1. s.attempt \in 0 .. 3
    BY DEF NodeTrace
  <2> QED
    BY <1>4, <2>1 DEF Made, State
<1>6. PICK r : r = IF Succeeds(n, answer) THEN [s EXCEPT !.status = "succeeded", !.doing = "nothing", !.successor = made]
                   ELSE IF aborted THEN [s EXCEPT !.status = "cancelled", !.doing = "nothing"]
                   ELSE IF CanRefresh(n, answer, inTime) THEN [s EXCEPT !.doing = "refresh"]
                   ELSE [s EXCEPT !.status = "failed", !.doing = "nothing"]
  OBVIOUS
<1>7. PICK u : u = [trace EXCEPT ![n] = r]
  OBVIOUS
<1>8. trace' = u
  BY <1>1, <1>3, <1>4, <1>6, <1>7, Zenon
<1>9. /\ r \in NodeTrace /\ r.attempt = s.attempt /\ r.state = s.state
      /\ \/ r.status = "succeeded" /\ r.doing = "nothing" /\ r.successor = made
         \/ aborted /\ r.status = "cancelled" /\ r.doing = "nothing"
         \/ CanRefresh(n, answer, inTime) /\ r.status = s.status /\ r.doing = "refresh"
         \/ r.status = "failed" /\ r.doing = "nothing"
  <2>1. CASE Succeeds(n, answer)
    <3> DEFINE r1 == [s EXCEPT !.status = "succeeded"]
               r2 == [r1 EXCEPT !.doing = "nothing"]
               r3 == [r2 EXCEPT !.successor = made]
    <3>1. r = r3
      BY <1>6, <2>1
    <3>2. r1 \in NodeTrace /\ r1.status = "succeeded" /\ r1.attempt = s.attempt /\ r1.state = s.state
      BY DEF NodeTrace, Status
    <3> HIDE DEF r1
    <3>3. r2 \in NodeTrace /\ r2.status = "succeeded" /\ r2.doing = "nothing" /\ r2.attempt = s.attempt /\ r2.state = s.state
      BY <3>2 DEF NodeTrace
    <3> HIDE DEF r2
    <3>4. /\ r3 \in NodeTrace /\ r3.status = "succeeded" /\ r3.doing = "nothing" /\ r3.attempt = s.attempt
          /\ r3.state = s.state /\ r3.successor = made
      BY <1>5, <3>3 DEF NodeTrace
    <3> QED
      BY <3>1, <3>4
  <2>2. CASE ~Succeeds(n, answer) /\ aborted
    <3> DEFINE r1 == [s EXCEPT !.status = "cancelled"]
               r2 == [r1 EXCEPT !.doing = "nothing"]
    <3>1. r = r2
      BY <1>6, <2>2
    <3>2. r1 \in NodeTrace /\ r1.status = "cancelled" /\ r1.attempt = s.attempt /\ r1.state = s.state
      BY DEF NodeTrace, Status
    <3> HIDE DEF r1
    <3>3. r2 \in NodeTrace /\ r2.status = "cancelled" /\ r2.doing = "nothing" /\ r2.attempt = s.attempt /\ r2.state = s.state
      BY <3>2 DEF NodeTrace
    <3> QED
      BY <2>2, <3>1, <3>3
  <2>3. CASE ~Succeeds(n, answer) /\ ~aborted /\ CanRefresh(n, answer, inTime)
    <3>1. r = [s EXCEPT !.doing = "refresh"]
      BY <1>6, <2>3
    <3>2. r \in NodeTrace /\ r.status = s.status /\ r.doing = "refresh" /\ r.attempt = s.attempt /\ r.state = s.state
      BY <3>1 DEF NodeTrace
    <3> QED
      BY <2>3, <3>2
  <2>4. CASE ~Succeeds(n, answer) /\ ~aborted /\ ~CanRefresh(n, answer, inTime)
    <3> DEFINE r1 == [s EXCEPT !.status = "failed"]
               r2 == [r1 EXCEPT !.doing = "nothing"]
    <3>1. r = r2
      BY <1>6, <2>4
    <3>2. r1 \in NodeTrace /\ r1.status = "failed" /\ r1.attempt = s.attempt /\ r1.state = s.state
      BY DEF NodeTrace, Status
    <3> HIDE DEF r1
    <3>3. r2 \in NodeTrace /\ r2.status = "failed" /\ r2.doing = "nothing" /\ r2.attempt = s.attempt /\ r2.state = s.state
      BY <3>2 DEF NodeTrace
    <3> QED
      BY <3>1, <3>3
  <2> QED
    BY <2>1, <2>2, <2>3, <2>4
<1>10. CanRefresh(n, answer, inTime) => s.attempt < MaxAttempts(n) /\ DefinitelyNotDelivered(answer)
  BY <1>3 DEF CanRefresh
<1>11. NodeOK(n, r) /\ r.status \notin {"pending", "blocked"}
  BY <1>2, <1>3, <1>4, <1>9, <1>10 DEF NodeOK
<1>12. PICK k \in 0 .. 1 : k = IF took /\ ~DefinitelyNotDelivered(answer) THEN 1 ELSE 0
  OBVIOUS
<1>13. landed' = [landed EXCEPT ![n] = k]
  <2>1. landed' = [landed EXCEPT ![n] = landed[n] + k]
    BY <1>1, <1>12
  <2>2. landed[n] + k = k
    BY <1>2
  <2> QED
    BY <2>1, <2>2
<1>14. k = 1 => r.status \in Settled
  BY <1>9, <1>10, <1>12 DEF Settled
<1>15. woken' \in BOOLEAN /\ trace[n].doing \in {"act", "refresh"} /\ phase' \in {phase, "rejected"}
  BY <1>1
<1>16. plan' = plan /\ aborted' = aborted /\ r.state = trace[n].state
  BY <1>1, <1>3, <1>9
<1> QED
  BY <1>7, <1>8, <1>11, <1>13, <1>14, <1>15, <1>16, NodeStepKeeps

LEMMA RefreshesKeeps == ASSUME PlanInv, NEW n \in Node, Refreshes(n) PROVE PlanInv'
<1>1. /\ trace[n].doing = "refresh" /\ UNCHANGED <<plan, phase, aborted, woken, landed>>
      /\ trace' = [trace EXCEPT ![n].doing = "act", ![n].attempt = @ + 1, ![n].state = Made(n, "refreshed", trace[n].attempt)]
  BY DEF Refreshes
<1>2. /\ n \in Nodes /\ trace[n] \in NodeTrace /\ NodeOK(n, trace[n]) /\ plan \in Request
      /\ trace[n].status = "running" /\ trace[n].attempt > 0 /\ landed[n] = 0 /\ trace \in [Node -> NodeTrace]
  BY <1>1, RunsNow DEF TraceOK
<1>3. PICK s \in NodeTrace : s = trace[n]
  BY <1>2
<1>4. s.attempt \in 1 .. 2
  <2>1. s.attempt \in 0 .. 3 /\ MaxAttempts(n) \in 1 .. 3
    BY <1>2, PlanFacts DEF NodeTrace
  <2>2. s.attempt > 0 /\ s.attempt < MaxAttempts(n)
    BY <1>1, <1>2, <1>3 DEF NodeOK
  <2> QED
    BY <2>1, <2>2
<1>5. PICK made : made = Made(n, "refreshed", s.attempt)
  OBVIOUS
<1>6. made \in State
  BY <1>4, <1>5 DEF Made, State
<1> DEFINE r1 == [s EXCEPT !.doing = "act"]
           r2 == [r1 EXCEPT !.attempt = s.attempt + 1]
           r3 == [r2 EXCEPT !.state = made]
<1>7. trace' = [trace EXCEPT ![n] = r3]
  <2>1. trace' = [trace EXCEPT ![n] = [s EXCEPT !.doing = "act", !.attempt = s.attempt + 1, !.state = made]]
    BY <1>1, <1>2, <1>3, <1>5
  <2>2. [s EXCEPT !.doing = "act", !.attempt = s.attempt + 1, !.state = made] = r3
    OBVIOUS
  <2> QED
    BY <2>1, <2>2, Zenon
<1>8. r1 \in NodeTrace /\ r1.status = "running" /\ r1.doing = "act"
  BY <1>2, <1>3 DEF NodeTrace
<1> HIDE DEF r1
<1>9. r2 \in NodeTrace /\ r2.status = "running" /\ r2.doing = "act" /\ r2.attempt = s.attempt + 1
  BY <1>4, <1>8 DEF NodeTrace
<1> HIDE DEF r2
<1>10. r3 \in NodeTrace /\ r3.status = "running" /\ r3.doing = "act" /\ r3.attempt = s.attempt + 1 /\ r3.state = made
  BY <1>6, <1>9 DEF NodeTrace
<1>11. PICK r : r = r3
  OBVIOUS
<1> HIDE DEF r3
<1>12. NodeOK(n, r) /\ r.status \notin {"pending", "blocked"}
  BY <1>2, <1>4, <1>10, <1>11 DEF NodeOK
<1>13. \E k \in 1 .. 3 : r.state = Made(n, "refreshed", k)
  <2>1. s.attempt \in 1 .. 3
    BY <1>4
  <2> QED
    BY <1>5, <1>10, <1>11, <2>1
<1>14. PICK u : u = [trace EXCEPT ![n] = r]
  OBVIOUS
<1>15. trace' = u
  BY <1>7, <1>11, <1>14
<1>16. landed' = [landed EXCEPT ![n] = 0]
  BY <1>1, <1>2 DEF PlanInv, LandedOK
<1>17. /\ plan' = plan /\ aborted' = aborted /\ woken' \in BOOLEAN /\ phase' \in {phase, "rejected"}
       /\ trace[n].doing \in {"act", "refresh"} /\ 0 \in 0 .. 1 /\ ~(0 = 1)
  BY <1>1 DEF PlanInv
<1> QED
  BY <1>12, <1>13, <1>14, <1>15, <1>16, <1>17, NodeStepKeeps

LEMMA RefreshFailsKeeps == ASSUME PlanInv, NEW n \in Node, RefreshFails(n) PROVE PlanInv'
<1>1. /\ trace[n].doing = "refresh" /\ UNCHANGED <<plan, phase, aborted, landed>> /\ woken' = TRUE
      /\ trace' = [trace EXCEPT ![n].status = "failed", ![n].doing = "nothing"]
  BY DEF RefreshFails
<1>2. /\ n \in Nodes /\ trace[n] \in NodeTrace /\ NodeOK(n, trace[n])
      /\ trace[n].status = "running" /\ trace[n].attempt > 0 /\ landed[n] = 0 /\ trace \in [Node -> NodeTrace]
  BY <1>1, RunsNow DEF TraceOK
<1>3. PICK s \in NodeTrace : s = trace[n]
  BY <1>2
<1> DEFINE r1 == [s EXCEPT !.status = "failed"]
           r2 == [r1 EXCEPT !.doing = "nothing"]
<1>4. trace' = [trace EXCEPT ![n] = r2]
  <2>1. trace' = [trace EXCEPT ![n] = [s EXCEPT !.status = "failed", !.doing = "nothing"]]
    BY <1>1, <1>2, <1>3
  <2>2. [s EXCEPT !.status = "failed", !.doing = "nothing"] = r2
    OBVIOUS
  <2> QED
    BY <2>1, <2>2, Zenon
<1>5. r1 \in NodeTrace /\ r1.status = "failed" /\ r1.attempt = s.attempt /\ r1.state = s.state
  BY DEF NodeTrace, Status
<1> HIDE DEF r1
<1>6. r2 \in NodeTrace /\ r2.status = "failed" /\ r2.doing = "nothing" /\ r2.attempt = s.attempt /\ r2.state = s.state
  BY <1>5 DEF NodeTrace
<1>7. PICK r : r = r2
  OBVIOUS
<1> HIDE DEF r2
<1>8. NodeOK(n, r) /\ r.status \notin {"pending", "blocked"}
  BY <1>2, <1>3, <1>6, <1>7 DEF NodeOK
<1>9. PICK u : u = [trace EXCEPT ![n] = r]
  OBVIOUS
<1>10. trace' = u
  BY <1>4, <1>7, <1>9
<1>11. landed' = [landed EXCEPT ![n] = 0]
  BY <1>1, <1>2 DEF PlanInv, LandedOK
<1>12. /\ plan' = plan /\ aborted' = aborted /\ woken' \in BOOLEAN /\ phase' \in {phase, "rejected"}
       /\ trace[n].doing \in {"act", "refresh"} /\ 0 \in 0 .. 1 /\ ~(0 = 1) /\ r.state = trace[n].state
  BY <1>1, <1>3, <1>6, <1>7
<1> QED
  BY <1>8, <1>9, <1>10, <1>11, <1>12, NodeStepKeeps

LEMMA AttemptThrowsKeeps == ASSUME PlanInv, NEW n \in Node, AttemptThrows(n) PROVE PlanInv'
<1>1. /\ trace[n].doing = "refresh" /\ aborted /\ UNCHANGED <<plan, aborted, woken, landed>>
      /\ trace' = [trace EXCEPT ![n].doing = "thrown"] /\ phase' \in {phase, "rejected"}
  BY DEF AttemptThrows
<1>2. /\ n \in Nodes /\ trace[n] \in NodeTrace /\ NodeOK(n, trace[n])
      /\ trace[n].status = "running" /\ trace[n].attempt > 0 /\ landed[n] = 0 /\ trace \in [Node -> NodeTrace]
  BY <1>1, RunsNow DEF TraceOK
<1>3. PICK s \in NodeTrace : s = trace[n]
  BY <1>2
<1>4. PICK r : r = [s EXCEPT !.doing = "thrown"]
  OBVIOUS
<1>5. r \in NodeTrace /\ r.status = s.status /\ r.doing = "thrown" /\ r.attempt = s.attempt /\ r.state = s.state
  BY <1>4 DEF NodeTrace
<1>6. NodeOK(n, r) /\ r.status \notin {"pending", "blocked"}
  BY <1>1, <1>2, <1>3, <1>5 DEF NodeOK
<1>7. PICK u : u = [trace EXCEPT ![n] = r]
  OBVIOUS
<1>8. trace' = u
  BY <1>1, <1>2, <1>3, <1>4, <1>7
<1>9. landed' = [landed EXCEPT ![n] = 0]
  BY <1>1, <1>2 DEF PlanInv, LandedOK
<1>10. /\ plan' = plan /\ aborted' = aborted /\ woken' \in BOOLEAN /\ phase' \in {phase, "rejected"}
       /\ trace[n].doing \in {"act", "refresh"} /\ 0 \in 0 .. 1 /\ ~(0 = 1) /\ r.state = trace[n].state
  BY <1>1, <1>3, <1>5 DEF PlanInv
<1> QED
  BY <1>6, <1>7, <1>8, <1>9, <1>10, NodeStepKeeps

--------------------------------------------------------------------------------
(* The steps of the call.                                                    *)

LEMMA PlanOpensKeeps == ASSUME PlanInv, PlanOpens PROVE PlanInv'
<1>1. /\ phase = "new" /\ UNCHANGED <<plan, aborted, woken, trace, landed>>
      /\ phase' = IF Valid THEN "open" ELSE "invalid"
  BY DEF PlanOpens
<1>2. TraceOK(trace)' /\ LandedOK'
  BY <1>1, Carried DEF PlanInv, LandedOK
<1>3. trace = [n \in Node |-> Fresh]
  BY <1>1 DEF PlanInv, PhaseOK
<1>4. Valid' <=> Valid
  BY <1>1, ValidStays
<1>5. PhaseOK'
  BY <1>1, <1>3, <1>4 DEF PhaseOK
<1> QED
  BY <1>1, <1>2, <1>5 DEF PlanInv

LEMMA SchedulerPassKeeps == ASSUME PlanInv, SchedulerPass PROVE PlanInv'
<1>1. /\ phase = "open" /\ Unsettled # {} /\ ~aborted /\ UNCHANGED <<plan, aborted, landed>>
      /\ trace' = Visits(trace)
      /\ woken' = (\A n \in Nodes : Visits(trace)[n].doing = "nothing")
      /\ phase' = IF Visits(trace) = trace /\ Running = {} THEN "stuck" ELSE "open"
  BY DEF SchedulerPass
<1>2. plan \in Request /\ Gone \notin Node /\ Valid /\ TraceOK(trace)
  BY <1>1, PlanAssumption DEF PlanInv, PhaseOK
<1>3. PICK u : u = Visits(trace)
  OBVIOUS
<1>4. /\ TraceOK(u) /\ Proceeds(trace, u)
      /\ ~(RunningIn(trace) = {} /\ u = trace)
  <2>1. PICK t : t = trace
    OBVIOUS
  <2>2. /\ TraceOK(Visits(t)) /\ Proceeds(t, Visits(t))
        /\ ~aborted /\ RunningIn(t) = {} /\ Visits(t) = t
             => \A n \in Nodes : t[n].status \notin {"pending", "running"}
    BY <1>2, <2>1, PassKeeps
  <2> QED
    BY <1>1, <1>3, <2>1, <2>2 DEF Unsettled
<1>5. trace' = u /\ phase' = "open" /\ woken' \in BOOLEAN
  BY <1>1, <1>3, <1>4 DEF Running, RunningIn
<1>6. TraceOK(trace)'
  BY <1>1, <1>4, <1>5, Carried
<1>7. LandedOK'
  <2>1. \A n \in Node : landed[n] > 0 => u[n].status \in Settled
    BY <1>4 DEF PlanInv, LandedOK, Proceeds, Settled
  <2> QED
    BY <1>1, <1>5, <2>1 DEF PlanInv, LandedOK
<1>8. Valid'
  BY <1>1, <1>2, ValidStays
<1>9. PhaseOK'
  BY <1>5, <1>8 DEF PhaseOK
<1> QED
  BY <1>1, <1>5, <1>6, <1>7, <1>9 DEF PlanInv

LEMMA SchedulerAbortsKeeps == ASSUME PlanInv, SchedulerAborts PROVE PlanInv'
<1>1. /\ phase = "open" /\ aborted /\ UNCHANGED <<plan, aborted, woken, landed>> /\ phase' = "draining"
      /\ trace' = [n \in Node |-> IF n \in Nodes /\ trace[n].status = "pending"
                                  THEN [trace[n] EXCEPT !.status = "cancelled"] ELSE trace[n]]
  BY DEF SchedulerAborts
<1>2. plan \in Request /\ Valid /\ TraceOK(trace) /\ trace \in [Node -> NodeTrace] /\ Nodes \subseteq Node
  BY <1>1, PlanAssumption, PlanFacts DEF PlanInv, PhaseOK, TraceOK
<1>3. PICK u : u = trace'
  OBVIOUS
<1>4. ASSUME NEW n \in Node
      PROVE  /\ u[n] \in NodeTrace /\ NodeOK(n, u[n]) /\ (n \in Nodes => u[n].status # "pending")
             /\ trace[n].status \in Settled => u[n] = trace[n]
             /\ u[n].doing = trace[n].doing /\ u[n].attempt = trace[n].attempt /\ u[n].state = trace[n].state
             /\ u[n].status = "blocked" => trace[n].status = "blocked"
  <2>1. trace[n] \in NodeTrace /\ NodeOK(n, trace[n])
    BY <1>2 DEF TraceOK
  <2>2. PICK s \in NodeTrace : s = trace[n]
    BY <2>1
  <2>3. CASE n \in Nodes /\ s.status = "pending"
    <3>1. u[n] = [s EXCEPT !.status = "cancelled"]
      BY <1>1, <1>3, <2>2, <2>3
    <3>2. PICK r : r = [s EXCEPT !.status = "cancelled"]
      OBVIOUS
    <3>3. r \in NodeTrace /\ r.status = "cancelled" /\ r.doing = s.doing /\ r.attempt = s.attempt /\ r.state = s.state
      BY <3>2 DEF NodeTrace, Status
    <3>4. NodeOK(n, r)
      BY <1>1, <2>1, <2>2, <2>3, <3>3 DEF NodeOK
    <3> HIDE <1>1, <1>3
    <3> QED
      BY <2>2, <2>3, <3>1, <3>2, <3>3, <3>4 DEF Settled
  <2>4. CASE ~(n \in Nodes /\ s.status = "pending")
    <3>1. u[n] = s
      BY <1>1, <1>3, <2>2, <2>4
    <3> QED
      BY <2>1, <2>2, <2>4, <3>1
  <2> QED
    BY <2>3, <2>4
<1>5. u \in [Node -> NodeTrace]
  <2>1. DOMAIN u = Node /\ u = [n \in Node |-> u[n]]
    BY <1>1, <1>3
  <2> QED
    BY <1>4, <2>1
<1>6. \A n \in Nodes : DepsOK(n, u)
  <2> TAKE n \in Nodes
  <2>1. DepsOK(n, trace) /\ n \in Node
    BY <1>2 DEF TraceOK
  <2>2. SettledStay(trace, u)
    BY <1>2, <1>4 DEF SettledStay
  <2>3. SameBasis(n, trace, u)
    BY <1>4, <2>1 DEF SameBasis
  <2> QED
    BY <1>2, <2>1, <2>2, <2>3, DepsStay
<1>7. Cardinality(RunningIn(u)) <= MaxConcurrency
  <2>1. RunningIn(u) = RunningIn(trace)
    BY <1>2, <1>4 DEF RunningIn
  <2> QED
    BY <1>2, <2>1 DEF TraceOK
<1>8. TraceOK(u)
  BY <1>4, <1>5, <1>6, <1>7 DEF TraceOK
<1>9. TraceOK(trace)'
  BY <1>1, <1>3, <1>8, Carried
<1>10. LandedOK'
  <2>1. \A n \in Node : landed[n] > 0 => u[n].status \in Settled
    BY <1>4 DEF PlanInv, LandedOK, Settled
  <2> QED
    BY <1>1, <1>3, <2>1 DEF PlanInv, LandedOK
<1>11. Valid' /\ Nodes' = Nodes
  BY <1>1, <1>2, ValidStays DEF Nodes, Range
<1>12. \A n \in Nodes : u[n].status # "pending"
  BY <1>2, <1>4
<1>13. PhaseOK'
  <2>1. phase' = "draining" /\ aborted'
    BY <1>1
  <2> QED
    BY <1>3, <1>11, <1>12, <2>1 DEF PhaseOK
<1> QED
  BY <1>1, <1>9, <1>10, <1>13 DEF PlanInv

LEMMA PlanAnswersKeeps == ASSUME PlanInv, PlanAnswers PROVE PlanInv'
<1>1. /\ (phase = "open" /\ Unsettled = {}) \/ phase = "draining"
      /\ Running = {} /\ phase' = "answered" /\ UNCHANGED <<plan, aborted, woken, trace, landed>>
  BY DEF PlanAnswers
<1>2. TraceOK(trace)' /\ LandedOK'
  BY <1>1, Carried DEF PlanInv, LandedOK
<1>3. plan \in Request /\ Nodes \subseteq Node /\ \A n \in Nodes : trace[n].status \in Status
  <2>1. plan \in Request /\ Nodes \subseteq Node
    BY PlanAssumption, PlanFacts DEF PlanInv
  <2>2. \A n \in Nodes : trace[n] \in NodeTrace
    BY <2>1 DEF PlanInv, TraceOK
  <2> QED
    BY <2>1, <2>2 DEF NodeTrace
<1>4. Valid' /\ Nodes' = Nodes
  <2>1. Valid
    BY <1>1 DEF PlanInv, PhaseOK
  <2> QED
    BY <1>1, <2>1, ValidStays DEF Nodes, Range
<1>5. (RunningIn(trace))' = {}
  BY <1>1, <1>4 DEF Running, RunningIn
<1>6. CASE phase = "open" /\ Unsettled = {}
  <2>1. \A n \in Nodes : trace[n].status \notin {"pending", "running"}
    BY <1>6 DEF Unsettled
  <2>2. \A n \in Nodes : trace[n].status \in Settled /\ trace[n].status # "pending"
    BY <1>3, <2>1 DEF Status, Settled
  <2>3. PhaseOK'
    BY <1>1, <1>4, <1>5, <2>2 DEF PhaseOK
  <2> QED
    BY <1>1, <1>2, <2>3 DEF PlanInv
<1>7. CASE phase = "draining"
  <2>1. aborted /\ \A n \in Nodes : trace[n].status # "pending"
    BY <1>7 DEF PlanInv, PhaseOK
  <2>2. PhaseOK'
    BY <1>1, <1>4, <1>5, <2>1 DEF PhaseOK
  <2> QED
    BY <1>1, <1>2, <2>2 DEF PlanInv
<1> QED
  BY <1>1, <1>6, <1>7

LEMMA PlanAbortsKeeps == ASSUME PlanInv, PlanAborts PROVE PlanInv'
<1>1. /\ phase \in {"new", "open", "draining"} /\ aborted' = TRUE
      /\ UNCHANGED <<plan, phase, woken, trace, landed>>
  BY DEF PlanAborts
<1>2. TraceOK(trace)' /\ LandedOK'
  BY <1>1, Carried DEF PlanInv, LandedOK
<1>3. (Valid' <=> Valid) /\ Nodes' = Nodes
  BY <1>1, ValidStays DEF Nodes, Range
<1>4. PhaseOK'
  BY <1>1, <1>3 DEF PlanInv, PhaseOK
<1> QED
  BY <1>1, <1>2, <1>4 DEF PlanInv

--------------------------------------------------------------------------------
(* Theorems.                                                                 *)

\* What a plan records of its nodes fits their dependencies and its own phase,
\* whatever act_ui and observe_ui answer and whenever the signal comes.
THEOREM PlanInductive == PlanSafety => []PlanInv
<1>1. PlanInit => PlanInv
  BY PlanInitInv
<1>2. PlanInv /\ [PlanNext]_planVars => PlanInv'
  <2> SUFFICES ASSUME PlanInv, [PlanNext]_planVars PROVE PlanInv'
    OBVIOUS
  <2>1. CASE PlanOpens
    BY <2>1, PlanOpensKeeps
  <2>2. CASE SchedulerPass
    BY <2>2, SchedulerPassKeeps
  <2>3. CASE SchedulerAborts
    BY <2>3, SchedulerAbortsKeeps
  <2>4. CASE PlanAnswers
    BY <2>4, PlanAnswersKeeps
  <2>5. CASE PlanAborts
    BY <2>5, PlanAbortsKeeps
  <2>6. ASSUME NEW n \in Node, NodeStep(n) PROVE PlanInv'
    <3>1. CASE ActAnswers(n)
      BY <3>1, ActAnswersKeeps
    <3>2. CASE Refreshes(n)
      BY <3>2, RefreshesKeeps
    <3>3. CASE RefreshFails(n)
      BY <3>3, RefreshFailsKeeps
    <3>4. CASE AttemptThrows(n)
      BY <3>4, AttemptThrowsKeeps
    <3> QED
      BY <2>6, <3>1, <3>2, <3>3, <3>4, Zenon DEF NodeStep
  <2>7. CASE UNCHANGED planVars
    <3>1. /\ plan' = plan /\ phase' = phase /\ aborted' = aborted /\ woken' = woken
          /\ trace' = trace /\ landed' = landed
      BY <2>7 DEF planVars
    <3>2. TraceOK(trace)' /\ LandedOK'
      BY <3>1, Carried DEF PlanInv, LandedOK
    <3>3. (Valid' <=> Valid) /\ Nodes' = Nodes /\ (RunningIn(trace))' = RunningIn(trace)
      BY <3>1, ValidStays DEF Nodes, Range, RunningIn
    <3>4. PhaseOK'
      BY <3>1, <3>3 DEF PlanInv, PhaseOK
    <3> QED
      BY <3>1, <3>2, <3>4 DEF PlanInv
  <2> QED
    BY <2>1, <2>2, <2>3, <2>4, <2>5, <2>6, <2>7, Zenon DEF PlanNext, PlanCallStep
<1> QED
  BY <1>1, <1>2, PTL DEF PlanSafety

\* A plan sends a node's actions again only after answers that denied their
\* delivery: once they took effect undenied, the node is over.
THEOREM PlanRetriesTheDenied == PlanSafety => []NoRetryOfDelivered
<1>1. PlanInv => NoRetryOfDelivered
  <2> SUFFICES ASSUME PlanInv, NEW n \in Node, landed[n] > 0
               PROVE  trace[n].doing \notin {"act", "refresh"}
    BY DEF PlanInv, LandedOK, NoRetryOfDelivered
  <2>1. landed[n] # 0
    BY DEF PlanInv, LandedOK
  <2> QED
    BY <2>1, RunsNow
<1> QED
  BY <1>1, PlanInductive, PTL

\* A node is only attempted when all it depends on has succeeded, with no more
\* than maxConcurrency of them at a time, on the state its source left behind
\* or one observed since; and a plan without a cycle is never found stuck and
\* is answered with a verdict on every node.
THEOREM PlanFitsItsGraph == PlanSafety => []PlanSound
<1>1. ASSUME PlanInv PROVE BranchOrder
  <2>1. plan \in Request /\ TraceOK(trace)
    BY <1>1, PlanAssumption DEF PlanInv
  <2>2. Cardinality(Running) <= MaxConcurrency
    BY <2>1 DEF TraceOK, Running, RunningIn
  <2>3. ASSUME NEW n \in Nodes, trace[n].attempt > 0
        PROVE  /\ \A d \in plan.dependsOn[n] : trace[d].status = "succeeded"
               /\ trace[n].state \in {Made(n, "refreshed", k) : k \in 1..3}
                    \cup {IF plan.stateId[n] THEN Made(n, "given", 0)
                          ELSE Made(plan.stateFrom[n], "successor", trace[plan.stateFrom[n]].attempt)}
    <3>1. (\A d \in plan.dependsOn[n] : trace[d].status = "succeeded") /\ trace[n].state \in Bases(n, trace)
      BY <2>1, <2>3 DEF TraceOK, DepsOK
    <3> QED
      BY <3>1, Zenon DEF Bases
  <2> QED
    BY <2>2, <2>3, Zenon DEF BranchOrder
<1>2. ASSUME PlanInv PROVE TraceComplete
  <2>1. plan \in Request /\ Gone \notin Node /\ TraceOK(trace) /\ Nodes \subseteq Node /\ PhaseOK
    BY <1>2, PlanAssumption, PlanFacts DEF PlanInv
  <2>2. phase # "stuck"
    BY <2>1 DEF PhaseOK
  <2>3. ASSUME NEW n \in Nodes, trace[n].status = "failed" PROVE trace[n].state # NoState
    <3>1. n \in Node /\ NodeOK(n, trace[n]) /\ DepsOK(n, trace) /\ trace[n] \in NodeTrace
      BY <2>1 DEF TraceOK
    <3>2. trace[n].attempt > 0 /\ trace[n] # Fresh
      BY <2>3, <3>1, FreshIsOK DEF NodeOK
    <3>3. Valid
      <4>1. trace # [m \in Node |-> Fresh]
        BY <3>1, <3>2
      <4> QED
        BY <2>1, <4>1 DEF PhaseOK
    <3>4. trace[n].state \in Bases(n, trace)
      BY <3>1, <3>2 DEF DepsOK
    <3>5. NoState \notin Bases(n, trace)
      <4>1. \A m, k, a : NoState = Made(m, k, a) => m = Gone
        BY DEF NoState, Made
      <4>2. plan.stateFrom[n] # Gone => plan.stateFrom[n] \in Node
        BY <2>1, <3>3, ValidFacts
      <4>3. ~plan.stateId[n] => plan.stateFrom[n] # Gone
        BY <3>3, ValidFacts
      <4> QED
        BY <2>1, <3>1, <4>1, <4>3 DEF Bases
    <3> QED
      BY <3>4, <3>5
  <2>4. ASSUME phase = "answered"
        PROVE  /\ Running = {}
               /\ \A n \in Nodes : trace[n].status \in {"pending", "running"} => trace[n].doing = "thrown"
               /\ ~aborted => \A n \in Nodes :
                    (trace[n].status = "blocked") = (\E d \in plan.dependsOn[n] : trace[d].status # "succeeded")
    <3>1. RunningIn(trace) = {} /\ (\A n \in Nodes : trace[n].status # "pending")
      BY <2>1, <2>4 DEF PhaseOK
    <3>2. Running = {}
      BY <3>1 DEF Running, RunningIn
    <3>3. ASSUME NEW n \in Nodes, trace[n].status \in {"pending", "running"} PROVE trace[n].doing = "thrown"
      <4>1. n \notin RunningIn(trace) /\ NodeOK(n, trace[n]) /\ trace[n] \in NodeTrace
        BY <2>1, <3>1 DEF TraceOK
      <4>2. trace[n].status = "running"
        BY <3>1, <3>3
      <4>3. trace[n].doing # "nothing" /\ trace[n].doing \in {"nothing", "act", "refresh", "thrown"}
        BY <4>1, <4>2 DEF NodeOK, NodeTrace
      <4> QED
        BY <4>1, <4>3 DEF RunningIn
    <3>4. ASSUME ~aborted, NEW n \in Nodes
          PROVE  (trace[n].status = "blocked") = (\E d \in plan.dependsOn[n] : trace[d].status # "succeeded")
      <4>1. n \in Node /\ NodeOK(n, trace[n]) /\ DepsOK(n, trace)
        BY <2>1 DEF TraceOK
      <4>2. trace[n].status \in Settled
        BY <2>1, <2>4, <3>4 DEF PhaseOK
      <4>3. trace[n].status # "cancelled"
        BY <3>4, <4>1 DEF NodeOK
      <4>4. trace[n].status = "blocked" => \E d \in plan.dependsOn[n] : trace[d].status # "succeeded"
        BY <4>1 DEF DepsOK
      <4>5. ASSUME NEW d \in plan.dependsOn[n], trace[d].status # "succeeded" PROVE trace[n].status = "blocked"
        <5>1. ~(trace[n].attempt > 0)
          BY <4>1, <4>5 DEF DepsOK
        <5> QED
          BY <4>1, <4>2, <4>3, <5>1 DEF NodeOK, Settled
      <4> QED
        BY <4>4, <4>5
    <3> QED
      BY <3>2, <3>3, <3>4
  <2> QED
    BY <2>2, <2>3, <2>4, Zenon DEF TraceComplete
<1>3. PlanInv => PlanSound
  BY <1>1, <1>2 DEF PlanSound
<1> QED
  BY <1>3, PlanInductive, PTL

--------------------------------------------------------------------------------
(* Goals: the invariant.                                                     *)

GoalSafety == GoalInit /\ [][GoalNext]_goalVars

JobFields == {"status", "doing", "step", "view", "recent", "batch", "settled", "worked", "acts", "typed"}

\* Where a worker is says how often it may have acted, and success what it saw.
JobOK(t, j) ==
  /\ DOMAIN j = JobFields
  /\ j.acts \in Nat /\ j.acts <= MaxSteps(t)
  /\ j.status = "active" <=> j.doing # "nothing"
  /\ j.status = "pending" \/ j.doing = "observe" => j.acts = 0
  /\ j.doing \in {"decide", "act", "refresh", "settle"} => j.step \in Nat /\ j.step < MaxSteps(t)
  /\ j.doing \in {"decide", "act"} => j.acts <= j.step
  /\ j.doing \in {"refresh", "settle"} => j.acts <= j.step + 1
  /\ j.doing \in {"nothing", "observe", "decide", "act", "refresh", "settle"}
  /\ j.status = "succeeded" /\ tasks.completion[t] => j.view.met

\* What a worker was started for is among the results.
Met(t, j, taken) ==
  j[t].status \notin {"pending", "blocked"} => \A d \in Dependencies(t) : j[d].status = "succeeded" /\ d \in taken

WorkersOK(j, taken) ==
  /\ DOMAIN j = Task /\ taken \subseteq Members
  /\ \A t \in Task : JobOK(t, j[t]) /\ (t \notin Members => j[t] = NewJob)
  /\ \A t \in taken : j[t].status \notin {"pending", "active"}
  /\ \A t \in Members : Met(t, j, taken)
  /\ Cardinality(Active(j, taken)) <= Concurrency

GoalPhaseOK ==
  /\ goal \in {"new", "planning", "planned", "open", "invalid", "rejected", "succeeded", "partial", "failed", "escalated", "cancelled"}
  /\ goal \in {"new", "planning", "planned", "invalid", "rejected"} => job = [t \in Task |-> NewJob]
  /\ goal \in {"planned", "open"} => ValidTasks
  /\ goal = "invalid" => ~request.automatic
  /\ goal = "planning" => request.automatic
  /\ goal = "succeeded" => \A t \in Members : job[t].status = "succeeded"

GoalInv == /\ request \in Goals /\ tasks \in GoalTasks /\ stopped \in BOOLEAN
           /\ WorkersOK(job, results) /\ GoalPhaseOK

--------------------------------------------------------------------------------
(* What a goal's tasks bound.                                                *)

DependenciesOf(p, t) == p.dependsOn[t] \cup ({p.stateFrom[t]} \ {NoTask})
MembersOf(p) == Range(p.order)
PeeledUpTo(f, p, n) ==
  f = [round \in 0 .. n |-> IF round = 0 THEN {}
                            ELSE LET before == f[round - 1] IN {m \in MembersOf(p) : DependenciesOf(p, m) \subseteq before}]
PeeledOf(p) == CHOOSE f : PeeledUpTo(f, p, MaxTasks)
ValidTasksOf(p) ==
  /\ Len(p.order) \in 1 .. MaxTasks
  /\ IsInjective(p.order)
  /\ \A t \in MembersOf(p) : p.inputs[t] <= 1 /\ DependenciesOf(p, t) \subseteq MembersOf(p) \ {t}
  /\ PeeledOf(p)[Len(p.order)] = MembersOf(p)

LEMMA ValidTasksIs == ValidTasks <=> ValidTasksOf(tasks)
BY Zenon DEF ValidTasks, ValidTasksOf, Peeled, PeeledOf, PeeledUpTo, Members, MembersOf, Dependencies, DependenciesOf

LEMMA ValidTasksNext == ValidTasks' <=> ValidTasksOf(tasks')
BY Zenon DEF ValidTasks, ValidTasksOf, Peeled, PeeledOf, PeeledUpTo, Members, MembersOf, Dependencies, DependenciesOf

LEMMA PeeledExists ==
  ASSUME NEW p, NEW n \in Nat
  PROVE  \E f : PeeledUpTo(f, p, n)
<1> DEFINE Next(b) == {m \in MembersOf(p) : DependenciesOf(p, m) \subseteq b}
           S == {m \in Nat : \E f : PeeledUpTo(f, p, m)}
<1>0. \A f, m : PeeledUpTo(f, p, m) <=> f = [k \in 0 .. m |-> IF k = 0 THEN {} ELSE Next(f[k - 1])]
  BY DEF PeeledUpTo
<1> HIDE DEF Next
<1>1. 0 \in S
  <2> DEFINE f == [k \in 0 .. 0 |-> {}]
  <2>1. f = [k \in 0 .. 0 |-> IF k = 0 THEN {} ELSE Next(f[k - 1])]
    OBVIOUS
  <2> HIDE DEF f
  <2> QED
    BY <1>0, <2>1
<1>2. ASSUME NEW m \in Nat, m \in S PROVE m + 1 \in S
  <2>1. PICK f : PeeledUpTo(f, p, m)
    BY <1>2
  <2> DEFINE v == Next(f[m])
             g == [k \in 0 .. m + 1 |-> IF k = m + 1 THEN v ELSE f[k]]
  <2>2. \A k \in 0 .. m : f[k] = IF k = 0 THEN {} ELSE Next(f[k - 1])
    <3>1. f = [k \in 0 .. m |-> IF k = 0 THEN {} ELSE Next(f[k - 1])]
      BY <1>0, <2>1, Zenon
    <3> QED
      BY <3>1, Zenon
  <2>3. ASSUME NEW k \in 0 .. m + 1
        PROVE  g[k] = IF k = 0 THEN {} ELSE Next(g[k - 1])
    <3>1. CASE k = m + 1
      <4>1. k # 0 /\ k - 1 = m /\ m \in 0 .. m + 1 /\ m # m + 1
        BY <3>1
      <4>2. g[k] = v /\ g[k - 1] = f[m]
        BY <3>1, <4>1
      <4> QED
        BY <3>1, <4>1, <4>2
    <3>2. CASE k # m + 1
      <4>1. k \in 0 .. m /\ g[k] = f[k]
        BY <3>2
      <4>2. k # 0 => g[k - 1] = f[k - 1]
        BY <4>1
      <4> HIDE DEF g
      <4> QED
        BY <4>1, <4>2, <2>2
    <3> QED
      BY <3>1, <3>2
  <2>4. g = [k \in 0 .. m + 1 |-> IF k = 0 THEN {} ELSE Next(g[k - 1])]
    <3>1. g = [k \in 0 .. m + 1 |-> g[k]]
      OBVIOUS
    <3> HIDE DEF g
    <3> QED
      BY <2>3, <3>1
  <2>5. PeeledUpTo(g, p, m + 1)
    <3> HIDE DEF g
    <3> QED
      BY <1>0, <2>4, Zenon
  <2> HIDE DEF g
  <2> QED
    BY <2>5
<1>3. n \in S
  <2> HIDE DEF S
  <2> QED
    BY <1>1, <1>2, SetInduction
<1> QED
  BY <1>3

LEMMA PeeledIs ==
  ASSUME NEW p
  PROVE  /\ PeeledOf(p)[0] = {}
         /\ \A k \in 1 .. MaxTasks : PeeledOf(p)[k] = {m \in MembersOf(p) : DependenciesOf(p, m) \subseteq PeeledOf(p)[k - 1]}
<1> DEFINE Next(b) == {m \in MembersOf(p) : DependenciesOf(p, m) \subseteq b}
<1>1. MaxTasks \in Nat
  BY DEF MaxTasks
<1>2. PeeledOf(p) = CHOOSE f : PeeledUpTo(f, p, MaxTasks)
  BY DEF PeeledOf
<1>3. PeeledUpTo(PeeledOf(p), p, MaxTasks)
  BY <1>1, <1>2, PeeledExists
<1>4. PeeledOf(p) = [k \in 0 .. MaxTasks |-> IF k = 0 THEN {} ELSE Next(PeeledOf(p)[k - 1])]
  BY <1>3, Zenon DEF PeeledUpTo
<1> HIDE DEF Next
<1>5. \A k \in 0 .. MaxTasks : PeeledOf(p)[k] = IF k = 0 THEN {} ELSE Next(PeeledOf(p)[k - 1])
  BY <1>4, Zenon
<1>6. PeeledOf(p)[0] = {} /\ \A k \in 1 .. MaxTasks : PeeledOf(p)[k] = Next(PeeledOf(p)[k - 1])
  BY <1>1, <1>5
<1> QED
  BY <1>6 DEF Next

LEMMA GoalFacts ==
  ASSUME tasks \in GoalTasks, request \in Goals
  PROVE  /\ Len(tasks.order) \in Nat
         /\ Members \subseteq Task /\ IsFiniteSet(Members)
         /\ \A k \in 1 .. Len(tasks.order) : tasks.order[k] \in Members
         /\ \A n \in Members : \E k \in 1 .. Len(tasks.order) : tasks.order[k] = n
         /\ Concurrency \in 1 .. 16
         /\ \A t \in Task : MaxSteps(t) \in 1 .. 30 /\ tasks.completion[t] \in BOOLEAN
<1>1. tasks.order \in Seq(Task) /\ tasks.maxSteps \in [Task -> Int] /\ tasks.completion \in [Task -> BOOLEAN]
  BY DEF GoalTasks
<1> DEFINE s == tasks.order
<1>2. s \in Seq(Task)
  BY <1>1
<1>3. Members = {s[k] : k \in DOMAIN s}
  BY DEF Members, Range
<1> HIDE DEF s
<1>4. Len(s) \in Nat /\ DOMAIN s = 1 .. Len(s) /\ \A k \in 1 .. Len(s) : s[k] \in Task
  BY <1>2
<1>5. Members \subseteq Task
  BY <1>3, <1>4
<1>6. /\ \A k \in 1 .. Len(s) : s[k] \in Members
      /\ \A n \in Members : \E k \in 1 .. Len(s) : s[k] = n
  BY <1>3, <1>4
<1>7. IsFiniteSet(Members)
  <2> DEFINE f == [k \in 1 .. Len(s) |-> s[k]]
  <2>1. IsFiniteSet(1 .. Len(s))
    BY <1>4, FS_Interval
  <2>2. f \in Surjection(1 .. Len(s), Members)
    BY <1>6 DEF Surjection
  <2> HIDE DEF f
  <2> QED
    BY <2>1, <2>2, FS_Surjection
<1>8. Concurrency \in 1 .. 16
  <2>1. request.maxConcurrency \in Int
    BY GoalAssumption DEF GoalRequest
  <2> QED
    BY <2>1 DEF Concurrency, Clamp
<1>9. \A t \in Task : MaxSteps(t) \in 1 .. 30 /\ tasks.completion[t] \in BOOLEAN
  <2> TAKE t \in Task
  <2>1. tasks.maxSteps[t] \in Int /\ tasks.completion[t] \in BOOLEAN
    BY <1>1
  <2> QED
    BY <2>1 DEF MaxSteps, Clamp
<1> QED
  BY <1>4, <1>5, <1>6, <1>7, <1>8, <1>9 DEF s

\* Among any tasks of a goal that passes validation there is one that depends
\* on none of them.
LEMMA SomeTaskIsFree ==
  ASSUME ValidTasks, NEW U, U \subseteq Members, U # {}
  PROVE  \E n \in U : Dependencies(n) \cap U = {}
<1> SUFFICES ASSUME \A n \in U : Dependencies(n) \cap U # {} PROVE FALSE
  OBVIOUS
<1>0. PICK p : p = tasks
  OBVIOUS
<1>a. Members = MembersOf(p) /\ \A n : Dependencies(n) = DependenciesOf(p, n)
  BY <1>0 DEF Members, MembersOf, Dependencies, DependenciesOf
<1> DEFINE S == {k \in Nat : k <= MaxTasks => PeeledOf(p)[k] \cap U = {}}
<1>1. MaxTasks \in Nat
  BY DEF MaxTasks
<1>2. 0 \in S
  BY PeeledIs
<1>3. ASSUME NEW k \in Nat, k \in S PROVE k + 1 \in S
  <2> SUFFICES ASSUME k + 1 <= MaxTasks, NEW n \in U, n \in PeeledOf(p)[k + 1] PROVE FALSE
    OBVIOUS
  <2>1. k + 1 \in 1 .. MaxTasks /\ (k + 1) - 1 = k /\ k <= MaxTasks
    BY <1>1
  <2>2. DependenciesOf(p, n) \subseteq PeeledOf(p)[k]
    BY <2>1, PeeledIs
  <2>3. PeeledOf(p)[k] \cap U = {}
    BY <1>3, <2>1
  <2> QED
    BY <1>a, <2>2, <2>3
<1>4. \A k \in Nat : k \in S
  <2> HIDE DEF S
  <2> QED
    BY <1>2, <1>3, SetInduction
<1>5. Len(p.order) \in 1 .. MaxTasks /\ PeeledOf(p)[Len(p.order)] = Members
  BY <1>0, <1>a, ValidTasksIs DEF ValidTasksOf
<1>6. Len(p.order) \in Nat /\ Len(p.order) <= MaxTasks
  BY <1>1, <1>5
<1>7. Members \cap U = {}
  BY <1>4, <1>5, <1>6
<1> QED
  BY <1>7

--------------------------------------------------------------------------------
(* Workers.                                                                  *)

LEMMA EndedJob ==
  ASSUME NEW j, DOMAIN j = JobFields, NEW status
  PROVE  /\ DOMAIN EndJob(j, status) = JobFields
         /\ EndJob(j, status).status = status /\ EndJob(j, status).doing = "nothing"
         /\ EndJob(j, status).view = j.view /\ EndJob(j, status).acts = j.acts
<1> DEFINE a == [j EXCEPT !.status = status]
           b == [a EXCEPT !.doing = "nothing"]
           c == [b EXCEPT !.recent = <<>>]
           d == [c EXCEPT !.batch = <<>>]
           e == [d EXCEPT !.settled = 0]
           f == [e EXCEPT !.worked = FALSE]
           g == [f EXCEPT !.step = 0]
           Is(k) == /\ DOMAIN k = JobFields /\ k.status = status
                    /\ k.view = j.view /\ k.acts = j.acts
<1>1. EndJob(j, status) = g
  BY DEF EndJob
<1>2. Is(a)
  BY DEF JobFields
<1> HIDE DEF a
<1>3. Is(b) /\ b.doing = "nothing"
  BY <1>2 DEF JobFields
<1> HIDE DEF b
<1>4. Is(c) /\ c.doing = "nothing"
  BY <1>3 DEF JobFields
<1> HIDE DEF c
<1>5. Is(d) /\ d.doing = "nothing"
  BY <1>4 DEF JobFields
<1> HIDE DEF d
<1>6. Is(e) /\ e.doing = "nothing"
  BY <1>5 DEF JobFields
<1> HIDE DEF e
<1>7. Is(f) /\ f.doing = "nothing"
  BY <1>6 DEF JobFields
<1> HIDE DEF f
<1>8. Is(g) /\ g.doing = "nothing"
  BY <1>7 DEF JobFields
<1> QED
  BY <1>1, <1>8

\* A worker that ends is a good one, if what it saw fits what it says.
LEMMA EndIsOK ==
  ASSUME NEW t \in Task, NEW j, DOMAIN j = JobFields, j.acts \in Nat, j.acts <= MaxSteps(t),
         NEW status, status \notin {"pending", "active"},
         status = "succeeded" /\ tasks.completion[t] => j.view.met
  PROVE  JobOK(t, EndJob(j, status)) /\ EndJob(j, status).status = status
<1>1. PICK e : e = EndJob(j, status)
  OBVIOUS
<1>2. DOMAIN e = JobFields /\ e.status = status /\ e.doing = "nothing" /\ e.view = j.view /\ e.acts = j.acts
  BY <1>1, EndedJob
<1>3. JobOK(t, e)
  BY <1>2 DEF JobOK
<1> QED
  BY <1>1, <1>2, <1>3

\* The top of the loop.
LEMMA LookIsOK ==
  ASSUME tasks \in GoalTasks, request \in Goals, NEW t \in Task, NEW j, DOMAIN j = JobFields, j.status = "active",
         j.acts \in Nat, NEW step \in Nat, j.acts <= step, step <= MaxSteps(t), NEW view
  PROVE  JobOK(t, Look(t, j, view, step)) /\ Look(t, j, view, step).status # "pending"
<1> DEFINE a == [j EXCEPT !.view = view]
           b == [a EXCEPT !.step = step]
           seen == [b EXCEPT !.settled = 0]
           next == [seen EXCEPT !.doing = "decide"]
<1>1. Look(t, j, view, step) = IF step >= MaxSteps(t) THEN EndJob(seen, "escalated")
                               ELSE IF stopped THEN EndJob(seen, "cancelled")
                               ELSE IF Satisfied(t, view) THEN EndJob(seen, "succeeded")
                               ELSE next
  BY DEF Look
<1>2. MaxSteps(t) \in 1 .. 30
  BY GoalFacts
<1>3. DOMAIN a = JobFields /\ a.status = "active" /\ a.acts = j.acts /\ a.view = view
  BY DEF JobFields
<1> HIDE DEF a
<1>4. DOMAIN b = JobFields /\ b.status = "active" /\ b.acts = j.acts /\ b.view = view /\ b.step = step
  BY <1>3 DEF JobFields
<1> HIDE DEF b
<1>5. DOMAIN seen = JobFields /\ seen.status = "active" /\ seen.acts = j.acts /\ seen.view = view /\ seen.step = step
  BY <1>4 DEF JobFields
<1> HIDE DEF seen
<1>6. /\ DOMAIN next = JobFields /\ next.status = "active" /\ next.acts = j.acts /\ next.step = step
      /\ next.doing = "decide"
  BY <1>5 DEF JobFields
<1> HIDE DEF next
<1>7. seen.acts \in Nat /\ seen.acts <= MaxSteps(t)
  BY <1>2, <1>5
<1>8. CASE step >= MaxSteps(t)
  <2>1. Look(t, j, view, step) = EndJob(seen, "escalated")
    BY <1>1, <1>8
  <2>2. JobOK(t, EndJob(seen, "escalated")) /\ EndJob(seen, "escalated").status = "escalated"
    BY <1>5, <1>7, EndIsOK
  <2> QED
    BY <2>1, <2>2
<1>9. CASE ~(step >= MaxSteps(t)) /\ stopped
  <2>1. Look(t, j, view, step) = EndJob(seen, "cancelled")
    BY <1>1, <1>9
  <2>2. JobOK(t, EndJob(seen, "cancelled")) /\ EndJob(seen, "cancelled").status = "cancelled"
    BY <1>5, <1>7, EndIsOK
  <2> QED
    BY <2>1, <2>2
<1>10. CASE ~(step >= MaxSteps(t)) /\ ~stopped /\ Satisfied(t, view)
  <2>1. Look(t, j, view, step) = EndJob(seen, "succeeded")
    BY <1>1, <1>10
  <2>2. view.met
    BY <1>10 DEF Satisfied
  <2>3. JobOK(t, EndJob(seen, "succeeded")) /\ EndJob(seen, "succeeded").status = "succeeded"
    BY <1>5, <1>7, <2>2, EndIsOK
  <2> QED
    BY <2>1, <2>3
<1>11. CASE ~(step >= MaxSteps(t)) /\ ~stopped /\ ~Satisfied(t, view)
  <2>1. Look(t, j, view, step) = next
    BY <1>1, <1>11
  <2>2. JobOK(t, next)
    BY <1>2, <1>6, <1>11 DEF JobOK
  <2> QED
    BY <1>6, <2>1, <2>2
<1> QED
  BY <1>8, <1>9, <1>10, <1>11

\* After an act.
LEMMA OnwardIsOK ==
  ASSUME tasks \in GoalTasks, request \in Goals, NEW t \in Task, NEW j, DOMAIN j = JobFields, j.status = "active",
         j.acts \in Nat, j.step \in Nat, j.acts <= j.step + 1, j.step < MaxSteps(t), NEW view
  PROVE  JobOK(t, Onward(t, j, view)) /\ Onward(t, j, view).status # "pending"
<1>0. MaxSteps(t) \in 1 .. 30
  BY GoalFacts
<1> DEFINE settles == j.worked /\ j.settled < Settling /\ ~HasTarget(t, view) /\ ~Satisfied(t, view)
           a == [j EXCEPT !.view = view]
           b == [a EXCEPT !.doing = "settle"]
           c == [b EXCEPT !.settled = j.settled + 1]
<1>1. c = [j EXCEPT !.view = view, !.doing = "settle", !.settled = @ + 1]
  BY DEF JobFields
<1>2. Onward(t, j, view) = IF settles THEN IF stopped THEN EndJob(j, "cancelled") ELSE c
                           ELSE Look(t, j, view, j.step + 1)
  BY <1>1, Zenon DEF Onward
<1>3. DOMAIN a = JobFields /\ a.status = "active" /\ a.acts = j.acts /\ a.step = j.step
  BY DEF JobFields
<1> HIDE DEF a
<1>4. DOMAIN b = JobFields /\ b.status = "active" /\ b.acts = j.acts /\ b.step = j.step /\ b.doing = "settle"
  BY <1>3 DEF JobFields
<1> HIDE DEF b
<1>5. DOMAIN c = JobFields /\ c.status = "active" /\ c.acts = j.acts /\ c.step = j.step /\ c.doing = "settle"
  BY <1>4 DEF JobFields
<1> HIDE DEF c, settles
<1>6. CASE settles /\ stopped
  <2>1. Onward(t, j, view) = EndJob(j, "cancelled")
    BY <1>2, <1>6
  <2>2. j.acts <= MaxSteps(t)
    BY <1>0
  <2>3. JobOK(t, EndJob(j, "cancelled")) /\ EndJob(j, "cancelled").status = "cancelled"
    BY <2>2, EndIsOK
  <2> QED
    BY <2>1, <2>3
<1>7. CASE settles /\ ~stopped
  <2>1. Onward(t, j, view) = c
    BY <1>2, <1>7
  <2>2. JobOK(t, c)
    BY <1>0, <1>5 DEF JobOK
  <2> QED
    BY <1>5, <2>1, <2>2
<1>8. CASE ~settles
  <2>1. Onward(t, j, view) = Look(t, j, view, j.step + 1)
    BY <1>2, <1>8
  <2>2. j.step + 1 \in Nat /\ j.step + 1 <= MaxSteps(t)
    BY <1>0
  <2>3. PICK n \in Nat : n = j.step + 1
    BY <2>2
  <2>4. JobOK(t, Look(t, j, view, n)) /\ Look(t, j, view, n).status # "pending"
    BY <2>2, <2>3, LookIsOK
  <2> QED
    BY <2>1, <2>3, <2>4
<1> QED
  BY <1>6, <1>7, <1>8

LEMMA ActiveIsFinite ==
  ASSUME tasks \in GoalTasks, request \in Goals, NEW j, NEW taken
  PROVE  IsFiniteSet(Active(j, taken)) /\ Cardinality(Active(j, taken)) \in Nat
<1>1. IsFiniteSet(Members)
  BY GoalFacts
<1>2. Active(j, taken) \subseteq Members
  BY DEF Active
<1>3. IsFiniteSet(Active(j, taken))
  BY <1>1, <1>2, FS_Subset
<1> QED
  BY <1>3, FS_CardinalityType

LEMMA FewerActive ==
  ASSUME tasks \in GoalTasks, request \in Goals, NEW j, NEW taken, NEW k, NEW more,
         Active(k, more) \subseteq Active(j, taken), Cardinality(Active(j, taken)) <= Concurrency
  PROVE  Cardinality(Active(k, more)) <= Concurrency
<1>1. /\ IsFiniteSet(Active(j, taken)) /\ Cardinality(Active(j, taken)) \in Nat
      /\ Cardinality(Active(k, more)) \in Nat
  BY ActiveIsFinite
<1>2. Cardinality(Active(k, more)) <= Cardinality(Active(j, taken))
  BY <1>1, FS_Subset
<1>3. Concurrency \in 1 .. 16
  BY GoalFacts
<1> QED
  BY <1>1, <1>2, <1>3

LEMMA OneMoreActive ==
  ASSUME tasks \in GoalTasks, request \in Goals, NEW j, NEW taken, NEW k, NEW more, NEW t,
         Active(k, more) \subseteq Active(j, taken) \cup {t}, ~(Cardinality(Active(j, taken)) >= Concurrency)
  PROVE  Cardinality(Active(k, more)) <= Concurrency
<1> DEFINE W == Active(j, taken) \cup {t}
<1>1. /\ IsFiniteSet(Active(j, taken)) /\ Cardinality(Active(j, taken)) \in Nat
      /\ Cardinality(Active(k, more)) \in Nat
  BY ActiveIsFinite
<1>2. /\ IsFiniteSet(W)
      /\ Cardinality(W) = Cardinality(Active(j, taken)) \/ Cardinality(W) = Cardinality(Active(j, taken)) + 1
  BY <1>1, FS_AddElement
<1> HIDE DEF W
<1>3. Active(k, more) \subseteq W
  BY DEF W
<1>4. Cardinality(Active(k, more)) <= Cardinality(W)
  BY <1>2, <1>3, FS_Subset
<1>5. Concurrency \in 1 .. 16
  BY GoalFacts
<1> QED
  BY <1>1, <1>2, <1>4, <1>5

--------------------------------------------------------------------------------
(* The invariant holds at first, and is carried over.                        *)

LEMMA NewJobIsOK ==
  ASSUME tasks \in GoalTasks, request \in Goals, NEW t \in Task
  PROVE  JobOK(t, NewJob) /\ NewJob.status = "pending" /\ NewJob.doing = "nothing"
<1>1. MaxSteps(t) \in 1 .. 30
  BY GoalFacts
<1>2. /\ DOMAIN NewJob = JobFields
      /\ NewJob.status = "pending" /\ NewJob.doing = "nothing" /\ NewJob.acts = 0
  BY DEF NewJob, JobFields
<1> QED
  BY <1>1, <1>2 DEF JobOK

\* Before a worker is started.
LEMMA NobodyWorks ==
  ASSUME tasks \in GoalTasks, request \in Goals, NEW j, j = [t \in Task |-> NewJob]
  PROVE  WorkersOK(j, {})
<1>1. \A t \in Task : j[t] = NewJob /\ JobOK(t, j[t]) /\ j[t].status = "pending"
  BY NewJobIsOK
<1>2. Active(j, {}) = {}
  BY <1>1, GoalFacts DEF Active
<1>3. Cardinality(Active(j, {})) <= Concurrency
  <2>1. Cardinality(Active(j, {})) = 0
    BY <1>2, FS_EmptySet
  <2>2. Concurrency \in 1 .. 16
    BY GoalFacts
  <2> QED
    BY <2>1, <2>2
<1>4. \A t \in Members : Met(t, j, {})
  BY <1>1, GoalFacts DEF Met
<1>5. DOMAIN j = Task
  OBVIOUS
<1> QED
  BY <1>1, <1>3, <1>4, <1>5 DEF WorkersOK

LEMMA GoalInitInv == GoalInit => GoalInv
<1> SUFFICES ASSUME GoalInit PROVE GoalInv
  OBVIOUS
<1>1. request \in Goals /\ tasks = request.template /\ results = {} /\ goal = "new" /\ stopped = FALSE
      /\ job = [t \in Task |-> NewJob]
  BY DEF GoalInit
<1>2. tasks \in GoalTasks
  BY <1>1, GoalAssumption DEF GoalRequest
<1>3. WorkersOK(job, results)
  BY <1>1, <1>2, NobodyWorks
<1>4. GoalPhaseOK
  BY <1>1 DEF GoalPhaseOK
<1> QED
  BY <1>1, <1>2, <1>3, <1>4 DEF GoalInv

LEMMA WorkersCarried ==
  ASSUME request' = request, tasks' = tasks, NEW j, job' = j, NEW taken, results' = taken, WorkersOK(j, taken)
  PROVE  WorkersOK(job, results)'
<1>1. Members' = Members /\ Concurrency' = Concurrency
  BY DEF Members, Range, Concurrency
<1>2. \A t \in Task : MaxSteps(t)' = MaxSteps(t) /\ Dependencies(t)' = Dependencies(t)
  BY DEF MaxSteps, Dependencies
<1>3. DOMAIN job' = Task /\ results' \subseteq Members
  BY DEF WorkersOK
<1>4. ASSUME NEW t \in Task PROVE JobOK(t, job[t])' /\ (t \notin Members => job'[t] = NewJob)
  <2>1. JobOK(t, j[t]) /\ (t \notin Members => j[t] = NewJob)
    BY DEF WorkersOK
  <2>2. JobOK(t, job[t])'
    BY <1>2, <2>1 DEF JobOK
  <2> QED
    BY <2>1, <2>2
<1>5. \A t \in results' : job'[t].status \notin {"pending", "active"}
  BY DEF WorkersOK
<1>6. ASSUME NEW t \in Members PROVE Met(t, job, results)'
  <2>1. Met(t, j, taken)
    BY DEF WorkersOK
  <2>2. Dependencies(t)' = Dependencies(t)
    BY DEF Dependencies
  <2> QED
    BY <2>1, <2>2 DEF Met
<1>7. Active(job, results)' = Active(j, taken)
  BY <1>1 DEF Active
<1>8. (Cardinality(Active(job, results)) <= Concurrency)'
  <2>1. Cardinality(Active(j, taken)) <= Concurrency
    BY DEF WorkersOK
  <2> QED
    BY <1>1, <1>7, <2>1
<1> QED
  BY <1>1, <1>3, <1>4, <1>5, <1>6, <1>8 DEF WorkersOK

--------------------------------------------------------------------------------
(* The steps of a worker.                                                    *)

\* A step of an active worker that leaves it a good record.
LEMMA JobStepKeeps ==
  ASSUME GoalInv, NEW t \in Task, job[t].doing # "nothing", NEW k, JobOK(t, k), k.status # "pending",
         job' = [job EXCEPT ![t] = k], UNCHANGED <<request, goal, tasks, results, stopped>>
  PROVE  GoalInv'
<1>1. /\ request \in Goals /\ tasks \in GoalTasks /\ stopped \in BOOLEAN /\ WorkersOK(job, results) /\ GoalPhaseOK
      /\ Members \subseteq Task
  BY GoalFacts DEF GoalInv
<1>2. JobOK(t, job[t]) /\ DOMAIN job = Task
  BY <1>1 DEF WorkersOK
<1>3. job[t].status = "active" /\ job[t] # NewJob
  BY <1>2 DEF JobOK, NewJob
<1>4. t \in Members /\ t \notin results
  BY <1>1, <1>3 DEF WorkersOK
<1>5. PICK j : j = job'
  OBVIOUS
<1>6. DOMAIN j = Task /\ j[t] = k /\ \A m \in Task : m # t => j[m] = job[m]
  BY <1>2, <1>5
<1>7. ASSUME NEW m \in Members PROVE Met(m, j, results)
  <2>1. Met(m, job, results)
    BY <1>1 DEF WorkersOK
  <2>2. ASSUME j[m].status \notin {"pending", "blocked"}, NEW d \in Dependencies(m)
        PROVE  j[d].status = "succeeded" /\ d \in results
    <3>1. job[m].status \notin {"pending", "blocked"}
      BY <1>1, <1>3, <1>6, <2>2
    <3>2. job[d].status = "succeeded" /\ d \in results
      BY <2>1, <2>2, <3>1 DEF Met
    <3>3. d \in Task /\ d # t
      BY <1>1, <1>4, <3>2 DEF WorkersOK
    <3> QED
      BY <1>6, <3>2, <3>3
  <2> QED
    BY <2>2 DEF Met
<1>8. Active(j, results) \subseteq Active(job, results)
  BY <1>1, <1>3, <1>4, <1>6 DEF Active
<1>9. Cardinality(Active(j, results)) <= Concurrency
  <2>1. Cardinality(Active(job, results)) <= Concurrency
    BY <1>1 DEF WorkersOK
  <2> QED
    BY <1>1, <1>8, <2>1, FewerActive
<1>10. \A m \in Task : JobOK(m, j[m]) /\ (m \notin Members => j[m] = NewJob)
  BY <1>1, <1>4, <1>6 DEF WorkersOK
<1>11. results \subseteq Members /\ \A m \in results : j[m].status \notin {"pending", "active"}
  BY <1>1, <1>4, <1>6 DEF WorkersOK
<1>12. WorkersOK(j, results)
  BY <1>6, <1>7, <1>9, <1>10, <1>11 DEF WorkersOK
<1>13. WorkersOK(job, results)'
  BY <1>5, <1>12, WorkersCarried
<1>14. goal \notin {"new", "planning", "planned", "invalid", "rejected", "succeeded"}
  <2>1. job # [m \in Task |-> NewJob]
    BY <1>3
  <2>2. ~\A m \in Members : job[m].status = "succeeded"
    BY <1>3, <1>4
  <2> QED
    BY <1>1, <2>1, <2>2 DEF GoalPhaseOK
<1>15. ValidTasks' <=> ValidTasks
  BY ValidTasksIs, ValidTasksNext
<1>16. GoalPhaseOK'
  BY <1>1, <1>14, <1>15 DEF GoalPhaseOK
<1> QED
  BY <1>1, <1>13, <1>16 DEF GoalInv

\* What the invariant says of a worker.
LEMMA WorkerNow ==
  ASSUME GoalInv, NEW t \in Task
  PROVE  /\ JobOK(t, job[t]) /\ DOMAIN job[t] = JobFields /\ tasks \in GoalTasks /\ request \in Goals
         /\ DOMAIN job = Task /\ MaxSteps(t) \in 1 .. 30
         /\ job[t].doing # "nothing" => job[t].status = "active"
BY GoalFacts DEF GoalInv, WorkersOK, JobOK

LEMMA JobObservesKeeps == ASSUME GoalInv, NEW t \in Task, JobObserves(t) PROVE GoalInv'
<1>1. PICK view \in Views : job' = [job EXCEPT ![t] = Look(t, @, view, 0)]
  BY DEF JobObserves
<1>2. job[t].doing = "observe" /\ UNCHANGED <<request, goal, tasks, results, stopped>>
  BY DEF JobObserves
<1>3. PICK j : j = job[t]
  OBVIOUS
<1>4. /\ DOMAIN j = JobFields /\ j.status = "active" /\ j.acts = 0 /\ tasks \in GoalTasks /\ request \in Goals
      /\ 0 <= MaxSteps(t)
  <2>1. JobOK(t, j) /\ j.doing = "observe" /\ MaxSteps(t) \in 1 .. 30 /\ tasks \in GoalTasks /\ request \in Goals
    BY <1>2, <1>3, WorkerNow
  <2> QED
    BY <2>1 DEF JobOK
<1>5. PICK k : k = Look(t, j, view, 0)
  OBVIOUS
<1>6. JobOK(t, k) /\ k.status # "pending"
  <2>1. JobOK(t, Look(t, j, view, 0)) /\ Look(t, j, view, 0).status # "pending"
    BY <1>4, LookIsOK
  <2> QED
    BY <1>5, <2>1
<1>7. job' = [job EXCEPT ![t] = k]
  BY <1>1, <1>3, <1>5
<1>8. job[t].doing # "nothing"
  BY <1>2
<1> QED
  BY <1>2, <1>6, <1>7, <1>8, JobStepKeeps

LEMMA JobLooksAgainKeeps == ASSUME GoalInv, NEW t \in Task, JobLooksAgain(t) PROVE GoalInv'
<1>1. PICK view \in Views : job' = [job EXCEPT ![t] = Onward(t, @, view)]
  BY DEF JobLooksAgain
<1>2. job[t].doing \in {"refresh", "settle"} /\ UNCHANGED <<request, goal, tasks, results, stopped>>
  BY DEF JobLooksAgain
<1>3. PICK j : j = job[t]
  OBVIOUS
<1>4. /\ DOMAIN j = JobFields /\ j.status = "active" /\ j.acts \in Nat /\ j.step \in Nat
      /\ j.acts <= j.step + 1 /\ j.step < MaxSteps(t) /\ tasks \in GoalTasks /\ request \in Goals
  <2>1. JobOK(t, j) /\ j.doing \in {"refresh", "settle"} /\ tasks \in GoalTasks /\ request \in Goals
    BY <1>2, <1>3, WorkerNow
  <2> QED
    BY <2>1 DEF JobOK
<1>5. PICK k : k = Onward(t, j, view)
  OBVIOUS
<1>6. JobOK(t, k) /\ k.status # "pending"
  <2>1. JobOK(t, Onward(t, j, view)) /\ Onward(t, j, view).status # "pending"
    BY <1>4, OnwardIsOK
  <2> QED
    BY <1>5, <2>1
<1>7. job' = [job EXCEPT ![t] = k]
  BY <1>1, <1>3, <1>5
<1>8. job[t].doing # "nothing"
  BY <1>2
<1> QED
  BY <1>2, <1>6, <1>7, <1>8, JobStepKeeps

LEMMA JobFailsKeeps == ASSUME GoalInv, NEW t \in Task, JobFails(t) PROVE GoalInv'
<1>1. /\ job[t].doing # "nothing" /\ job' = [job EXCEPT ![t] = Fail(@)]
      /\ UNCHANGED <<request, goal, tasks, results, stopped>>
  BY DEF JobFails
<1>2. PICK j : j = job[t]
  OBVIOUS
<1>3. DOMAIN j = JobFields /\ j.acts \in Nat /\ j.acts <= MaxSteps(t)
  BY <1>2, WorkerNow DEF JobOK
<1>4. PICK s \in {"cancelled", "failed"} : s = IF stopped THEN "cancelled" ELSE "failed"
  OBVIOUS
<1>5. PICK k : k = EndJob(j, s)
  OBVIOUS
<1>6. Fail(j) = k
  BY <1>4, <1>5 DEF Fail
<1>7. JobOK(t, k) /\ k.status # "pending"
  <2>1. s \notin {"pending", "active"} /\ s # "succeeded"
    OBVIOUS
  <2>2. JobOK(t, EndJob(j, s)) /\ EndJob(j, s).status = s
    BY <1>3, <2>1, EndIsOK
  <2> QED
    BY <1>5, <2>1, <2>2
<1>8. job' = [job EXCEPT ![t] = k]
  BY <1>1, <1>2, <1>6
<1>9. UNCHANGED <<request, goal, tasks, results, stopped>> /\ job[t].doing # "nothing"
  BY <1>1
<1> QED
  BY <1>7, <1>8, <1>9, JobStepKeeps

\* "done" is not among the candidates of a task with a condition.
LEMMA DoneIsOffered ==
  ASSUME NEW t, NEW view, NEW c \in CandidatesOf(t, view), c.kind = "done"
  PROVE  ~tasks.completion[t]
<1>1. /\ \A i, key : Button(i, key).kind = "action"
      /\ \A i : Action(i).kind = "action"
      /\ \A i, kind : Terminal(i, kind).kind = kind
  BY DEF Button, Action, Terminal
<1>2. "wait" # "done" /\ "escalate" # "done" /\ "action" # "done"
  OBVIOUS
<1> QED
  BY <1>1, <1>2 DEF CandidatesOf

LEMMA JobDecidesKeeps == ASSUME GoalInv, NEW t \in Task, JobDecides(t) PROVE GoalInv'
<1>1. job[t].doing = "decide" /\ job[t].doing # "nothing" /\ UNCHANGED <<request, goal, tasks, results, stopped>>
  BY DEF JobDecides
<1>2. PICK j : j = job[t]
  OBVIOUS
<1>3. /\ JobOK(t, j) /\ DOMAIN j = JobFields /\ j.status = "active" /\ j.doing = "decide" /\ j.acts \in Nat /\ j.step \in Nat
      /\ j.acts <= j.step /\ j.step < MaxSteps(t) /\ MaxSteps(t) \in 1 .. 30 /\ DOMAIN job = Task
  <2>1. JobOK(t, j) /\ j.doing = "decide" /\ MaxSteps(t) \in 1 .. 30 /\ DOMAIN job = Task
    BY <1>1, <1>2, WorkerNow
  <2> QED
    BY <2>1 DEF JobOK
\* It acts next.
<1>4. ASSUME NEW batch, NEW k, k = [j EXCEPT !.doing = "act", !.batch = batch] PROVE JobOK(t, k) /\ k.status # "pending"
  <2> DEFINE a == [j EXCEPT !.doing = "act"]
             b == [a EXCEPT !.batch = batch]
  <2>1. k = b
    BY <1>4
  <2>2. DOMAIN a = JobFields /\ a.status = "active" /\ a.doing = "act" /\ a.acts = j.acts /\ a.step = j.step
    BY <1>3 DEF JobFields
  <2> HIDE DEF a
  <2>3. DOMAIN b = JobFields /\ b.status = "active" /\ b.doing = "act" /\ b.acts = j.acts /\ b.step = j.step
    BY <2>2 DEF JobFields
  <2> HIDE DEF b
  <2>4. JobOK(t, b)
    BY <1>3, <2>3 DEF JobOK
  <2> QED
    BY <2>1, <2>3, <2>4
\* It ends.
<1>5. ASSUME NEW s, s \notin {"pending", "active"}, s = "succeeded" => ~tasks.completion[t]
      PROVE  JobOK(t, EndJob(j, s)) /\ EndJob(j, s).status # "pending"
  <2>1. j.acts <= MaxSteps(t)
    BY <1>3
  <2>2. s = "succeeded" /\ tasks.completion[t] => j.view.met
    BY <1>5
  <2>3. JobOK(t, EndJob(j, s)) /\ EndJob(j, s).status = s
    BY <1>3, <1>5, <2>1, <2>2, EndIsOK
  <2> QED
    BY <1>5, <2>3
<1>6. \E k : JobOK(t, k) /\ k.status # "pending" /\ job' = [job EXCEPT ![t] = k]
  <2> DEFINE candidates == CandidatesOf(t, job[t].view)
             compiled == CompiledSequence(tasks.objective[t], job[t].recent, candidates, MaxBatch(t))
  <2>1. \/ job' = [job EXCEPT ![t].doing = "act", ![t].batch = compiled]
        \/ \E choice \in candidates, sure \in BOOLEAN :
             job' = [job EXCEPT ![t] =
                  IF ~sure \/ choice.kind = "escalate" THEN EndJob(@, "escalated")
                  ELSE IF choice.kind = "done" THEN EndJob(@, "succeeded")
                  ELSE [@ EXCEPT !.doing = "act", !.batch = <<choice>>]]
    BY Zenon DEF JobDecides
  <2> HIDE DEF compiled
  <2>2. CASE job' = [job EXCEPT ![t].doing = "act", ![t].batch = compiled]
    <3>1. PICK k : k = [j EXCEPT !.doing = "act", !.batch = compiled]
      OBVIOUS
    <3>2. job' = [job EXCEPT ![t] = k]
      BY <1>2, <1>3, <2>2, <3>1
    <3>3. JobOK(t, k) /\ k.status # "pending"
      BY <1>4, <3>1
    <3> QED
      BY <3>2, <3>3
  <2>3. CASE \E choice \in candidates, sure \in BOOLEAN :
             job' = [job EXCEPT ![t] =
                  IF ~sure \/ choice.kind = "escalate" THEN EndJob(@, "escalated")
                  ELSE IF choice.kind = "done" THEN EndJob(@, "succeeded")
                  ELSE [@ EXCEPT !.doing = "act", !.batch = <<choice>>]]
    <3>1. PICK choice \in candidates, sure \in BOOLEAN :
             job' = [job EXCEPT ![t] =
                  IF ~sure \/ choice.kind = "escalate" THEN EndJob(@, "escalated")
                  ELSE IF choice.kind = "done" THEN EndJob(@, "succeeded")
                  ELSE [@ EXCEPT !.doing = "act", !.batch = <<choice>>]]
      BY <2>3
    <3>2. CASE ~sure \/ choice.kind = "escalate"
      <4>1. job' = [job EXCEPT ![t] = EndJob(j, "escalated")]
        BY <1>2, <3>1, <3>2
      <4>2. JobOK(t, EndJob(j, "escalated")) /\ EndJob(j, "escalated").status # "pending"
        BY <1>5
      <4> QED
        BY <4>1, <4>2
    <3>3. CASE ~(~sure \/ choice.kind = "escalate") /\ choice.kind = "done"
      <4>1. job' = [job EXCEPT ![t] = EndJob(j, "succeeded")]
        BY <1>2, <3>1, <3>3
      <4>2. ~tasks.completion[t]
        BY <3>3, DoneIsOffered
      <4>3. JobOK(t, EndJob(j, "succeeded")) /\ EndJob(j, "succeeded").status # "pending"
        BY <1>5, <4>2
      <4> QED
        BY <4>1, <4>3
    <3>4. CASE ~(~sure \/ choice.kind = "escalate") /\ ~(choice.kind = "done")
      <4>1. PICK k : k = [j EXCEPT !.doing = "act", !.batch = <<choice>>]
        OBVIOUS
      <4>2. job' = [job EXCEPT ![t] = k]
        BY <1>2, <3>1, <3>4, <4>1
      <4>3. JobOK(t, k) /\ k.status # "pending"
        BY <1>4, <4>1
      <4> QED
        BY <4>2, <4>3
    <3> QED
      BY <3>2, <3>3, <3>4
  <2> QED
    BY <2>1, <2>2, <2>3
<1>7. PICK k : JobOK(t, k) /\ k.status # "pending" /\ job' = [job EXCEPT ![t] = k]
  BY <1>6
<1> QED
  BY <1>1, <1>7, JobStepKeeps

LEMMA JobActsKeeps == ASSUME GoalInv, NEW t \in Task, JobActs(t) PROVE GoalInv'
<1>1. job[t].doing = "act" /\ job[t].doing # "nothing" /\ UNCHANGED <<request, goal, tasks, results, stopped>>
  BY DEF JobActs
<1>2. PICK executed, worked, terminal, view :
       LET j == [job[t] EXCEPT
                   !.recent = Remember(@, job[t].batch, executed), !.batch = <<>>, !.worked = worked, !.acts = @ + 1,
                   !.typed = IF IsCompiled(job[t].batch) /\ executed = Len(job[t].batch) THEN @ + 1 ELSE @]
       IN job' = [job EXCEPT ![t] = IF terminal THEN [j EXCEPT !.doing = "refresh"] ELSE Onward(t, j, view)]
  BY Zenon DEF JobActs
<1>3. PICK j : j = job[t]
  OBVIOUS
<1>4. PICK recent, typed : /\ recent = Remember(j.recent, j.batch, executed)
                           /\ typed = IF IsCompiled(j.batch) /\ executed = Len(j.batch) THEN j.typed + 1 ELSE j.typed
  OBVIOUS
<1>5. /\ DOMAIN j = JobFields /\ j.status = "active" /\ j.doing = "act" /\ j.acts \in Nat /\ j.step \in Nat
      /\ j.acts <= j.step /\ j.step < MaxSteps(t) /\ MaxSteps(t) \in 1 .. 30 /\ tasks \in GoalTasks /\ request \in Goals
  <2>1. JobOK(t, j) /\ j.doing = "act" /\ MaxSteps(t) \in 1 .. 30 /\ tasks \in GoalTasks /\ request \in Goals
    BY <1>1, <1>3, WorkerNow
  <2> QED
    BY <2>1 DEF JobOK
<1> DEFINE a == [j EXCEPT !.recent = recent]
           b == [a EXCEPT !.batch = <<>>]
           c == [b EXCEPT !.worked = worked]
           d == [c EXCEPT !.acts = j.acts + 1]
           e == [d EXCEPT !.typed = typed]
           f == [e EXCEPT !.doing = "refresh"]
<1>6. job' = [job EXCEPT ![t] = IF terminal THEN f ELSE Onward(t, e, view)]
  <2>1. e = [j EXCEPT
                   !.recent = Remember(@, j.batch, executed), !.batch = <<>>, !.worked = worked, !.acts = @ + 1,
                   !.typed = IF IsCompiled(j.batch) /\ executed = Len(j.batch) THEN @ + 1 ELSE @]
    BY <1>4, <1>5 DEF JobFields
  <2> HIDE DEF e
  <2> QED
    BY <1>2, <1>3, <2>1, Zenon
<1>7. DOMAIN a = JobFields /\ a.status = "active" /\ a.acts = j.acts /\ a.step = j.step
  BY <1>5 DEF JobFields
<1> HIDE DEF a
<1>8. DOMAIN b = JobFields /\ b.status = "active" /\ b.acts = j.acts /\ b.step = j.step
  BY <1>7 DEF JobFields
<1> HIDE DEF b
<1>9. DOMAIN c = JobFields /\ c.status = "active" /\ c.acts = j.acts /\ c.step = j.step
  BY <1>8 DEF JobFields
<1> HIDE DEF c
<1>10. DOMAIN d = JobFields /\ d.status = "active" /\ d.acts = j.acts + 1 /\ d.step = j.step
  BY <1>9 DEF JobFields
<1> HIDE DEF d
<1>11. DOMAIN e = JobFields /\ e.status = "active" /\ e.acts = j.acts + 1 /\ e.step = j.step
  BY <1>10 DEF JobFields
<1> HIDE DEF e
<1>12. DOMAIN f = JobFields /\ f.status = "active" /\ f.acts = j.acts + 1 /\ f.step = j.step /\ f.doing = "refresh"
  BY <1>11 DEF JobFields
<1> HIDE DEF f
<1>13. JobOK(t, f) /\ f.status # "pending"
  BY <1>5, <1>12 DEF JobOK
<1>14. JobOK(t, Onward(t, e, view)) /\ Onward(t, e, view).status # "pending"
  <2>1. e.acts \in Nat /\ e.step \in Nat /\ e.acts <= e.step + 1 /\ e.step < MaxSteps(t)
    BY <1>5, <1>11
  <2> QED
    BY <1>5, <1>11, <2>1, OnwardIsOK
<1>15. PICK k : k = IF terminal THEN f ELSE Onward(t, e, view)
  OBVIOUS
<1>16. JobOK(t, k) /\ k.status # "pending"
  BY <1>13, <1>14, <1>15
<1>17. job' = [job EXCEPT ![t] = k]
  BY <1>6, <1>15
<1> QED
  BY <1>1, <1>16, <1>17, JobStepKeeps

--------------------------------------------------------------------------------
(* A pass of a goal's scheduler.                                             *)

AdmitsUpTo(f, acc, n) == f = [k \in 0 .. n |-> IF k = 0 THEN acc ELSE Admit(f[k - 1], tasks.order[k])]

LEMMA AdmitsExist ==
  ASSUME NEW acc, NEW n \in Nat
  PROVE  \E f : AdmitsUpTo(f, acc, n)
<1> DEFINE S == {m \in Nat : \E f : AdmitsUpTo(f, acc, m)}
<1>1. 0 \in S
  <2> DEFINE f == [k \in 0 .. 0 |-> acc]
  <2>1. AdmitsUpTo(f, acc, 0)
    BY DEF AdmitsUpTo
  <2> QED
    BY <2>1
<1>2. ASSUME NEW m \in Nat, m \in S PROVE m + 1 \in S
  <2>1. PICK f : AdmitsUpTo(f, acc, m)
    BY <1>2
  <2> DEFINE v == Admit(f[m], tasks.order[m + 1])
             g == [k \in 0 .. m + 1 |-> IF k = m + 1 THEN v ELSE f[k]]
  <2>2. \A k \in 0 .. m : f[k] = IF k = 0 THEN acc ELSE Admit(f[k - 1], tasks.order[k])
    BY <2>1, Zenon DEF AdmitsUpTo
  <2>3. ASSUME NEW k \in 0 .. m + 1
        PROVE  g[k] = IF k = 0 THEN acc ELSE Admit(g[k - 1], tasks.order[k])
    <3>1. CASE k = m + 1
      <4>1. k # 0 /\ k - 1 = m /\ m \in 0 .. m + 1 /\ m # m + 1
        BY <3>1
      <4>2. g[k] = v /\ g[k - 1] = f[m]
        BY <3>1, <4>1
      <4> QED
        BY <3>1, <4>1, <4>2
    <3>2. CASE k # m + 1
      <4>1. k \in 0 .. m /\ g[k] = f[k]
        BY <3>2
      <4>2. k # 0 => g[k - 1] = f[k - 1]
        BY <4>1
      <4> HIDE DEF g
      <4> QED
        BY <4>1, <4>2, <2>2
    <3> QED
      BY <3>1, <3>2
  <2>4. g = [k \in 0 .. m + 1 |-> IF k = 0 THEN acc ELSE Admit(g[k - 1], tasks.order[k])]
    <3>1. g = [k \in 0 .. m + 1 |-> g[k]]
      OBVIOUS
    <3> HIDE DEF g
    <3> QED
      BY <2>3, <3>1
  <2>5. AdmitsUpTo(g, acc, m + 1)
    BY <2>4, Zenon DEF AdmitsUpTo
  <2> HIDE DEF g
  <2> QED
    BY <2>5
<1>3. n \in S
  <2> HIDE DEF S
  <2> QED
    BY <1>1, <1>2, SetInduction
<1> QED
  BY <1>3

LEMMA AdmitsAre ==
  ASSUME NEW acc, Len(tasks.order) \in Nat
  PROVE  \E f : /\ Admits(acc) = f[Len(tasks.order)] /\ f[0] = acc
                /\ \A k \in 1 .. Len(tasks.order) : f[k] = Admit(f[k - 1], tasks.order[k])
<1> DEFINE N == Len(tasks.order)
           admitted == CHOOSE f : AdmitsUpTo(f, acc, N)
<1>1. N \in Nat
  OBVIOUS
<1>2. AdmitsUpTo(admitted, acc, N)
  <2> HIDE DEF N
  <2> QED
    BY <1>1, AdmitsExist
<1>3. Admits(acc) = admitted[N]
  BY DEF Admits, AdmitsUpTo
<1> HIDE DEF admitted, N
<1>4. \A k \in 0 .. N : admitted[k] = IF k = 0 THEN acc ELSE Admit(admitted[k - 1], tasks.order[k])
  BY <1>2, Zenon DEF AdmitsUpTo
<1>5. admitted[0] = acc
  BY <1>1, <1>4
<1>6. \A k \in 1 .. N : admitted[k] = Admit(admitted[k - 1], tasks.order[k])
  BY <1>1, <1>4
<1> QED
  BY <1>3, <1>5, <1>6 DEF N

\* What a pass carries: the workers and the results fit each other.
PassOK(acc) == /\ acc = [job |-> acc.job, results |-> acc.results]
               /\ WorkersOK(acc.job, acc.results)

\* One task of a pass admits this task, or nothing happens.
AdmitsOnly(a, b, t) ==
  \/ b = a
  \/ /\ a.job[t].status = "pending" /\ b.job[t].status # "pending"
     /\ \A m \in Task : m # t => b.job[m] = a.job[m]

\* A task that becomes something else than pending, for what it depends on is done.
LEMMA AdmittedIsOK ==
  ASSUME tasks \in GoalTasks, request \in Goals, NEW j, NEW taken, WorkersOK(j, taken), NEW t \in Members,
         t \notin taken, j[t].status = "pending", NEW k, JobOK(t, k), k.status # "pending",
         NEW more, \/ more = taken /\ k.status # "blocked"
                   \/ more = taken \cup {t} /\ k.status \notin {"pending", "active"},
         k.status # "blocked" => \A d \in Dependencies(t) : j[d].status = "succeeded" /\ d \in taken,
         ~(Cardinality(Active(j, taken)) >= Concurrency)
  PROVE  WorkersOK([j EXCEPT ![t] = k], more)
<1>1. Members \subseteq Task /\ t \in Task
  BY GoalFacts
<1>2. PICK new : new = [j EXCEPT ![t] = k]
  OBVIOUS
<1>3. DOMAIN j = Task
  BY DEF WorkersOK
<1>4. DOMAIN new = Task /\ new[t] = k /\ \A m \in Task : m # t => new[m] = j[m]
  BY <1>1, <1>2, <1>3
<1>5. taken \subseteq more /\ more \subseteq taken \cup {t} /\ more \subseteq Members
  BY DEF WorkersOK
<1>6. \A m \in Task : JobOK(m, new[m]) /\ (m \notin Members => new[m] = NewJob)
  BY <1>4 DEF WorkersOK
<1>7. \A m \in more : new[m].status \notin {"pending", "active"}
  <2> TAKE m \in more
  <2>1. CASE m = t
    BY <1>4, <2>1
  <2>2. CASE m # t
    <3>1. m \in taken /\ m \in Task
      BY <1>1, <1>5, <2>2
    <3>2. j[m].status \notin {"pending", "active"} /\ new[m] = j[m]
      BY <1>4, <2>2, <3>1 DEF WorkersOK
    <3> QED
      BY <3>2
  <2> QED
    BY <2>1, <2>2
<1>8. ASSUME NEW m \in Members PROVE Met(m, new, more)
  <2>1. Met(m, j, taken)
    BY DEF WorkersOK
  <2>2. ASSUME new[m].status \notin {"pending", "blocked"}, NEW d \in Dependencies(m)
        PROVE  new[d].status = "succeeded" /\ d \in more
    <3>1. j[d].status = "succeeded" /\ d \in taken
      <4>1. CASE m = t
        BY <1>4, <2>2, <4>1
      <4>2. CASE m # t
        <5>1. j[m].status \notin {"pending", "blocked"}
          BY <1>1, <1>4, <2>2, <4>2
        <5> QED
          BY <2>1, <2>2, <5>1 DEF Met
      <4> QED
        BY <4>1, <4>2
    <3>2. d \in Task /\ d # t
      BY <1>1, <1>5, <3>1
    <3> QED
      BY <1>4, <1>5, <3>1, <3>2
  <2> QED
    BY <2>2 DEF Met
<1>9. Active(new, more) \subseteq Active(j, taken) \cup {t}
  BY <1>1, <1>4, <1>5 DEF Active
<1>10. Cardinality(Active(new, more)) <= Concurrency
  BY <1>9, OneMoreActive
<1>11. WorkersOK(new, more)
  BY <1>4, <1>5, <1>6, <1>7, <1>8, <1>10 DEF WorkersOK
<1> QED
  BY <1>2, <1>11

LEMMA AdmitKeeps ==
  ASSUME tasks \in GoalTasks, request \in Goals, NEW a, PassOK(a), NEW t \in Members
  PROVE  /\ PassOK(Admit(a, t)) /\ AdmitsOnly(a, Admit(a, t), t)
         /\ Active(a.job, a.results) = {} /\ a.job[t].status = "pending" /\ Dependencies(t) \subseteq a.results
              => Admit(a, t) # a
<1>1. PICK j, taken : j = a.job /\ taken = a.results
  OBVIOUS
<1>2. a = [job |-> j, results |-> taken] /\ WorkersOK(j, taken)
  BY <1>1 DEF PassOK
<1> DEFINE waits == \/ Cardinality(Active(j, taken)) >= Concurrency
                    \/ j[t].status # "pending"
                    \/ ~(Dependencies(t) \subseteq taken)
           blocks == \E d \in Dependencies(t) : j[d].status # "succeeded"
           blocked == [j[t] EXCEPT !.status = "blocked"]
           starting == [j[t] EXCEPT !.status = "active"]
           started == [starting EXCEPT !.doing = "observe"]
           ended == EndJob(j[t], "cancelled")
           Goes(k, more) == [job |-> [j EXCEPT ![t] = k], results |-> more]
<1>3. t \in Task /\ DOMAIN j = Task /\ JobOK(t, j[t]) /\ DOMAIN j[t] = JobFields /\ MaxSteps(t) \in 1 .. 30
  BY <1>2, GoalFacts DEF WorkersOK, JobOK
<1>4. Admit(a, t) = IF waits THEN a ELSE IF blocks THEN Goes(blocked, taken \cup {t})
                    ELSE IF stopped THEN Goes(ended, taken) ELSE Goes(started, taken)
  <2>1. [j EXCEPT ![t].status = "blocked"] = [j EXCEPT ![t] = blocked]
    BY <1>3
  <2>2. [j[t] EXCEPT !.status = "active", !.doing = "observe"] = started
    BY <1>3 DEF JobFields
  <2>3. \A x : [a EXCEPT !.job[t] = x] = Goes(x, taken)
    BY <1>2
  <2>4. Admit(a, t) = IF waits THEN a ELSE IF blocks THEN [job |-> [j EXCEPT ![t].status = "blocked"], results |-> taken \cup {t}]
                      ELSE [a EXCEPT !.job[t] = IF stopped THEN EndJob(@, "cancelled")
                                                ELSE [@ EXCEPT !.status = "active", !.doing = "observe"]]
    BY <1>1, Zenon DEF Admit
  <2>5. [a EXCEPT !.job[t] = IF stopped THEN EndJob(@, "cancelled") ELSE [@ EXCEPT !.status = "active", !.doing = "observe"]]
          = IF stopped THEN Goes(ended, taken) ELSE Goes(started, taken)
    <3> HIDE DEF started, ended
    <3> QED
      BY <1>1, <2>2, <2>3 DEF ended
  <2> HIDE DEF started, blocked, ended
  <2> QED
    BY <2>1, <2>4, <2>5
<1>5. j[t].status = "pending" => t \notin taken
  BY <1>2 DEF WorkersOK
<1>6. ASSUME j[t].status = "pending"
      PROVE  /\ JobOK(t, blocked) /\ blocked.status = "blocked"
             /\ JobOK(t, started) /\ started.status = "active"
             /\ JobOK(t, ended) /\ ended.status = "cancelled"
  <2>1. j[t].acts = 0 /\ j[t].doing = "nothing" /\ j[t].acts \in Nat /\ j[t].acts <= MaxSteps(t)
    BY <1>3, <1>6 DEF JobOK
  <2>2. DOMAIN blocked = JobFields /\ blocked.status = "blocked" /\ blocked.doing = "nothing" /\ blocked.acts = 0
    BY <1>3, <2>1 DEF JobFields
  <2>3. DOMAIN starting = JobFields /\ starting.status = "active" /\ starting.acts = 0
    BY <1>3, <2>1 DEF JobFields
  <2> HIDE DEF starting, blocked
  <2>4. DOMAIN started = JobFields /\ started.status = "active" /\ started.acts = 0 /\ started.doing = "observe"
    BY <2>3 DEF JobFields
  <2> HIDE DEF started
  <2>5. JobOK(t, blocked) /\ JobOK(t, started)
    BY <1>3, <2>2, <2>4 DEF JobOK
  <2>6. PICK x : x = j[t]
    OBVIOUS
  <2>7. JobOK(t, EndJob(x, "cancelled")) /\ EndJob(x, "cancelled").status = "cancelled"
    BY <1>3, <2>1, <2>6, EndIsOK
  <2> QED
    BY <2>2, <2>4, <2>5, <2>6, <2>7
<1> HIDE DEF blocked, started, ended, starting
\* A task that is admitted.
<1>7. ASSUME ~waits, NEW k, JobOK(t, k), k.status # "pending", NEW more, Admit(a, t) = Goes(k, more),
             \/ more = taken /\ k.status # "blocked"
             \/ more = taken \cup {t} /\ k.status \notin {"pending", "active"},
             k.status # "blocked" => \A d \in Dependencies(t) : j[d].status = "succeeded" /\ d \in taken
      PROVE  PassOK(Admit(a, t)) /\ AdmitsOnly(a, Admit(a, t), t) /\ Admit(a, t) # a
  <2>1. j[t].status = "pending" /\ t \notin taken /\ ~(Cardinality(Active(j, taken)) >= Concurrency)
    BY <1>5, <1>7
  <2>2. PICK new : new = [j EXCEPT ![t] = k]
    OBVIOUS
  <2>3. WorkersOK([j EXCEPT ![t] = k], more)
    BY <1>2, <1>7, <2>1, AdmittedIsOK
  <2>4. PICK b : b = Admit(a, t)
    OBVIOUS
  <2>5. b = [job |-> new, results |-> more] /\ b.job = new /\ b.results = more
    BY <1>7, <2>2, <2>4
  <2>6. PassOK(b)
    BY <2>2, <2>3, <2>5 DEF PassOK
  <2>7. new[t] = k /\ \A m \in Task : m # t => new[m] = j[m]
    BY <1>3, <2>2
  <2>8. AdmitsOnly(a, b, t) /\ b # a
    BY <1>1, <1>7, <2>1, <2>5, <2>7 DEF AdmitsOnly
  <2> QED
    BY <2>4, <2>6, <2>8
<1>8. CASE waits
  <2>1. Admit(a, t) = a
    BY <1>4, <1>8
  <2>2. Active(j, taken) = {} => Cardinality(Active(j, taken)) = 0
    BY FS_EmptySet
  <2>3. Concurrency \in 1 .. 16
    BY GoalFacts
  <2> QED
    BY <1>1, <1>8, <2>1, <2>2, <2>3 DEF AdmitsOnly
<1>9. CASE ~waits /\ blocks
  <2>1. Admit(a, t) = Goes(blocked, taken \cup {t})
    BY <1>4, <1>9
  <2>2. JobOK(t, blocked) /\ blocked.status = "blocked"
    BY <1>6, <1>9
  <2> HIDE DEF Goes, waits
  <2>3. PassOK(Admit(a, t)) /\ AdmitsOnly(a, Admit(a, t), t) /\ Admit(a, t) # a
    BY <1>7, <1>9, <2>1, <2>2
  <2> QED
    BY <2>3
<1>10. CASE ~waits /\ ~blocks
  <2>1. PICK k \in {ended, started} : Admit(a, t) = Goes(k, taken)
    BY <1>4, <1>10
  <2>2. JobOK(t, k) /\ k.status \notin {"pending", "blocked"}
    BY <1>6, <1>10
  <2>3. \A d \in Dependencies(t) : j[d].status = "succeeded" /\ d \in taken
    BY <1>10
  <2> HIDE DEF Goes, waits, blocks
  <2>4. PassOK(Admit(a, t)) /\ AdmitsOnly(a, Admit(a, t), t) /\ Admit(a, t) # a
    BY <1>7, <1>10, <2>1, <2>2, <2>3
  <2> QED
    BY <2>4
<1> QED
  BY <1>8, <1>9, <1>10

\* What is no longer pending stays as it is.
GoesOn(a, b) == \A m \in Task : a.job[m].status # "pending" => b.job[m] = a.job[m]

LEMMA AdmitsKeep ==
  ASSUME tasks \in GoalTasks, request \in Goals, ValidTasks, NEW a, PassOK(a)
  PROVE  /\ PassOK(Admits(a))
         /\ Active(a.job, a.results) = {} /\ a.results # Members => Admits(a).job # a.job
         /\ Admits(a).job = a.job => Admits(a) = a
<1> DEFINE N == Len(tasks.order)
<1>1. N \in Nat /\ Members \subseteq Task /\ \A k \in 1 .. N : tasks.order[k] \in Members
  BY GoalFacts
<1>2. PICK v : Admits(a) = v[N] /\ v[0] = a /\ \A k \in 1 .. N : v[k] = Admit(v[k - 1], tasks.order[k])
  BY <1>1, AdmitsAre
<1> HIDE DEF N
<1>3. \A k \in Nat : k + 1 <= N => /\ tasks.order[k + 1] \in Members /\ k <= N
                                   /\ v[k + 1] = Admit(v[k], tasks.order[k + 1])
  <2> TAKE k \in Nat
  <2> HAVE k + 1 <= N
  <2>1. k + 1 \in 1 .. N /\ (k + 1) - 1 = k /\ k <= N
    BY <1>1
  <2> QED
    BY <1>1, <1>2, <2>1
<1>4. \A k \in Nat : k <= N => PassOK(v[k])
  <2> DEFINE S == {k \in Nat : k <= N => PassOK(v[k])}
  <2>1. 0 \in S
    BY <1>2
  <2>2. ASSUME NEW k \in Nat, k \in S PROVE k + 1 \in S
    <3> SUFFICES ASSUME k + 1 <= N PROVE PassOK(v[k + 1])
      OBVIOUS
    <3>1. /\ tasks.order[k + 1] \in Members /\ v[k + 1] = Admit(v[k], tasks.order[k + 1])
          /\ PassOK(v[k])
      BY <1>3, <2>2
    <3>2. PICK x, y : x = v[k] /\ y = tasks.order[k + 1]
      OBVIOUS
    <3>3. PassOK(Admit(x, y))
      BY <3>1, <3>2, AdmitKeeps
    <3> QED
      BY <3>1, <3>2, <3>3
  <2> HIDE DEF S
  <2>3. \A k \in Nat : k \in S
    BY <2>1, <2>2, SetInduction
  <2> QED
    BY <2>3 DEF S
<1>5. \A k \in Nat : k + 1 <= N => AdmitsOnly(v[k], v[k + 1], tasks.order[k + 1])
  <2> TAKE k \in Nat
  <2> HAVE k + 1 <= N
  <2>1. PICK x, y : x = v[k] /\ y = tasks.order[k + 1]
    OBVIOUS
  <2>2. PassOK(x) /\ y \in Members /\ v[k + 1] = Admit(x, y)
    BY <1>3, <1>4, <2>1
  <2>3. AdmitsOnly(x, Admit(x, y), y)
    BY <2>2, AdmitKeeps
  <2> QED
    BY <2>1, <2>2, <2>3
<1>6. \A j \in Nat : \A k \in Nat : k <= j /\ j <= N => GoesOn(v[k], v[j])
  <2> DEFINE S == {j \in Nat : \A k \in Nat : k <= j /\ j <= N => GoesOn(v[k], v[j])}
  <2>1. 0 \in S
    <3>1. \A k \in Nat : k <= 0 => GoesOn(v[k], v[0])
      BY DEF GoesOn
    <3> QED
      BY <3>1
  <2>2. ASSUME NEW j \in Nat, j \in S PROVE j + 1 \in S
    <3> SUFFICES ASSUME NEW k \in Nat, k <= j + 1, j + 1 <= N PROVE GoesOn(v[k], v[j + 1])
      OBVIOUS
    <3>1. CASE k = j + 1
      BY <3>1 DEF GoesOn
    <3>2. CASE k <= j
      <4>0. j <= N
        BY <1>1
      <4>1. GoesOn(v[k], v[j]) /\ AdmitsOnly(v[j], v[j + 1], tasks.order[j + 1])
        BY <1>5, <2>2, <3>2, <4>0
      <4> QED
        BY <4>1 DEF GoesOn, AdmitsOnly
    <3> QED
      BY <3>1, <3>2
  <2> HIDE DEF S
  <2>3. \A j \in Nat : j \in S
    BY <2>1, <2>2, SetInduction
  <2> QED
    BY <2>3 DEF S
\* A pass that leaves the workers as they were has left everything as it was.
<1>7. ASSUME Admits(a).job = a.job PROVE \A k \in Nat : k <= N => v[k] = a
  <2> DEFINE S == {k \in Nat : k <= N => v[k] = a}
  <2>1. 0 \in S
    BY <1>2
  <2>2. ASSUME NEW k \in Nat, k \in S PROVE k + 1 \in S
    <3> SUFFICES ASSUME k + 1 <= N, v[k + 1] # a PROVE FALSE
      OBVIOUS
    <3> DEFINE o == tasks.order[k + 1]
    <3>1. v[k] = a /\ o \in Task /\ AdmitsOnly(v[k], v[k + 1], o) /\ v[N].job = a.job
      BY <1>1, <1>2, <1>3, <1>5, <1>7, <2>2
    <3>2. GoesOn(v[k + 1], v[N])
      BY <1>1, <1>6
    <3> HIDE DEF o
    <3>3. a.job[o].status = "pending" /\ v[k + 1].job[o].status # "pending"
      BY <3>1 DEF AdmitsOnly
    <3>4. v[N].job[o] = v[k + 1].job[o]
      BY <3>1, <3>2, <3>3 DEF GoesOn
    <3> QED
      BY <3>1, <3>3, <3>4
  <2> HIDE DEF S
  <2>3. \A k \in Nat : k \in S
    BY <2>1, <2>2, SetInduction
  <2> QED
    BY <2>3 DEF S
<1>8. PassOK(Admits(a))
  BY <1>1, <1>2, <1>4
<1>9. Admits(a).job = a.job => Admits(a) = a
  BY <1>1, <1>2, <1>7
<1>10. ASSUME Active(a.job, a.results) = {}, a.results # Members, Admits(a).job = a.job PROVE FALSE
  <2> DEFINE U == Members \ a.results
  <2>1. U \subseteq Members /\ U # {} /\ a.results \subseteq Members
    BY <1>10 DEF PassOK, WorkersOK
  <2>2. PICK n \in U : Dependencies(n) \cap U = {}
    <3> HIDE DEF U
    <3> QED
      BY <2>1, SomeTaskIsFree
  <2>3. PICK p : p = tasks
    OBVIOUS
  <2>4. Dependencies(n) \subseteq Members
    <3>1. ValidTasksOf(p) /\ MembersOf(p) = Members /\ Dependencies(n) = DependenciesOf(p, n)
      BY <2>3, ValidTasksIs DEF Members, MembersOf, Dependencies, DependenciesOf
    <3> QED
      BY <2>2, <3>1 DEF ValidTasksOf
  <2>5. Dependencies(n) \subseteq a.results
    BY <2>2, <2>4
  <2>6. a.job[n].status = "pending"
    BY <1>10, <2>2 DEF Active
  <2>7. Admit(a, n) # a
    BY <1>10, <2>2, <2>5, <2>6, AdmitKeeps
  <2>8. PICK k \in 1 .. N : tasks.order[k] = n
    BY <2>2, GoalFacts DEF N
  <2>9. v[k] = a /\ v[k - 1] = a /\ v[k] = Admit(v[k - 1], tasks.order[k])
    <3>1. k \in Nat /\ k - 1 \in Nat /\ k <= N /\ k - 1 <= N
      BY <1>1
    <3> QED
      BY <1>2, <1>7, <1>10, <3>1
  <2> QED
    BY <2>7, <2>8, <2>9
<1> QED
  BY <1>8, <1>9, <1>10

LEMMA GoalPassKeeps == ASSUME GoalInv, GoalPass PROVE GoalInv'
<1> DEFINE a == [job |-> job, results |-> results]
<1>1. PICK after : /\ after = Admits(a) /\ job' = after.job /\ results' = after.results
                   /\ due' = (Active(after.job, after.results) = {})
                   /\ goal' = IF due' /\ after.job = job THEN "stuck" ELSE "open"
  BY DEF GoalPass
<1>2. goal = "open" /\ results # Members /\ UNCHANGED <<request, tasks, stopped>>
  BY DEF GoalPass
<1>3. /\ request \in Goals /\ tasks \in GoalTasks /\ stopped \in BOOLEAN /\ WorkersOK(job, results) /\ GoalPhaseOK
      /\ ValidTasks
  BY <1>2 DEF GoalInv, GoalPhaseOK
<1>4. a.job = job /\ a.results = results /\ PassOK(a)
  BY <1>3 DEF PassOK
<1> HIDE DEF a
<1>5. /\ PassOK(after)
      /\ Active(a.job, a.results) = {} /\ a.results # Members => after.job # a.job
      /\ after.job = a.job => after = a
  BY <1>1, <1>3, <1>4, AdmitsKeep
<1>6. goal' = "open"
  BY <1>1, <1>2, <1>4, <1>5
<1>7. PICK j, taken : j = after.job /\ taken = after.results
  OBVIOUS
<1>8. WorkersOK(j, taken) /\ job' = j /\ results' = taken
  BY <1>1, <1>5, <1>7 DEF PassOK
<1>9. WorkersOK(job, results)'
  BY <1>2, <1>8, WorkersCarried
<1>10. ValidTasks'
  BY <1>2, <1>3, ValidTasksIs, ValidTasksNext
<1>11. GoalPhaseOK'
  BY <1>6, <1>10 DEF GoalPhaseOK
<1> QED
  BY <1>2, <1>3, <1>9, <1>11 DEF GoalInv

--------------------------------------------------------------------------------
(* The other steps of the call.                                              *)

\* A step that leaves tasks and workers alone.
LEMMA CallStepKeeps ==
  ASSUME GoalInv, UNCHANGED <<request, tasks, job, results>>, stopped' \in BOOLEAN, GoalPhaseOK'
  PROVE  GoalInv'
<1>1. request \in Goals /\ tasks \in GoalTasks /\ WorkersOK(job, results)
  BY DEF GoalInv
<1>2. PICK j, taken : j = job /\ taken = results
  OBVIOUS
<1>3. WorkersOK(job, results)'
  <2>1. WorkersOK(j, taken) /\ job' = j /\ results' = taken /\ request' = request /\ tasks' = tasks
    BY <1>1, <1>2
  <2> QED
    BY <2>1, WorkersCarried
<1> QED
  BY <1>1, <1>3 DEF GoalInv

LEMMA GoalCollectsKeeps == ASSUME GoalInv, NEW t \in Task, GoalCollects(t) PROVE GoalInv'
<1>1. /\ goal = "open" /\ t \in Active(job, results) /\ job[t].doing = "nothing" /\ results' = results \cup {t}
      /\ UNCHANGED <<request, goal, tasks, job, stopped>>
  BY DEF GoalCollects
<1>2. request \in Goals /\ tasks \in GoalTasks /\ stopped \in BOOLEAN /\ WorkersOK(job, results) /\ GoalPhaseOK
  BY DEF GoalInv
<1>3. PICK j, taken : j = job /\ taken = results \cup {t}
  OBVIOUS
<1>4. t \in Members /\ j[t].status \notin {"pending", "active"}
  <2>1. t \in Members /\ j[t].status # "pending" /\ j[t].doing = "nothing"
    BY <1>1, <1>3 DEF Active
  <2>2. JobOK(t, j[t])
    BY <1>2, <1>3 DEF WorkersOK
  <2> QED
    BY <2>1, <2>2 DEF JobOK
<1>5. WorkersOK(j, taken)
  <2>1. DOMAIN j = Task /\ taken \subseteq Members /\ \A m \in taken : j[m].status \notin {"pending", "active"}
    BY <1>2, <1>3, <1>4 DEF WorkersOK
  <2>2. \A m \in Task : JobOK(m, j[m]) /\ (m \notin Members => j[m] = NewJob)
    BY <1>2, <1>3 DEF WorkersOK
  <2>3. ASSUME NEW m \in Members PROVE Met(m, j, taken)
    <3>1. Met(m, job, results)
      BY <1>2 DEF WorkersOK
    <3> QED
      BY <1>3, <3>1 DEF Met
  <2>4. Active(j, taken) \subseteq Active(job, results)
    BY <1>3 DEF Active
  <2>5. Cardinality(Active(job, results)) <= Concurrency
    BY <1>2 DEF WorkersOK
  <2>6. Cardinality(Active(j, taken)) <= Concurrency
    BY <1>2, <2>4, <2>5, FewerActive
  <2> QED
    BY <2>1, <2>2, <2>3, <2>6 DEF WorkersOK
<1>6. WorkersOK(job, results)'
  BY <1>1, <1>3, <1>5, WorkersCarried
<1>7. ValidTasks'
  BY <1>1, <1>2, ValidTasksIs, ValidTasksNext DEF GoalPhaseOK
<1>8. GoalPhaseOK'
  BY <1>1, <1>7 DEF GoalPhaseOK
<1> QED
  BY <1>1, <1>2, <1>6, <1>8 DEF GoalInv

LEMMA GoalOpensKeeps == ASSUME GoalInv, GoalOpens PROVE GoalInv'
<1>1. /\ goal = "new" /\ goal' = IF request.automatic THEN "planning" ELSE IF ValidTasks THEN "open" ELSE "invalid"
      /\ UNCHANGED <<request, tasks, job, results, stopped>>
  BY DEF GoalOpens
<1>2. job = [t \in Task |-> NewJob] /\ stopped \in BOOLEAN
  BY <1>1 DEF GoalInv, GoalPhaseOK
<1>3. ValidTasks' <=> ValidTasks
  BY <1>1, ValidTasksIs, ValidTasksNext
<1>4. GoalPhaseOK'
  BY <1>1, <1>2, <1>3 DEF GoalPhaseOK
<1> QED
  BY <1>1, <1>2, <1>4, CallStepKeeps

LEMMA PlannedOpensKeeps == ASSUME GoalInv, PlannedOpens PROVE GoalInv'
<1>1. /\ goal = "planned" /\ goal' = IF ValidTasks THEN "open" ELSE "invalid"
      /\ UNCHANGED <<request, tasks, job, results, stopped>>
  BY DEF PlannedOpens
<1>2. ValidTasks /\ stopped \in BOOLEAN
  BY <1>1 DEF GoalInv, GoalPhaseOK
<1>3. ValidTasks'
  BY <1>1, <1>2, ValidTasksIs, ValidTasksNext
<1>4. GoalPhaseOK'
  BY <1>1, <1>2, <1>3 DEF GoalPhaseOK
<1> QED
  BY <1>1, <1>2, <1>4, CallStepKeeps

LEMMA PlanningFailsKeeps == ASSUME GoalInv, PlanningFails PROVE GoalInv'
<1>1. goal = "planning" /\ goal' = "rejected" /\ UNCHANGED <<request, tasks, job, results, stopped>>
  BY DEF PlanningFails
<1>2. job = [t \in Task |-> NewJob] /\ stopped \in BOOLEAN
  BY <1>1 DEF GoalInv, GoalPhaseOK
<1>3. GoalPhaseOK'
  BY <1>1, <1>2 DEF GoalPhaseOK
<1> QED
  BY <1>1, <1>2, <1>3, CallStepKeeps

LEMMA GoalAnswersKeeps == ASSUME GoalInv, GoalAnswers PROVE GoalInv'
<1>1. goal = "open" /\ goal' = Verdict /\ UNCHANGED <<request, tasks, job, results, stopped>>
  BY DEF GoalAnswers
<1>2. Verdict \in {"cancelled", "succeeded", "partial", "escalated", "failed"}
  BY DEF Verdict
<1>3. Verdict = "succeeded" => \A t \in Members : job[t].status = "succeeded"
  <2> DEFINE succeeded == {t \in Members : job[t].status \in {"succeeded"}}
  <2>1. Verdict = "succeeded" => succeeded = Members
    BY DEF Verdict
  <2> QED
    BY <2>1
<1>4. Members' = Members /\ stopped \in BOOLEAN
  BY <1>1 DEF Members, Range, GoalInv
<1>5. GoalPhaseOK'
  BY <1>1, <1>2, <1>3, <1>4 DEF GoalPhaseOK
<1> QED
  BY <1>1, <1>4, <1>5, CallStepKeeps

LEMMA GoalStopsKeeps == ASSUME GoalInv, GoalStops PROVE GoalInv'
<1>1. goal \in {"planning", "open"} /\ stopped' = TRUE /\ UNCHANGED <<request, goal, tasks, job, results>>
  BY DEF GoalStops
<1>2. GoalPhaseOK
  BY DEF GoalInv
<1>3. ValidTasks' <=> ValidTasks
  BY <1>1, ValidTasksIs, ValidTasksNext
<1>4. GoalPhaseOK'
  BY <1>1, <1>2, <1>3 DEF GoalPhaseOK
<1> QED
  BY <1>1, <1>4, CallStepKeeps

--------------------------------------------------------------------------------
(* Automatic plans.                                                          *)

LEMMA EligibleAre ==
  ASSUME request \in Goals
  PROVE  IsFiniteSet(Eligible(request.roots)) /\ Eligible(request.roots) \subseteq Task
<1>1. request.roots \in Seq(Task)
  BY GoalAssumption DEF GoalRequest
<1>2. PICK s \in Seq(Task) : s = request.roots
  BY <1>1
<1> DEFINE f == [i \in 1 .. Len(s) |-> s[i]]
           R == {s[i] : i \in 1 .. Len(s)}
<1>3. Len(s) \in Nat /\ DOMAIN s = 1 .. Len(s) /\ \A i \in 1 .. Len(s) : s[i] \in Task
  OBVIOUS
<1>4. f \in Surjection(1 .. Len(s), R)
  BY DEF Surjection
<1>5. IsFiniteSet(1 .. Len(s))
  BY <1>3, FS_Interval
<1>6. R \subseteq Task
  BY <1>3
<1> HIDE DEF f, R
<1>7. IsFiniteSet(R)
  BY <1>4, <1>5, FS_Surjection
<1>8. Eligible(s) \subseteq R
  BY <1>3 DEF Eligible, R
<1>9. IsFiniteSet(Eligible(s))
  BY <1>7, <1>8, FS_Subset
<1> QED
  BY <1>2, <1>6, <1>8, <1>9

\* The windows that are kept are distinct, at most sixteen, and have a wave.
KeptOK(kept, answers) ==
  /\ kept \in Seq(Task) /\ Len(kept) \in 0 .. 16
  /\ \A i, j \in 1 .. Len(kept) : kept[i] = kept[j] => i = j
  /\ \A i \in 1 .. Len(kept) : answers[kept[i]].wave \in Nat

LEMMA RetainedIsOK ==
  ASSUME request \in Goals,
         NEW answers \in [Eligible(request.roots) -> PlanningChoices(request.maxWaves)],
         NEW ranking \in Rankings(Eligible(request.roots), answers)
  PROVE  KeptOK(Retained(ranking), answers)
<1>1. PICK E : E = Eligible(request.roots)
  OBVIOUS
<1>2. PICK S : S = SelectedRoots(E, answers)
  OBVIOUS
<1>3. IsFiniteSet(E) /\ E \subseteq Task
  BY <1>1, EligibleAre
<1>4. \A r \in S : r \in E /\ r \in Task /\ answers[r].wave \in Nat
  <2> TAKE r \in S
  <2>1. r \in E /\ ~Excluded(answers[r])
    BY <1>2 DEF SelectedRoots
  <2>2. answers[r] \in PlanningChoices(request.maxWaves)
    BY <1>1, <2>1
  <2>3. PICK c : c = answers[r]
    OBVIOUS
  <2>4. c.wave # -1
    BY <2>1, <2>3 DEF Excluded
  <2>5. c \in {[wave |-> w, sure |-> s] : w \in Waves(request.maxWaves), s \in 0..1}
    BY <2>2, <2>3, <2>4 DEF PlanningChoices
  <2>6. c.wave \in Waves(request.maxWaves)
    BY <2>5
  <2>7. c.wave \in Nat
    <3>1. \A a : Waves(a) \subseteq Nat
      BY DEF Waves
    <3> QED
      BY <2>6, <3>1
  <2> QED
    BY <1>3, <2>1, <2>3, <2>7
<1>5. IsFiniteSet(S) /\ Cardinality(S) \in Nat
  BY <1>3, <1>4, FS_Subset, FS_CardinalityType
<1>6. PICK n \in Nat : n = Cardinality(S)
  BY <1>5
<1>7. ranking \in [1 .. n -> S] /\ \A i, j \in 1 .. n : i # j => ranking[i] # ranking[j]
  BY <1>1, <1>2, <1>6, Zenon DEF Rankings, SetToSeqs
<1>8. Len(ranking) = n
  BY <1>7
<1>9. request.maxTasks \in Int
  BY GoalAssumption DEF GoalRequest
<1>10. PICK m \in Int : m = Clamp(Len(ranking), 0, Clamp(request.maxTasks, 1, 16))
  BY <1>8, <1>9 DEF Clamp
<1>11. m \in 0 .. 16 /\ m <= n
  BY <1>8, <1>9, <1>10 DEF Clamp
<1>12. Retained(ranking) = SubSeq(ranking, 1, m)
  BY <1>10 DEF Retained
<1>13. PICK kept : kept = SubSeq(ranking, 1, m)
  OBVIOUS
<1>14. \A i \in 1 .. m : ranking[i] \in S /\ i \in 1 .. n
  BY <1>7, <1>11
<1>15. /\ kept \in Seq(S) /\ Len(kept) = IF 1 <= m THEN m - 1 + 1 ELSE 0
       /\ \A i \in 1 .. m - 1 + 1 : kept[i] = ranking[1 + i - 1]
  BY <1>13, <1>14, SubSeqProperties
<1>16. Len(kept) = m /\ \A i \in 1 .. m : kept[i] = ranking[i]
  <2>1. Len(kept) = m /\ m - 1 + 1 = m
    BY <1>11, <1>15
  <2>2. ASSUME NEW i \in 1 .. m PROVE kept[i] = ranking[i]
    <3>1. i \in 1 .. m - 1 + 1 /\ 1 + i - 1 = i
      BY <1>11
    <3> QED
      BY <1>15, <3>1
  <2> QED
    BY <2>1, <2>2
<1>17. \A i \in 1 .. m : kept[i] \in Task /\ answers[kept[i]].wave \in Nat
  BY <1>4, <1>14, <1>16
<1>18. \A i, j \in 1 .. m : kept[i] = kept[j] => i = j
  BY <1>7, <1>14, <1>16
<1>19. kept \in Seq(Task)
  BY <1>4, <1>15
<1>20. KeptOK(kept, answers)
  BY <1>11, <1>16, <1>17, <1>18, <1>19 DEF KeptOK
<1> QED
  BY <1>12, <1>13, <1>20

\* Waves are counted without gaps; there are fewer below a window's than windows.
LEMMA NormalWaves ==
  ASSUME NEW kept, NEW answers, KeptOK(kept, answers), NEW r \in Range(kept)
  PROVE  NormalWave(kept, answers, r) \in Nat /\ NormalWave(kept, answers, r) < Len(kept)
<1>1. /\ kept \in Seq(Task) /\ Len(kept) \in Nat /\ DOMAIN kept = 1 .. Len(kept)
      /\ \A i \in 1 .. Len(kept) : answers[kept[i]].wave \in Nat
  BY DEF KeptOK
<1>2. Range(kept) = {kept[i] : i \in 1 .. Len(kept)}
  BY <1>1 DEF Range
<1> DEFINE W == {answers[q].wave : q \in Range(kept)}
           f == [i \in 1 .. Len(kept) |-> answers[kept[i]].wave]
           B == W \cap 0 .. (answers[r].wave - 1)
           V == W \ {answers[r].wave}
<1>3. NormalWave(kept, answers, r) = Cardinality(B)
  BY DEF NormalWave
<1>4. f \in Surjection(1 .. Len(kept), W)
  BY <1>2 DEF Surjection
<1>5. IsFiniteSet(1 .. Len(kept)) /\ Cardinality(1 .. Len(kept)) = Len(kept)
  BY <1>1, FS_Interval
<1>6. answers[r].wave \in W /\ answers[r].wave \in Nat
  BY <1>1, <1>2
<1>7. B \subseteq V
  BY <1>6
<1> HIDE DEF f, W, B
<1>8. IsFiniteSet(W) /\ Cardinality(W) <= Len(kept) /\ Cardinality(W) \in Nat
  BY <1>4, <1>5, FS_Surjection, FS_CardinalityType
<1>9. IsFiniteSet(V) /\ Cardinality(V) = Cardinality(W) - 1
  BY <1>6, <1>8, FS_RemoveElement
<1> HIDE DEF V
<1>10. IsFiniteSet(B) /\ Cardinality(B) <= Cardinality(V)
  BY <1>7, <1>9, FS_Subset
<1>11. Cardinality(B) \in Nat
  BY <1>10, FS_CardinalityType
<1> QED
  BY <1>1, <1>3, <1>8, <1>9, <1>10, <1>11

\* An automatic plan passes validation.
LEMMA AllocatedIsValid ==
  ASSUME request \in Goals, request.automatic, NEW kept, NEW answers, KeptOK(kept, answers), kept # <<>>
  PROVE  Allocated(kept, answers) \in GoalTasks /\ ValidTasksOf(Allocated(kept, answers))
<1> DEFINE D == [t \in Task |-> IF t \notin Range(kept) THEN {}
                    ELSE {q \in Range(kept) : NormalWave(kept, answers, q) = NormalWave(kept, answers, t) - 1}]
           ordered == [request.template EXCEPT !.order = kept]
           allocated == [ordered EXCEPT !.dependsOn = D]
<1>1. /\ request.template \in GoalTasks
      /\ \A t \in Task : request.template.inputs[t] = 1 /\ request.template.stateFrom[t] = NoTask
  BY GoalAssumption DEF GoalRequest
<1>2. /\ kept \in Seq(Task) /\ Len(kept) \in 1 .. 16 /\ DOMAIN kept = 1 .. Len(kept)
      /\ \A i, j \in 1 .. Len(kept) : kept[i] = kept[j] => i = j
      /\ \A i \in 1 .. Len(kept) : kept[i] \in Task
  <2>1. kept \in Seq(Task) /\ Len(kept) \in 0 .. 16 /\ \A i, j \in 1 .. Len(kept) : kept[i] = kept[j] => i = j
    BY DEF KeptOK
  <2>2. Len(kept) # 0
    BY <2>1
  <2> QED
    BY <2>1, <2>2
<1>3. Range(kept) \subseteq Task
  BY <1>2 DEF Range
<1>4. \A r \in Range(kept) : NormalWave(kept, answers, r) \in Nat /\ NormalWave(kept, answers, r) < Len(kept)
  BY NormalWaves
<1>5. D \in [Task -> SUBSET (Task \cup {NoTask})]
  BY <1>3
<1>6. Allocated(kept, answers) = allocated
  BY <1>1 DEF Allocated, GoalTasks
<1>7. \A t \in Range(kept) : D[t] = {q \in Range(kept) : NormalWave(kept, answers, q) = NormalWave(kept, answers, t) - 1}
  BY <1>3
<1> HIDE DEF D
<1>8. ordered \in GoalTasks /\ ordered.order = kept /\ ordered.inputs = request.template.inputs
      /\ ordered.stateFrom = request.template.stateFrom
  BY <1>1, <1>2 DEF GoalTasks
<1> HIDE DEF ordered
<1>9. allocated \in GoalTasks /\ allocated.order = kept /\ allocated.inputs = request.template.inputs
      /\ allocated.stateFrom = request.template.stateFrom /\ allocated.dependsOn = D
  BY <1>5, <1>8 DEF GoalTasks
<1> HIDE DEF allocated
<1>10. PICK p : p = allocated
  OBVIOUS
<1>11. MembersOf(p) = Range(kept) /\ Len(p.order) = Len(kept) /\ p.order = kept
  BY <1>9, <1>10 DEF MembersOf
<1>12. \A t \in Range(kept) : p.inputs[t] <= 1 /\ DependenciesOf(p, t) = D[t]
  BY <1>1, <1>3, <1>9, <1>10 DEF DependenciesOf
<1>13. \A t \in Range(kept) : D[t] \subseteq Range(kept) \ {t}
  <2> TAKE t \in Range(kept)
  <2>1. PICK w \in Nat : w = NormalWave(kept, answers, t)
    BY <1>4
  <2>2. w # w - 1
    OBVIOUS
  <2> QED
    BY <1>7, <2>1, <2>2
<1>14. MaxTasks \in Nat /\ Len(kept) \in 1 .. MaxTasks
  <2>1. PICK n \in 1 .. 16 : n = Len(kept)
    BY <1>2
  <2>2. MaxTasks = 32
    BY DEF MaxTasks
  <2>3. \A k \in 1 .. 16 : k \in 1 .. 32
    OBVIOUS
  <2>4. n \in 1 .. MaxTasks
    BY <2>2, <2>3, Zenon
  <2> QED
    BY <2>1, <2>2, <2>4
<1>15. \A k \in Nat : k <= MaxTasks => \A r \in Range(kept) : NormalWave(kept, answers, r) < k => r \in PeeledOf(p)[k]
  <2> DEFINE S == {k \in Nat : k <= MaxTasks => \A r \in Range(kept) : NormalWave(kept, answers, r) < k => r \in PeeledOf(p)[k]}
  <2>1. 0 \in S
    <3>1. ASSUME NEW r \in Range(kept) PROVE ~(NormalWave(kept, answers, r) < 0)
      <4>1. PICK w \in Nat : w = NormalWave(kept, answers, r)
        BY <1>4
      <4> QED
        BY <4>1
    <3> QED
      BY <3>1
  <2>2. ASSUME NEW k \in Nat, k \in S PROVE k + 1 \in S
    <3> SUFFICES ASSUME k + 1 <= MaxTasks, NEW r \in Range(kept), NormalWave(kept, answers, r) < k + 1
                 PROVE  r \in PeeledOf(p)[k + 1]
      OBVIOUS
    <3>1. k + 1 \in 1 .. MaxTasks /\ (k + 1) - 1 = k /\ k <= MaxTasks
      BY <1>14
    <3>2. PICK w \in Nat : w = NormalWave(kept, answers, r)
      BY <1>4
    <3>3. w - 1 < k
      BY <3>2
    <3>4. ASSUME NEW q \in D[r] PROVE q \in PeeledOf(p)[k]
      <4>1. q \in Range(kept) /\ NormalWave(kept, answers, q) = w - 1
        BY <1>7, <3>2, <3>4
      <4>2. NormalWave(kept, answers, q) < k
        BY <3>3, <4>1
      <4> QED
        BY <2>2, <3>1, <4>1, <4>2
    <3>5. DependenciesOf(p, r) \subseteq PeeledOf(p)[k] /\ r \in MembersOf(p)
      BY <1>11, <1>12, <3>4
    <3>6. PeeledOf(p)[k + 1] = {m \in MembersOf(p) : DependenciesOf(p, m) \subseteq PeeledOf(p)[k]}
      BY <3>1, PeeledIs
    <3> QED
      BY <3>5, <3>6
  <2> HIDE DEF S
  <2>3. \A k \in Nat : k \in S
    BY <2>1, <2>2, SetInduction
  <2> QED
    BY <2>3 DEF S
<1>16. PeeledOf(p)[Len(kept)] = Range(kept)
  <2>1. Len(kept) \in Nat /\ Len(kept) <= MaxTasks
    BY <1>14
  <2>2. Range(kept) \subseteq PeeledOf(p)[Len(kept)]
    BY <1>4, <1>15, <2>1
  <2>3. PeeledOf(p)[Len(kept)] = {m \in MembersOf(p) : DependenciesOf(p, m) \subseteq PeeledOf(p)[Len(kept) - 1]}
    BY <1>14, PeeledIs
  <2> QED
    BY <1>11, <2>2, <2>3
<1>17. IsInjective(kept)
  BY <1>2 DEF IsInjective
<1>18. ValidTasksOf(p)
  BY <1>11, <1>12, <1>13, <1>14, <1>16, <1>17 DEF ValidTasksOf
<1> QED
  BY <1>6, <1>9, <1>10, <1>18

\* Nobody works on a plan that has just been made.
LEMMA NobodyWorksYet ==
  request \in Goals /\ tasks \in GoalTasks /\ job = [t \in Task |-> NewJob] /\ results = {} => WorkersOK(job, results)
<1> SUFFICES ASSUME request \in Goals, tasks \in GoalTasks, job = [t \in Task |-> NewJob], results = {}
             PROVE  WorkersOK(job, results)
  OBVIOUS
<1>1. WorkersOK(job, {})
  BY NobodyWorks
<1> QED
  BY <1>1

LEMMA NobodyWorksNext ==
  (request \in Goals /\ tasks \in GoalTasks /\ job = [t \in Task |-> NewJob] /\ results = {} => WorkersOK(job, results))'
BY NobodyWorksYet, PTL

LEMMA AllocatesKeeps == ASSUME GoalInv, Allocates PROVE GoalInv'
<1> DEFINE Outcome(answers, kept) ==
             IF kept = <<>> \/ \E r \in Range(kept) : answers[r].sure = 0
             THEN goal' = "escalated" /\ UNCHANGED tasks
             ELSE goal' = "planned" /\ tasks' = Allocated(kept, answers)
<1>0. PICK answers \in [Eligible(request.roots) -> PlanningChoices(request.maxWaves)] :
        \E ranking \in Rankings(Eligible(request.roots), answers) : Outcome(answers, Retained(ranking))
  BY Zenon DEF Allocates
<1>1. PICK ranking \in Rankings(Eligible(request.roots), answers) : Outcome(answers, Retained(ranking))
  BY <1>0
<1>2. goal = "planning" /\ UNCHANGED <<request, job, results, stopped>>
  BY DEF Allocates
<1>3. PICK kept : kept = Retained(ranking)
  OBVIOUS
<1>4. /\ request \in Goals /\ request.automatic /\ job = [t \in Task |-> NewJob] /\ WorkersOK(job, results)
      /\ stopped \in BOOLEAN
  BY <1>2 DEF GoalInv, GoalPhaseOK
<1>5. \/ goal' = "escalated" /\ tasks' = tasks
      \/ goal' = "planned" /\ tasks' = Allocated(kept, answers) /\ kept # <<>>
  BY <1>1, <1>3, Zenon
<1>6. CASE goal' = "escalated" /\ tasks' = tasks
  <2>1. GoalPhaseOK'
    BY <1>6 DEF GoalPhaseOK
  <2> QED
    BY <1>2, <1>4, <1>6, <2>1, CallStepKeeps
<1>7. CASE goal' = "planned" /\ tasks' = Allocated(kept, answers) /\ kept # <<>>
  <2>1. KeptOK(kept, answers)
    BY <1>3, <1>4, RetainedIsOK
  <2>2. Allocated(kept, answers) \in GoalTasks /\ ValidTasksOf(Allocated(kept, answers))
    BY <1>4, <1>7, <2>1, AllocatedIsValid
  <2>3. tasks' \in GoalTasks /\ ValidTasks'
    BY <1>7, <2>2, ValidTasksNext
  <2>4. results = {}
    <3> SUFFICES ASSUME NEW t \in results PROVE FALSE
      OBVIOUS
    <3>1. job[t].status # "pending" /\ t \in Task
      BY <1>4, GoalFacts DEF WorkersOK, GoalInv
    <3>2. job[t].status = "pending"
      BY <1>4, <3>1 DEF NewJob
    <3> QED
      BY <3>1, <3>2
  <2>5. WorkersOK(job, results)'
    BY <1>2, <1>4, <2>3, <2>4, NobodyWorksNext
  <2>6. GoalPhaseOK'
    BY <1>2, <1>4, <1>7, <2>3 DEF GoalPhaseOK
  <2> QED
    BY <1>2, <1>4, <2>3, <2>5, <2>6 DEF GoalInv
<1> QED
  BY <1>5, <1>6, <1>7

--------------------------------------------------------------------------------
(* The theorems.                                                             *)

\* GoalInv is inductive: a worker has acted as often as it has taken steps, what
\* it was started for is among the results, and a goal that is open has passed
\* validation, whose peeling leaves no cycle to get stuck in.
THEOREM GoalInductive == GoalSafety => []GoalInv
<1>1. GoalInv /\ [GoalNext]_goalVars => GoalInv'
  <2> SUFFICES ASSUME GoalInv, [GoalNext]_goalVars PROVE GoalInv'
    OBVIOUS
  <2>1. CASE GoalOpens
    BY <2>1, GoalOpensKeeps
  <2>2. CASE Allocates
    BY <2>2, AllocatesKeeps
  <2>3. CASE PlanningFails
    BY <2>3, PlanningFailsKeeps
  <2>4. CASE PlannedOpens
    BY <2>4, PlannedOpensKeeps
  <2>5. CASE GoalPass
    BY <2>5, GoalPassKeeps
  <2>6. CASE GoalAnswers
    BY <2>6, GoalAnswersKeeps
  <2>7. CASE \E t \in Task : GoalCollects(t)
    BY <2>7, GoalCollectsKeeps
  <2>8. CASE GoalStops
    BY <2>8, GoalStopsKeeps
  <2>9. CASE \E t \in Task : JobStep(t)
    <3>1. PICK t \in Task : JobStep(t)
      BY <2>9
    <3> QED
      BY <3>1, JobObservesKeeps, JobDecidesKeeps, JobActsKeeps, JobLooksAgainKeeps, JobFailsKeeps DEF JobStep
  <2>10. CASE UNCHANGED goalVars
    <3>1. UNCHANGED <<request, tasks, job, results>> /\ goal' = goal /\ stopped' = stopped
      BY <2>10 DEF goalVars
    <3>2. ValidTasks' <=> ValidTasks
      BY <3>1, ValidTasksIs, ValidTasksNext
    <3>3. Members' = Members
      BY <3>1 DEF Members, Range
    <3>4. GoalPhaseOK'
      BY <3>1, <3>2, <3>3 DEF GoalPhaseOK, GoalInv
    <3>5. stopped' \in BOOLEAN
      BY <3>1 DEF GoalInv
    <3> QED
      BY <3>1, <3>4, <3>5, CallStepKeeps
  <2> QED
    BY <2>1, <2>2, <2>3, <2>4, <2>5, <2>6, <2>7, <2>8, <2>9, <2>10 DEF GoalNext, GoalCallStep
<1> QED
  BY <1>1, GoalInitInv, PTL DEF GoalSafety

\* For every set of requests and whatever the workers see: no worker starts
\* before what it depends on has succeeded and been taken, no more than
\* maxConcurrency work at once, none acts more often than its budget, no goal
\* gets stuck, no automatic plan is refused, and a call that reports success
\* speaks the truth (goal-executor.ts: executeGoal, runWorker,
\* automaticGoalPlan).
THEOREM GoalFitsItsTasks == GoalSafety => []GoalSound
<1>1. GoalInv => GoalSound
  <2> SUFFICES ASSUME GoalInv PROVE GoalSound
    OBVIOUS
  <2>1. WorkersOK(job, results) /\ GoalPhaseOK /\ Members \subseteq Task
    BY GoalFacts DEF GoalInv
  <2>2. \A t \in Members : job[t].status \notin {"pending", "blocked"} =>
          \A d \in Dependencies(t) : job[d].status = "succeeded" /\ d \in results
    BY <2>1 DEF WorkersOK, Met
  <2>3. Cardinality(Active(job, results)) <= Concurrency
    BY <2>1 DEF WorkersOK
  <2>4. \A t \in Members : JobOK(t, job[t])
    BY <2>1 DEF WorkersOK
  <2>5. \A t \in Members : job[t].acts <= MaxSteps(t)
    BY <2>4 DEF JobOK
  <2>6. goal # "stuck" /\ ~(request.automatic /\ goal = "invalid")
    BY <2>1 DEF GoalPhaseOK
  <2>7. goal = "succeeded" => \A t \in Members : job[t].status = "succeeded" /\ (tasks.completion[t] => job[t].view.met)
    BY <2>1, <2>4 DEF GoalPhaseOK, JobOK
  <2> QED
    BY <2>2, <2>3, <2>5, <2>6, <2>7 DEF GoalSound
<1> QED
  BY <1>1, GoalInductive, PTL
--------------------------------------------------------------------------------
(* Decisions: facts about sequences.                                         *)

LEMMA RangeOfAppend ==
  ASSUME NEW S, NEW s \in Seq(S), NEW e \in S
  PROVE  Append(s, e) \in Seq(S) /\ Len(Append(s, e)) = Len(s) + 1 /\ Range(Append(s, e)) = Range(s) \cup {e}
<1>1. PICK t : t = Append(s, e)
  OBVIOUS
<1>2. /\ t \in Seq(S) /\ Len(t) = Len(s) + 1 /\ t[Len(s) + 1] = e /\ Len(s) \in Nat
      /\ \A i \in 1 .. Len(s) : t[i] = s[i]
  BY <1>1, AppendProperties
<1>3. DOMAIN s = 1 .. Len(s) /\ DOMAIN t = 1 .. Len(s) + 1
  BY <1>2
<1>4. Range(t) = Range(s) \cup {e}
  BY <1>2, <1>3 DEF Range
<1> QED
  BY <1>1, <1>2, <1>4

LEMMA RangeOfConcat ==
  ASSUME NEW S, NEW s \in Seq(S), NEW t \in Seq(S)
  PROVE  s \o t \in Seq(S) /\ Len(s \o t) = Len(s) + Len(t) /\ Range(s \o t) = Range(s) \cup Range(t)
<1>1. PICK u : u = s \o t
  OBVIOUS
<1>2. /\ u \in Seq(S) /\ Len(u) = Len(s) + Len(t) /\ Len(s) \in Nat /\ Len(t) \in Nat
      /\ \A i \in 1 .. Len(s) + Len(t) : u[i] = IF i <= Len(s) THEN s[i] ELSE t[i - Len(s)]
  BY <1>1, ConcatProperties
<1>3. DOMAIN s = 1 .. Len(s) /\ DOMAIN t = 1 .. Len(t) /\ DOMAIN u = 1 .. Len(s) + Len(t)
  BY <1>2
<1>4. ASSUME NEW i \in DOMAIN u PROVE u[i] \in Range(s) \cup Range(t)
  <2>1. CASE i <= Len(s)
    BY <1>2, <1>3, <1>4, <2>1 DEF Range
  <2>2. CASE ~(i <= Len(s))
    <3>1. i - Len(s) \in DOMAIN t /\ u[i] = t[i - Len(s)]
      BY <1>2, <1>3, <2>2
    <3> QED
      BY <3>1 DEF Range
  <2> QED
    BY <2>1, <2>2
<1>5. ASSUME NEW i \in DOMAIN s PROVE s[i] \in Range(u)
  <2>1. i \in DOMAIN u /\ u[i] = s[i]
    BY <1>2, <1>3
  <2> QED
    BY <2>1 DEF Range
<1>6. ASSUME NEW i \in DOMAIN t PROVE t[i] \in Range(u)
  <2>1. i + Len(s) \in DOMAIN u /\ ~(i + Len(s) <= Len(s)) /\ (i + Len(s)) - Len(s) = i
    BY <1>2, <1>3
  <2>2. u[i + Len(s)] = t[i]
    BY <1>2, <1>3, <2>1
  <2> QED
    BY <2>1, <2>2 DEF Range
<1>7. Range(u) = Range(s) \cup Range(t)
  BY <1>4, <1>5, <1>6 DEF Range
<1> QED
  BY <1>1, <1>2, <1>7

\* A value that is built up step by step exists, and stays where its steps do.
BuildsUp(f, X, b, G, n) ==
  /\ f \in [0 .. n -> X] /\ f[0] = b
  /\ \A k \in 1 .. n : f[k] = G[<<f[k - 1], k>>]

LEMMA BuildUpExists ==
  ASSUME NEW X, NEW b \in X, NEW G \in [X \X Nat -> X], NEW n \in Nat
  PROVE  \E f : BuildsUp(f, X, b, G, n)
<1> DEFINE S == {m \in Nat : \E f : BuildsUp(f, X, b, G, m)}
<1>1. 0 \in S
  <2> DEFINE f == [k \in 0 .. 0 |-> b]
  <2>1. BuildsUp(f, X, b, G, 0)
    BY DEF BuildsUp
  <2> QED
    BY <2>1
<1>2. ASSUME NEW m \in Nat, m \in S PROVE m + 1 \in S
  <2>1. PICK f : BuildsUp(f, X, b, G, m)
    BY <1>2
  <2>2. f \in [0 .. m -> X] /\ f[0] = b /\ \A k \in 1 .. m : f[k] = G[<<f[k - 1], k>>]
    BY <2>1 DEF BuildsUp
  <2> DEFINE v == G[<<f[m], m + 1>>]
             g == [k \in 0 .. m + 1 |-> IF k = m + 1 THEN v ELSE f[k]]
  <2>3. v \in X
    BY <2>2
  <2> HIDE DEF v
  <2>4. g \in [0 .. m + 1 -> X] /\ g[0] = b /\ g[m + 1] = v /\ \A k \in 0 .. m : g[k] = f[k]
    BY <2>2, <2>3
  <2> HIDE DEF g
  <2>5. ASSUME NEW k \in 1 .. m + 1 PROVE g[k] = G[<<g[k - 1], k>>]
    <3>1. CASE k = m + 1
      <4>1. k - 1 = m /\ m \in 0 .. m
        BY <3>1
      <4> QED
        BY <2>4, <3>1, <4>1 DEF v
    <3>2. CASE k # m + 1
      <4>1. k \in 1 .. m /\ k \in 0 .. m /\ k - 1 \in 0 .. m
        BY <3>2
      <4> QED
        BY <2>2, <2>4, <4>1
    <3> QED
      BY <3>1, <3>2
  <2>6. BuildsUp(g, X, b, G, m + 1)
    BY <2>4, <2>5 DEF BuildsUp
  <2> QED
    BY <2>6
<1>3. n \in S
  <2> HIDE DEF S
  <2> QED
    BY <1>1, <1>2, SetInduction
<1> QED
  BY <1>3

\* What is left out of the winners is there already.
LEMMA DedupKeeps ==
  ASSUME NEW S, NEW s \in Seq(S)
  PROVE  Dedup(s) \in Seq(S) /\ Range(Dedup(s)) = Range(s)
<1> DEFINE N == Len(s)
           Next(x, k) == IF s[k] \in Range(x) THEN x ELSE Append(x, s[k])
           Is(f) == f = [k \in 0 .. N |-> IF k = 0 THEN <<>> ELSE Next(f[k - 1], k)]
           kept == CHOOSE f : Is(f)
           G == [p \in Seq(S) \X Nat |-> IF p[2] \in 1 .. N THEN Next(p[1], p[2]) ELSE <<>>]
<1>1. N \in Nat /\ DOMAIN s = 1 .. N /\ \A k \in 1 .. N : s[k] \in S
  OBVIOUS
<1>2. Dedup(s) = kept[N]
  BY Zenon DEF Dedup
<1>3. \A x \in Seq(S) : \A k \in 1 .. N : Next(x, k) \in Seq(S)
  BY <1>1
<1>4. G \in [Seq(S) \X Nat -> Seq(S)] /\ \A x \in Seq(S) : \A k \in 1 .. N : G[<<x, k>>] = Next(x, k)
  <2> HIDE DEF Next
  <2>1. <<>> \in Seq(S)
    OBVIOUS
  <2> QED
    BY <1>1, <1>3, <2>1
<1> HIDE DEF N, G, Next
<1>5. PICK w : BuildsUp(w, Seq(S), <<>>, G, N)
  <2>1. <<>> \in Seq(S)
    OBVIOUS
  <2> QED
    BY <1>1, <1>4, <2>1, BuildUpExists
<1>6. w \in [0 .. N -> Seq(S)] /\ w[0] = <<>> /\ \A k \in 1 .. N : w[k] = Next(w[k - 1], k)
  <2>1. w \in [0 .. N -> Seq(S)] /\ w[0] = <<>> /\ \A k \in 1 .. N : w[k] = G[<<w[k - 1], k>>]
    BY <1>5 DEF BuildsUp
  <2>2. \A k \in 1 .. N : k - 1 \in 0 .. N
    BY <1>1
  <2> QED
    BY <1>4, <2>1, <2>2
<1>7. Is(w)
  <2>1. w = [k \in 0 .. N |-> w[k]]
    BY <1>6
  <2>2. \A k \in 0 .. N : w[k] = IF k = 0 THEN <<>> ELSE Next(w[k - 1], k)
    BY <1>1, <1>6
  <2> QED
    BY <2>1, <2>2
<1>8. Is(kept)
  <2> HIDE DEF Is
  <2> QED
    BY <1>7
<1> HIDE DEF kept
<1>9. \A k \in 0 .. N : kept[k] = IF k = 0 THEN <<>> ELSE Next(kept[k - 1], k)
  BY <1>8, Zenon
<1>10. kept[0] = <<>> /\ \A k \in Nat : k + 1 <= N => kept[k + 1] = Next(kept[k], k + 1)
  <2>1. kept[0] = <<>>
    BY <1>1, <1>9
  <2>2. ASSUME NEW k \in Nat, k + 1 <= N PROVE kept[k + 1] = Next(kept[k], k + 1)
    <3>1. k + 1 \in 0 .. N /\ k + 1 # 0 /\ (k + 1) - 1 = k
      BY <1>1, <2>2
    <3> QED
      BY <1>9, <3>1
  <2> QED
    BY <2>1, <2>2
<1> DEFINE Good(k) == kept[k] \in Seq(S) /\ Range(kept[k]) = {s[i] : i \in 1 .. k}
<1> HIDE DEF Good
<1>11. \A k \in Nat : k <= N => Good(k)
  <2> DEFINE T == {k \in Nat : k <= N => Good(k)}
  <2>1. 0 \in T
    <3>1. Range(<<>>) = {} /\ <<>> \in Seq(S)
      BY DEF Range
    <3>2. {s[i] : i \in 1 .. 0} = {}
      OBVIOUS
    <3>3. Good(0)
      BY <1>10, <3>1, <3>2 DEF Good
    <3> QED
      BY <3>3
  <2>2. ASSUME NEW k \in Nat, k \in T PROVE k + 1 \in T
    <3> SUFFICES ASSUME k + 1 <= N PROVE Good(k + 1)
      OBVIOUS
    <3>1. k + 1 \in 1 .. N /\ k <= N /\ s[k + 1] \in S
      BY <1>1
    <3>2. PICK x : x = kept[k]
      OBVIOUS
    <3>3. x \in Seq(S) /\ Range(x) = {s[i] : i \in 1 .. k}
      BY <2>2, <3>1, <3>2 DEF Good
    <3>4. {s[i] : i \in 1 .. k + 1} = {s[i] : i \in 1 .. k} \cup {s[k + 1]}
      <4>1. \A i : i \in 1 .. k + 1 <=> i \in 1 .. k \/ i = k + 1
        OBVIOUS
      <4> QED
        BY <4>1
    <3>5. kept[k + 1] = Next(x, k + 1)
      BY <1>10, <3>2
    <3>6. CASE s[k + 1] \in Range(x)
      BY <3>3, <3>4, <3>5, <3>6 DEF Next, Good
    <3>7. CASE s[k + 1] \notin Range(x)
      <4>1. kept[k + 1] = Append(x, s[k + 1])
        BY <3>5, <3>7 DEF Next
      <4> QED
        BY <3>1, <3>3, <3>4, <4>1, RangeOfAppend DEF Good
    <3> QED
      BY <3>6, <3>7
  <2> HIDE DEF T
  <2>3. \A k \in Nat : k \in T
    BY <2>1, <2>2, SetInduction
  <2> QED
    BY <2>3 DEF T
<1>12. Range(s) = {s[i] : i \in 1 .. N}
  BY <1>1 DEF Range
<1>13. Good(N)
  BY <1>1, <1>11
<1> QED
  BY <1>2, <1>12, <1>13 DEF Good

\* The two kinds of candidates are all there are.
LEMMA KindsCover ==
  ASSUME NEW C, \A c \in C : c.kind \in Kind, NEW s \in Seq(C)
  PROVE  /\ Terminals(s) \in Seq(C) /\ Actions(s) \in Seq(C)
         /\ Range(Terminals(s)) \cup Range(Actions(s)) = Range(s)
         /\ Len(Terminals(s)) + Len(Actions(s)) = Len(s)
<1> DEFINE N == Len(s)
           Next(kinds, x, k) == IF s[k].kind \in kinds THEN Append(x, s[k]) ELSE x
           Is(f, kinds) == f = [k \in 0 .. N |-> IF k = 0 THEN <<>> ELSE Next(kinds, f[k - 1], k)]
           kept(kinds) == CHOOSE f : Is(f, kinds)
<1>1. N \in Nat /\ DOMAIN s = 1 .. N /\ \A k \in 1 .. N : s[k] \in C /\ s[k].kind \in Kind
  OBVIOUS
<1>2. \A kinds : OfKinds(s, kinds) = kept(kinds)[N]
  BY Zenon DEF OfKinds
<1> HIDE DEF N
<1>3. ASSUME NEW kinds
      PROVE  /\ kept(kinds)[0] = <<>>
             /\ \A k \in Nat : k + 1 <= N => kept(kinds)[k + 1] = Next(kinds, kept(kinds)[k], k + 1)
  <2> DEFINE Step(x, k) == Next(kinds, x, k)
             G == [p \in Seq(C) \X Nat |-> IF p[2] \in 1 .. N THEN Step(p[1], p[2]) ELSE <<>>]
             h == kept(kinds)
  <2>1. \A x \in Seq(C) : \A k \in 1 .. N : Step(x, k) \in Seq(C)
    BY <1>1
  <2> HIDE DEF Next
  <2>2. /\ G \in [Seq(C) \X Nat -> Seq(C)]
        /\ \A x \in Seq(C) : \A k \in 1 .. N : G[<<x, k>>] = Step(x, k)
    <3> HIDE DEF Step
    <3>1. <<>> \in Seq(C) /\ \A k \in 1 .. N : k \in Nat
      BY <1>1
    <3>2. ASSUME NEW p \in Seq(C) \X Nat PROVE (IF p[2] \in 1 .. N THEN Step(p[1], p[2]) ELSE <<>>) \in Seq(C)
      BY <2>1, <3>1
    <3>3. ASSUME NEW x \in Seq(C), NEW k \in 1 .. N PROVE G[<<x, k>>] = Step(x, k)
      <4>1. <<x, k>> \in Seq(C) \X Nat /\ <<x, k>>[1] = x /\ <<x, k>>[2] = k
        BY <3>1
      <4> QED
        BY <4>1, Zenon
    <3>4. G \in [Seq(C) \X Nat -> Seq(C)]
      BY <3>2
    <3> QED
      BY <3>3, <3>4
  <2> HIDE DEF G
  <2>3. PICK w : BuildsUp(w, Seq(C), <<>>, G, N)
    <3>1. <<>> \in Seq(C)
      OBVIOUS
    <3> QED
      BY <1>1, <2>2, <3>1, BuildUpExists
  <2>4. w \in [0 .. N -> Seq(C)] /\ w[0] = <<>> /\ \A k \in 1 .. N : w[k] = Next(kinds, w[k - 1], k)
    <3>1. w \in [0 .. N -> Seq(C)] /\ w[0] = <<>> /\ \A k \in 1 .. N : w[k] = G[<<w[k - 1], k>>]
      BY <2>3 DEF BuildsUp
    <3>2. \A k \in 1 .. N : k - 1 \in 0 .. N
      BY <1>1
    <3> QED
      BY <2>2, <3>1, <3>2
  <2>5. Is(w, kinds)
    <3>1. w = [k \in 0 .. N |-> w[k]]
      BY <2>4
    <3>2. \A k \in 0 .. N : w[k] = IF k = 0 THEN <<>> ELSE Next(kinds, w[k - 1], k)
      BY <1>1, <2>4
    <3> QED
      BY <3>1, <3>2
  <2>6. Is(h, kinds)
    <3> HIDE DEF Is
    <3> QED
      BY <2>5
  <2> HIDE DEF h
  <2>7. \A k \in 0 .. N : h[k] = IF k = 0 THEN <<>> ELSE Next(kinds, h[k - 1], k)
    BY <2>6, Zenon
  <2>8. h[0] = <<>>
    BY <1>1, <2>7
  <2>9. ASSUME NEW k \in Nat, k + 1 <= N PROVE h[k + 1] = Next(kinds, h[k], k + 1)
    <3>1. k + 1 \in 0 .. N /\ k + 1 # 0 /\ (k + 1) - 1 = k
      BY <1>1, <2>9
    <3> QED
      BY <2>7, <3>1
  <2> QED
    BY <2>8, <2>9 DEF h
<1>4. PICK t, a : t = kept(Kind \ {"action"}) /\ a = kept({"action"})
  OBVIOUS
<1>5. Terminals(s) = t[N] /\ Actions(s) = a[N]
  BY <1>2, <1>4 DEF Terminals, Actions
<1>6. /\ t[0] = <<>> /\ \A k \in Nat : k + 1 <= N => t[k + 1] = Next(Kind \ {"action"}, t[k], k + 1)
      /\ a[0] = <<>> /\ \A k \in Nat : k + 1 <= N => a[k + 1] = Next({"action"}, a[k], k + 1)
  <2> HIDE DEF kept, Next
  <2> QED
    BY <1>3, <1>4
<1> HIDE DEF kept
<1> DEFINE Good(k) == /\ t[k] \in Seq(C) /\ a[k] \in Seq(C)
                      /\ Range(t[k]) \cup Range(a[k]) = {s[i] : i \in 1 .. k}
                      /\ Len(t[k]) + Len(a[k]) = k
<1> HIDE DEF Good
<1>7. \A k \in Nat : k <= N => Good(k)
  <2> DEFINE T == {k \in Nat : k <= N => Good(k)}
  <2>1. 0 \in T
    <3>1. Range(<<>>) = {} /\ <<>> \in Seq(C) /\ Len(<<>>) = 0
      BY DEF Range
    <3>2. {s[i] : i \in 1 .. 0} = {}
      OBVIOUS
    <3>3. Good(0)
      BY <1>6, <3>1, <3>2 DEF Good
    <3> QED
      BY <3>3
  <2>2. ASSUME NEW k \in Nat, k \in T PROVE k + 1 \in T
    <3> SUFFICES ASSUME k + 1 <= N PROVE Good(k + 1)
      OBVIOUS
    <3>1. k + 1 \in 1 .. N /\ k <= N /\ s[k + 1] \in C /\ s[k + 1].kind \in Kind
      BY <1>1
    <3>2. PICK x, y, c : x = t[k] /\ y = a[k] /\ c = s[k + 1]
      OBVIOUS
    <3>3. /\ x \in Seq(C) /\ y \in Seq(C) /\ Range(x) \cup Range(y) = {s[i] : i \in 1 .. k}
          /\ Len(x) + Len(y) = k
      BY <2>2, <3>1, <3>2 DEF Good
    <3>4. {s[i] : i \in 1 .. k + 1} = {s[i] : i \in 1 .. k} \cup {c}
      <4>1. \A i : i \in 1 .. k + 1 <=> i \in 1 .. k \/ i = k + 1
        OBVIOUS
      <4> QED
        BY <3>2, <4>1
    <3>5. /\ t[k + 1] = IF c.kind # "action" THEN Append(x, c) ELSE x
          /\ a[k + 1] = IF c.kind = "action" THEN Append(y, c) ELSE y
      BY <1>6, <3>1, <3>2
    <3>6. CASE c.kind # "action"
      <4>1. t[k + 1] = Append(x, c) /\ a[k + 1] = y
        BY <3>5, <3>6
      <4>2. Append(x, c) \in Seq(C) /\ Len(Append(x, c)) = Len(x) + 1 /\ Range(Append(x, c)) = Range(x) \cup {c}
        BY <3>1, <3>2, <3>3, RangeOfAppend
      <4>3. Range(t[k + 1]) \cup Range(a[k + 1]) = {s[i] : i \in 1 .. k + 1}
        BY <3>3, <3>4, <4>1, <4>2, Zenon
      <4>4. Len(t[k + 1]) + Len(a[k + 1]) = k + 1
        <5>1. Len(x) \in Nat /\ Len(y) \in Nat /\ Len(x) + Len(y) = k
          BY <3>3
        <5> QED
          BY <4>1, <4>2, <5>1
      <4>5. t[k + 1] \in Seq(C) /\ a[k + 1] \in Seq(C)
        BY <3>3, <4>1, <4>2
      <4> QED
        BY <4>3, <4>4, <4>5, Zenon DEF Good
    <3>7. CASE c.kind = "action"
      <4>1. t[k + 1] = x /\ a[k + 1] = Append(y, c)
        BY <3>5, <3>7
      <4>2. Append(y, c) \in Seq(C) /\ Len(Append(y, c)) = Len(y) + 1 /\ Range(Append(y, c)) = Range(y) \cup {c}
        BY <3>1, <3>2, <3>3, RangeOfAppend
      <4>3. Range(t[k + 1]) \cup Range(a[k + 1]) = {s[i] : i \in 1 .. k + 1}
        BY <3>3, <3>4, <4>1, <4>2, Zenon
      <4>4. Len(t[k + 1]) + Len(a[k + 1]) = k + 1
        <5>1. Len(x) \in Nat /\ Len(y) \in Nat /\ Len(x) + Len(y) = k
          BY <3>3
        <5> QED
          BY <4>1, <4>2, <5>1
      <4>5. t[k + 1] \in Seq(C) /\ a[k + 1] \in Seq(C)
        BY <3>3, <4>1, <4>2
      <4> QED
        BY <4>3, <4>4, <4>5, Zenon DEF Good
    <3> QED
      BY <3>6, <3>7
  <2> HIDE DEF T
  <2>3. \A k \in Nat : k \in T
    BY <2>1, <2>2, SetInduction
  <2> QED
    BY <2>3 DEF T
<1>8. Range(s) = {s[i] : i \in 1 .. N}
  BY <1>1 DEF Range
<1>9. Good(N)
  BY <1>1, <1>7
<1> QED
  BY <1>5, <1>8, <1>9 DEF N, Good

--------------------------------------------------------------------------------
(* What is split into batches is all there, and no batch is empty.           *)

LEMMA Times ==
  ASSUME NEW a \in Int, NEW b \in Int, NEW s \in Nat, a <= b
  PROVE  a * s <= b * s
<1>1. PICK d \in Nat : b = a + d
  <2>1. b - a \in Nat /\ b = a + (b - a)
    OBVIOUS
  <2> QED
    BY <2>1
<1>2. b * s = a * s + d * s /\ d * s \in Nat /\ a * s \in Int
  BY <1>1
<1> QED
  BY <1>2

LEMMA Quotient ==
  ASSUME NEW a \in Nat, NEW s \in Nat \ {0}
  PROVE  a \div s \in Nat /\ (a \div s) * s <= a /\ a < (a \div s) * s + s
OBVIOUS

\* The batch in which an index lies, and where.
BatchesFit(length, size, n) ==
  /\ n \in Nat /\ (length = 1 => n = 1)
  /\ \A i \in 1 .. n : (i - 1) * size \in Nat /\ (i - 1) * size < length /\ i * size \in Nat /\ i * size = (i - 1) * size + size
  /\ \A j \in 1 .. length : \E i \in 1 .. n : (i - 1) * size < j /\ j <= i * size

LEMMA BatchesAre ==
  ASSUME NEW length \in Nat, NEW size \in Nat \ {0}
  PROVE  BatchesFit(length, size, (length + size - 1) \div size)
<1>0. PICK n : n = (length + size - 1) \div size
  OBVIOUS
<1>1. /\ n \in Nat /\ n * size <= length + size - 1 /\ length + size - 1 < n * size + size
      /\ n * size \in Nat /\ length + size - 1 \in Nat
  <2>1. PICK a \in Nat : a = length + size - 1
    OBVIOUS
  <2>2. n = a \div size
    BY <1>0, <2>1
  <2>3. n \in Nat /\ n * size <= a /\ a < n * size + size
    BY <2>2, Quotient
  <2>4. n * size \in Nat
    BY <2>3
  <2> QED
    BY <2>1, <2>3, <2>4
<1>2. ASSUME NEW i \in 1 .. n
      PROVE  (i - 1) * size \in Nat /\ (i - 1) * size < length /\ i * size \in Nat /\ i * size = (i - 1) * size + size
  <2>1. i \in Nat /\ i - 1 \in Nat /\ i <= n /\ n \in Int
    BY <1>1
  <2>2. i * size <= n * size
    BY <2>1, Times
  <2>3. i * size = (i - 1) * size + size /\ (i - 1) * size \in Nat /\ i * size \in Nat
    BY <2>1
  <2> QED
    BY <1>1, <2>2, <2>3
<1>3. ASSUME NEW j \in 1 .. length PROVE \E i \in 1 .. n : (i - 1) * size < j /\ j <= i * size
  <2>1. PICK q \in Nat : q = (j - 1) \div size /\ q * size <= j - 1 /\ j - 1 < q * size + size
    <3>1. j - 1 \in Nat
      OBVIOUS
    <3> QED
      BY <3>1, Quotient
  <2>2. q + 1 <= n
    <3> SUFFICES ASSUME ~(q + 1 <= n) PROVE FALSE
      OBVIOUS
    <3>1. n <= q
      BY <1>1
    <3>2. n * size <= q * size
      BY <1>1, <3>1, Times
    <3>3. q * size \in Nat
      OBVIOUS
    <3> QED
      BY <1>1, <2>1, <3>2, <3>3
  <2>3. q + 1 \in 1 .. n /\ (q + 1) - 1 = q /\ (q + 1) * size = q * size + size /\ q * size \in Nat
    BY <1>1, <2>2
  <2>4. ((q + 1) - 1) * size < j /\ j <= (q + 1) * size
    BY <2>1, <2>3
  <2> QED
    BY <2>3, <2>4
<1>4. ASSUME length = 1 PROVE n = 1
  <2>1. n # 0
    <3>1. \E i \in 1 .. n : TRUE
      <4>1. 1 \in 1 .. length
        BY <1>4
      <4> QED
        BY <1>3, <4>1
    <3> QED
      BY <3>1
  <2>2. ASSUME 2 <= n PROVE FALSE
    <3>1. 2 * size <= n * size
      BY <1>1, <2>2, Times
    <3> QED
      BY <1>1, <1>4, <3>1
  <2> QED
    BY <1>1, <2>1, <2>2
<1>5. BatchesFit(length, size, n)
  BY <1>1, <1>2, <1>3, <1>4 DEF BatchesFit
<1> QED
  BY <1>0, <1>5

AllOf(ss) == UNION {Range(ss[i]) : i \in DOMAIN ss}

LEMMA BatchesCover ==
  ASSUME NEW S, NEW v \in Seq(S), NEW size \in Nat \ {0}
  PROVE  /\ Batches(v, size) \in Seq(Seq(S))
         /\ \A i \in 1 .. Len(Batches(v, size)) : Len(Batches(v, size)[i]) \in Nat \ {0}
         /\ AllOf(Batches(v, size)) = Range(v)
         /\ Len(v) = 1 => Len(Batches(v, size)) = 1 /\ Len(Batches(v, size)[1]) = 1 /\ Batches(v, size)[1][1] = v[1]
<1>1. PICK L \in Nat : L = Len(v) /\ DOMAIN v = 1 .. L /\ \A i \in 1 .. L : v[i] \in S
  OBVIOUS
<1>2. PICK n : n = (L + size - 1) \div size
  OBVIOUS
<1>3. /\ n \in Nat /\ (L = 1 => n = 1)
      /\ \A i \in 1 .. n : (i - 1) * size \in Nat /\ (i - 1) * size < L /\ i * size \in Nat /\ i * size = (i - 1) * size + size
      /\ \A j \in 1 .. L : \E i \in 1 .. n : (i - 1) * size < j /\ j <= i * size
  <2>1. BatchesFit(L, size, n)
    BY <1>2, BatchesAre
  <2> QED
    BY <2>1 DEF BatchesFit
<1> DEFINE low(i) == (i - 1) * size + 1
           high(i) == IF i * size < L THEN i * size ELSE L
<1>4. PICK b : b = Batches(v, size)
  OBVIOUS
<1>5. b = [i \in 1 .. n |-> SubSeq(v, low(i), high(i))]
  BY <1>1, <1>2, <1>4 DEF Batches
<1>6. \A i \in 1 .. n : b[i] = SubSeq(v, low(i), high(i))
  <2> HIDE DEF low, high
  <2> QED
    BY <1>5
\* The bounds of a batch.
<1>7. ASSUME NEW i \in 1 .. n
      PROVE  /\ low(i) \in Nat /\ high(i) \in Nat /\ 1 <= low(i) /\ low(i) <= high(i) /\ high(i) <= L
             /\ \A j \in 1 .. L : (i - 1) * size < j /\ j <= i * size => j \in low(i) .. high(i)
  <2>1. PICK c \in Nat, d \in Nat : c = (i - 1) * size /\ d = i * size /\ c < L /\ d = c + size
    BY <1>3
  <2>2. low(i) = c + 1 /\ high(i) = IF d < L THEN d ELSE L
    BY <2>1
  <2> HIDE DEF low, high
  <2>3. low(i) \in Nat /\ high(i) \in Nat /\ 1 <= low(i) /\ low(i) <= high(i) /\ high(i) <= L
    BY <2>1, <2>2
  <2>4. \A j \in 1 .. L : c < j /\ j <= d => j \in low(i) .. high(i)
    BY <2>1, <2>2
  <2> QED
    BY <2>1, <2>3, <2>4
<1> HIDE DEF low, high
<1>8. ASSUME NEW i \in 1 .. n
      PROVE  /\ b[i] \in Seq(S) /\ Len(b[i]) \in Nat \ {0} /\ Range(b[i]) = {v[j] : j \in low(i) .. high(i)}
             /\ low(i) .. high(i) \subseteq 1 .. L
             /\ L = 1 => Len(b[i]) = 1 /\ b[i][1] = v[1]
  <2>1. PICK l \in Nat, h \in Nat : l = low(i) /\ h = high(i)
    BY <1>7
  <2>2. 1 <= l /\ l <= h /\ h <= L
    BY <1>7, <2>1
  <2>3. \A j \in l .. h : v[j] \in S /\ j \in 1 .. L
    BY <1>1, <2>2
  <2>4. PICK s : s = SubSeq(v, l, h)
    OBVIOUS
  <2>5. /\ s \in Seq(S) /\ Len(s) = IF l <= h THEN h - l + 1 ELSE 0
        /\ \A j \in 1 .. h - l + 1 : s[j] = v[l + j - 1]
    BY <2>3, <2>4, SubSeqProperties
  <2>6. PICK m \in Nat \ {0} : m = h - l + 1 /\ Len(s) = m /\ DOMAIN s = 1 .. m
    <3>1. h - l + 1 \in Nat \ {0} /\ Len(s) = h - l + 1 /\ DOMAIN s = 1 .. Len(s)
      BY <2>2, <2>5
    <3> QED
      BY <3>1
  <2>7. Range(s) = {v[j] : j \in l .. h}
    <3>1. \A j \in 1 .. m : l + j - 1 \in l .. h
      BY <2>6
    <3>2. \A j \in l .. h : j - l + 1 \in 1 .. m /\ l + (j - l + 1) - 1 = j
      BY <2>6
    <3>3. \A j \in 1 .. m : s[j] = v[l + j - 1]
      BY <2>5, <2>6
    <3>4. \A j \in l .. h : s[j - l + 1] = v[j]
      BY <3>2, <3>3
    <3>5. Range(s) = {s[j] : j \in 1 .. m}
      BY <2>6 DEF Range
    <3>6. \A x \in Range(s) : x \in {v[j] : j \in l .. h}
      BY <3>1, <3>3, <3>5
    <3>7. \A j \in l .. h : v[j] \in Range(s)
      BY <3>2, <3>4, <3>5
    <3> QED
      BY <3>6, <3>7
  <2>8. L = 1 => Len(s) = 1 /\ s[1] = v[1]
    <3> SUFFICES ASSUME L = 1 PROVE Len(s) = 1 /\ s[1] = v[1]
      OBVIOUS
    <3>1. l = 1 /\ h = 1 /\ m = 1
      BY <2>2, <2>6
    <3>2. 1 \in 1 .. h - l + 1 /\ l + 1 - 1 = 1
      BY <3>1
    <3> QED
      BY <2>5, <2>6, <3>1, <3>2
  <2>9. Len(s) \in Nat \ {0}
    BY <2>6
  <2>10. b[i] = s
    BY <1>6, <2>1, <2>4
  <2>11. low(i) .. high(i) \subseteq 1 .. L
    BY <2>1, <2>3
  <2> QED
    BY <2>1, <2>5, <2>7, <2>8, <2>9, <2>10, <2>11
<1>9. b \in Seq(Seq(S)) /\ Len(b) = n /\ DOMAIN b = 1 .. n
  <2>1. DOMAIN b = 1 .. n /\ \A i \in 1 .. n : b[i] \in Seq(S)
    BY <1>5, <1>8
  <2>2. b = [i \in 1 .. n |-> b[i]]
    BY <1>5
  <2>3. b \in [1 .. n -> Seq(S)]
    BY <2>1, <2>2
  <2> QED
    BY <1>3, <2>3
<1>10. Range(v) = {v[j] : j \in 1 .. L} /\ AllOf(b) = UNION {Range(b[i]) : i \in 1 .. n}
  BY <1>1, <1>9 DEF Range, AllOf
<1>11. ASSUME NEW i \in 1 .. n, NEW x \in Range(b[i]) PROVE x \in Range(v)
  <2>1. PICK B : B = low(i) .. high(i)
    OBVIOUS
  <2>2. Range(b[i]) = {v[j] : j \in B} /\ B \subseteq 1 .. L
    BY <1>8, <2>1
  <2> QED
    BY <1>10, <1>11, <2>2
<1>12. ASSUME NEW j \in 1 .. L PROVE \E i \in 1 .. n : v[j] \in Range(b[i])
  <2>1. PICK i \in 1 .. n : (i - 1) * size < j /\ j <= i * size
    BY <1>3
  <2>2. j \in low(i) .. high(i)
    BY <1>7, <2>1
  <2> QED
    BY <1>8, <2>2
<1>13. AllOf(b) = Range(v)
  <2>1. AllOf(b) \subseteq Range(v)
    BY <1>10, <1>11
  <2>2. \A j \in 1 .. L : v[j] \in AllOf(b)
    BY <1>10, <1>12
  <2> QED
    BY <1>10, <2>1, <2>2
<1>14. Len(v) = 1 => Len(b) = 1 /\ Len(b[1]) = 1 /\ b[1][1] = v[1]
  <2> SUFFICES ASSUME L = 1 PROVE Len(b) = 1 /\ Len(b[1]) = 1 /\ b[1][1] = v[1]
    BY <1>1
  <2>1. n = 1 /\ 1 \in 1 .. n
    BY <1>3
  <2> QED
    BY <1>8, <1>9, <2>1
<1>15. \A i \in 1 .. Len(b) : Len(b[i]) \in Nat \ {0}
  BY <1>8, <1>9
<1> QED
  BY <1>4, <1>9, <1>13, <1>14, <1>15

--------------------------------------------------------------------------------
(* A round puts every candidate to the model.                                *)

LEMMA GroupsCover ==
  ASSUME NEW c \in Seq(Candidate), ~TooManyTerminals(c)
  PROVE  /\ CandidateGroups(c) \in Seq(Seq(Candidate)) /\ AllOf(CandidateGroups(c)) = Range(c)
         /\ Len(c) <= MaxChoice => CandidateGroups(c) = <<c>>
<1>0. MaxChoice \in Nat /\ Len(c) \in Nat
  BY JevAssumption
<1>1. CASE Len(c) <= MaxChoice
  <2>1. PICK g : g = <<c>>
    OBVIOUS
  <2>2. CandidateGroups(c) = g
    BY <1>1, <2>1 DEF CandidateGroups
  <2>3. g \in Seq(Seq(Candidate)) /\ DOMAIN g = {1} /\ g[1] = c
    BY <2>1
  <2>4. AllOf(g) = Range(c)
    BY <2>3 DEF AllOf
  <2> QED
    BY <2>1, <2>2, <2>3, <2>4
<1>2. CASE ~(Len(c) <= MaxChoice)
  <2>1. PICK t, a : t = Terminals(c) /\ a = Actions(c)
    OBVIOUS
  <2>2. /\ t \in Seq(Candidate) /\ a \in Seq(Candidate)
        /\ Range(t) \cup Range(a) = Range(c) /\ Len(t) + Len(a) = Len(c)
    <3>1. \A x \in Candidate : x.kind \in Kind
      BY DEF Candidate
    <3> QED
      BY <2>1, <3>1, KindsCover
  <2>3. Len(t) \in Nat /\ Len(a) \in Nat /\ Len(t) < MaxChoice /\ Len(a) # 0
    <3>1. Len(t) \in Nat /\ Len(a) \in Nat
      BY <2>2
    <3>2. ~(Len(t) >= MaxChoice)
      BY <1>0, <1>2, <2>1 DEF TooManyTerminals
    <3> QED
      BY <1>0, <1>2, <2>2, <3>1, <3>2
  <2>4. PICK size \in Nat \ {0} : size = MaxChoice - Len(t)
    BY <1>0, <2>3
  <2>5. PICK b : b = Batches(a, size)
    OBVIOUS
  <2>6. b \in Seq(Seq(Candidate)) /\ AllOf(b) = Range(a)
    BY <2>2, <2>5, BatchesCover
  <2>7. PICK g : g = [i \in DOMAIN b |-> b[i] \o t]
    OBVIOUS
  <2>8. CandidateGroups(c) = g
    BY <1>2, <2>1, <2>4, <2>5, <2>7 DEF CandidateGroups
  <2>9. DOMAIN g = DOMAIN b /\ \A i \in DOMAIN b : b[i] \in Seq(Candidate) /\ g[i] = b[i] \o t
    BY <2>6, <2>7
  <2>10. \A i \in DOMAIN b : g[i] \in Seq(Candidate) /\ Range(g[i]) = Range(b[i]) \cup Range(t)
    <3> TAKE i \in DOMAIN b
    <3>1. PICK x : x = b[i]
      OBVIOUS
    <3>2. x \in Seq(Candidate) /\ g[i] = x \o t
      BY <2>9, <3>1
    <3>3. x \o t \in Seq(Candidate) /\ Range(x \o t) = Range(x) \cup Range(t)
      BY <2>2, <3>2, RangeOfConcat
    <3> QED
      BY <3>1, <3>2, <3>3
  <2>11. g \in Seq(Seq(Candidate))
    <3>1. DOMAIN b = 1 .. Len(b) /\ Len(b) \in Nat
      BY <2>6
    <3>2. g \in [1 .. Len(b) -> Seq(Candidate)]
      BY <2>7, <2>10, <3>1
    <3> QED
      BY <3>1, <3>2
  <2>12. DOMAIN b # {}
    <3>1. 1 \in DOMAIN a
      BY <2>2, <2>3
    <3>2. a[1] \in AllOf(b)
      BY <2>6, <3>1 DEF Range
    <3> QED
      BY <3>2 DEF AllOf
  <2>13. AllOf(g) = AllOf(b) \cup Range(t)
    <3>1. AllOf(g) = UNION {Range(g[i]) : i \in DOMAIN b} /\ AllOf(b) = UNION {Range(b[i]) : i \in DOMAIN b}
      BY <2>9 DEF AllOf
    <3> QED
      BY <2>10, <2>12, <3>1
  <2> QED
    BY <1>2, <2>2, <2>6, <2>8, <2>11, <2>13
<1> QED
  BY <1>1, <1>2

\* The questions of a round over some candidates.
QuestionsOf(c) == Batches(CandidateGroups(c), MaxQuestions)

\* They cover them, and they are one question when one holds them all.
QuestionsOK(c, Q) ==
  /\ Q \in Seq(Seq(Seq(Candidate)))
  /\ \A q \in 1 .. Len(Q) : Len(Q[q]) \in Nat \ {0}
  /\ UNION {AllOf(Q[q]) : q \in 1 .. Len(Q)} = Range(c)
  /\ Len(c) <= MaxChoice => Len(Q) = 1 /\ Len(Q[1]) = 1 /\ Q[1][1] = c

LEMMA QuestionsCover ==
  ASSUME NEW c \in Seq(Candidate), ~TooManyTerminals(c), NEW Q, Q = QuestionsOf(c)
  PROVE  QuestionsOK(c, Q)
<1>1. PICK g : g = CandidateGroups(c)
  OBVIOUS
<1>2. g \in Seq(Seq(Candidate)) /\ AllOf(g) = Range(c) /\ (Len(c) <= MaxChoice => g = <<c>>)
  BY <1>1, GroupsCover
<1>3. Q = Batches(g, MaxQuestions) /\ MaxQuestions \in Nat \ {0}
  BY <1>1, JevAssumption DEF QuestionsOf
<1>4. /\ Q \in Seq(Seq(Seq(Candidate)))
      /\ \A q \in 1 .. Len(Q) : Len(Q[q]) \in Nat \ {0}
      /\ AllOf(Q) = Range(g)
      /\ Len(g) = 1 => Len(Q) = 1 /\ Len(Q[1]) = 1 /\ Q[1][1] = g[1]
  <2>1. PICK S, m : S = Seq(Candidate) /\ m = MaxQuestions
    OBVIOUS
  <2>2. g \in Seq(S) /\ m \in Nat \ {0} /\ Q = Batches(g, m)
    BY <1>2, <1>3, <2>1
  <2>3. PICK b : b = Batches(g, m)
    OBVIOUS
  <2>4. /\ b \in Seq(Seq(S))
        /\ \A i \in 1 .. Len(b) : Len(b[i]) \in Nat \ {0}
        /\ AllOf(b) = Range(g)
        /\ Len(g) = 1 => Len(b) = 1 /\ Len(b[1]) = 1 /\ b[1][1] = g[1]
    BY <2>2, <2>3, BatchesCover
  <2> QED
    BY <2>1, <2>2, <2>3, <2>4
<1>5. DOMAIN Q = 1 .. Len(Q) /\ Len(Q) \in Nat
  BY <1>4
<1>6. UNION {AllOf(Q[q]) : q \in 1 .. Len(Q)} = Range(c)
  <2>1. AllOf(g) = {x \in UNION {Range(h) : h \in Range(g)} : TRUE}
    BY DEF AllOf, Range
  <2>2. AllOf(g) = UNION {Range(h) : h \in AllOf(Q)}
    BY <1>4, <2>1
  <2>3. \A x : x \in AllOf(g) <=> \E h \in AllOf(Q) : x \in Range(h)
    BY <2>2
  <2>4. \A h : h \in AllOf(Q) <=> \E q \in 1 .. Len(Q) : h \in Range(Q[q])
    BY <1>5 DEF AllOf
  <2>5. \A q : \A x : x \in AllOf(Q[q]) <=> \E h \in Range(Q[q]) : x \in Range(h)
    BY DEF AllOf, Range
  <2>6. \A x : x \in AllOf(g) <=> \E q \in 1 .. Len(Q) : x \in AllOf(Q[q])
    BY <2>3, <2>4, <2>5
  <2> QED
    BY <1>2, <2>6
<1>7. Len(c) <= MaxChoice => Len(Q) = 1 /\ Len(Q[1]) = 1 /\ Q[1][1] = c
  <2> SUFFICES ASSUME Len(c) <= MaxChoice PROVE Len(Q) = 1 /\ Len(Q[1]) = 1 /\ Q[1][1] = c
    OBVIOUS
  <2>1. g = <<c>> /\ Len(g) = 1 /\ g[1] = c
    BY <1>2
  <2> QED
    BY <1>4, <2>1
<1> QED
  BY <1>4, <1>6, <1>7 DEF QuestionsOK

--------------------------------------------------------------------------------
(* Decisions: the invariant.                                                 *)

JevSafety == JevInit /\ [][JevNext]_jevVars

\* What has been put to the model with the first k of some questions.
AskedOf(Q, k) == UNION {AllOf(Q[q]) : q \in 1 .. k}

\* A round over the candidates r, with winners w of the k requests made so far:
\* all candidates were seen in an earlier round, or those of these requests.
RoundOK(r, w, k, last) ==
  /\ k \in Nat /\ Range(w) \subseteq Range(r) /\ (k = 0 => w = <<>>)
  /\ k > 0 => /\ ~TooManyTerminals(r) /\ k <= Len(QuestionsOf(r))
              /\ Len(w) > 0 /\ last.choice = w[Len(w)]
              /\ Len(r) <= MaxChoice => Len(w) = 1
SeenOK(r, k) == shown = Range(surface) \/ (r = surface /\ shown = AskedOf(QuestionsOf(r), k))

JevInv ==
  /\ surface \in Seq(Candidate) /\ remaining \in Seq(Candidate) /\ winners \in Seq(Candidate)
  /\ Range(remaining) \subseteq Range(surface)
  /\ selection = Pending => RoundOK(remaining, winners, asked, lastAnswer) /\ SeenOK(remaining, asked)
  /\ SelectionSound

LEMMA JevInitInv == JevInit => JevInv
<1> SUFFICES ASSUME JevInit PROVE JevInv
  OBVIOUS
<1>1. /\ surface \in Seq(Candidate) /\ remaining = surface /\ winners = <<>> /\ asked = 0 /\ shown = {}
      /\ selection = Ended("refused") \/ selection = Pending
  BY JevAssumption DEF JevInit
<1>2. selection.phase # "chosen"
  BY <1>1 DEF Ended, Pending
<1>3. Range(<<>>) = {} /\ <<>> \in Seq(Candidate)
  BY DEF Range
<1>4. RoundOK(remaining, winners, asked, lastAnswer)
  BY <1>1, <1>3 DEF RoundOK
<1>5. \A Q : AskedOf(Q, 0) = {}
  BY DEF AskedOf
<1>6. SeenOK(remaining, asked)
  BY <1>1, <1>5 DEF SeenOK
<1> QED
  BY <1>1, <1>2, <1>3, <1>4, <1>6 DEF JevInv, SelectionSound

LEMMA AskBatchKeeps == ASSUME JevInv, AskBatch PROVE JevInv'
<1>1. /\ selection = Pending /\ ~TooManyTerminals(remaining) /\ asked # Len(Questions)
      /\ asked' = asked + 1 /\ UNCHANGED <<surface, remaining, selection>>
  BY DEF AskBatch, RoundOver
<1>2. PICK r, w, k : r = remaining /\ w = winners /\ k = asked
  OBVIOUS
<1>3. PICK Q : Q = QuestionsOf(r)
  OBVIOUS
<1>4. Questions = Q
  BY <1>2, <1>3 DEF Questions, QuestionsOf
<1>5. /\ surface \in Seq(Candidate) /\ r \in Seq(Candidate) /\ w \in Seq(Candidate) /\ Range(r) \subseteq Range(surface)
      /\ RoundOK(r, w, k, lastAnswer) /\ SeenOK(r, k)
  BY <1>1, <1>2 DEF JevInv
<1>6. /\ Q \in Seq(Seq(Seq(Candidate)))
      /\ \A q \in 1 .. Len(Q) : Len(Q[q]) \in Nat \ {0}
      /\ UNION {AllOf(Q[q]) : q \in 1 .. Len(Q)} = Range(r)
      /\ Len(r) <= MaxChoice => Len(Q) = 1 /\ Len(Q[1]) = 1 /\ Q[1][1] = r
  <2>1. ~TooManyTerminals(r)
    BY <1>1, <1>2
  <2>2. QuestionsOK(r, Q)
    BY <2>1, <1>3, <1>5, QuestionsCover
  <2> QED
    BY <2>2 DEF QuestionsOK
<1>7. k \in Nat /\ k + 1 \in 1 .. Len(Q) /\ k + 1 > 0 /\ k + 1 <= Len(Q)
  <2>1. Len(Q) \in Nat
    BY <1>6
  <2>2. k \in Nat /\ (k > 0 => k <= Len(Q)) /\ k # Len(Q)
    BY <1>1, <1>2, <1>3, <1>4, <1>5 DEF RoundOK
  <2> QED
    BY <2>1, <2>2
<1>8. PICK groups : groups = Q[k + 1]
  OBVIOUS
<1>9. PICK answers, sure :
        /\ answers \in [DOMAIN groups -> UNION {Range(groups[i]) : i \in DOMAIN groups}]
        /\ \A i \in DOMAIN groups : answers[i] \in Range(groups[i])
        /\ winners' = w \o answers
        /\ lastAnswer' = [choice |-> answers[Len(groups)], sure |-> sure]
        /\ shown' = shown \cup UNION {Range(groups[i]) : i \in DOMAIN groups}
  <2>1. Questions[asked + 1] = groups
    BY <1>2, <1>4, <1>8
  <2> QED
    BY <1>2, <2>1, Zenon DEF AskBatch
<1>10. PICK m \in Nat \ {0} : m = Len(groups) /\ DOMAIN groups = 1 .. m
  <2>1. groups \in Seq(Seq(Candidate)) /\ Len(groups) \in Nat \ {0}
    BY <1>6, <1>7, <1>8
  <2> QED
    BY <2>1
<1>11. AllOf(groups) \subseteq Range(r) /\ shown' = shown \cup AllOf(groups)
  <2>1. AllOf(groups) \subseteq Range(r)
    BY <1>6, <1>7, <1>8
  <2> QED
    BY <1>9, <2>1 DEF AllOf
<1>12. \A x \in Range(r) : x \in Candidate
  BY <1>5 DEF Range
<1>13. answers \in Seq(Candidate) /\ Len(answers) = m /\ Range(answers) \subseteq Range(r)
  <2>1. DOMAIN answers = 1 .. m /\ \A i \in 1 .. m : answers[i] \in Range(r)
    BY <1>9, <1>10, <1>11 DEF AllOf
  <2>2. answers \in [1 .. m -> Candidate]
    BY <1>9, <1>10, <1>12, <2>1
  <2>3. answers \in Seq(Candidate) /\ Len(answers) = m
    BY <2>2
  <2> QED
    BY <2>1, <2>3 DEF Range
<1>14. PICK v : v = w \o answers
  OBVIOUS
<1>15. v \in Seq(Candidate) /\ Len(v) = Len(w) + m /\ Range(v) \subseteq Range(r) /\ Len(w) \in Nat
  <2>1. Range(w) \subseteq Range(r)
    BY <1>5 DEF RoundOK
  <2> QED
    <3>1. PICK a, C : a = answers /\ C = Candidate
      OBVIOUS
    <3>2. a \in Seq(C) /\ w \in Seq(C) /\ v = w \o a
      BY <1>5, <1>13, <1>14, <3>1
    <3>3. w \o a \in Seq(C) /\ Len(w \o a) = Len(w) + Len(a) /\ Range(w \o a) = Range(w) \cup Range(a)
      BY <3>2, RangeOfConcat
    <3>4. Len(w) \in Nat
      BY <1>5
    <3> QED
      BY <1>13, <2>1, <3>1, <3>2, <3>3, <3>4
<1>16. v[Len(v)] = answers[m]
  <2>1. \A i \in 1 .. Len(w) + Len(answers) : v[i] = IF i <= Len(w) THEN w[i] ELSE answers[i - Len(w)]
    BY <1>5, <1>13, <1>14, ConcatProperties
  <2>2. Len(v) \in 1 .. Len(w) + Len(answers) /\ ~(Len(v) <= Len(w)) /\ Len(v) - Len(w) = m
    BY <1>13, <1>15
  <2> QED
    BY <2>1, <2>2
<1>17. PICK last : last = lastAnswer'
  OBVIOUS
<1>18. RoundOK(r, v, k + 1, last)
  <2>1. last.choice = v[Len(v)]
    BY <1>9, <1>10, <1>16, <1>17
  <2>2. Len(v) > 0
    BY <1>15
  <2>3. Len(r) <= MaxChoice => Len(v) = 1
    <3> SUFFICES ASSUME Len(r) <= MaxChoice PROVE Len(v) = 1
      OBVIOUS
    <3>1. k = 0 /\ m = 1
      <4>1. Len(Q) = 1 /\ Len(Q[1]) = 1
        BY <1>6
      <4>2. k = 0
        BY <1>7, <4>1
      <4> QED
        BY <1>8, <1>10, <4>1, <4>2
    <3>2. w = <<>>
      BY <1>5, <3>1 DEF RoundOK
    <3> QED
      BY <1>15, <3>1, <3>2
  <2> QED
    BY <1>1, <1>2, <1>3, <1>7, <1>15, <2>1, <2>2, <2>3 DEF RoundOK
<1>19. SeenOK(remaining, asked)'
  <2>1. CASE shown = Range(surface)
    <3>1. shown' = Range(surface)
      <4>1. AllOf(groups) \subseteq shown
        BY <1>5, <1>11, <2>1
      <4> QED
        BY <1>11, <2>1, <4>1
    <3>2. shown' = Range(surface')
      BY <1>1, <3>1
    <3> QED
      BY <3>2 DEF SeenOK
  <2>2. CASE r = surface /\ shown = AskedOf(Q, k)
    <3>1. AskedOf(Q, k + 1) = AskedOf(Q, k) \cup AllOf(groups)
      <4>1. \A q : q \in 1 .. k + 1 <=> q \in 1 .. k \/ q = k + 1
        BY <1>7
      <4> QED
        BY <1>8, <4>1 DEF AskedOf
    <3>2. remaining' = r /\ surface' = r /\ shown' = AskedOf(Q, k + 1) /\ asked' = k + 1
      BY <1>1, <1>2, <1>11, <2>2, <3>1
    <3>3. QuestionsOf(remaining') = Q
      BY <1>3, <3>2
    <3>4. remaining' = surface' /\ shown' = AskedOf(QuestionsOf(remaining'), asked')
      BY <3>2, <3>3
    <3> QED
      BY <3>4 DEF SeenOK
  <2>3. shown = Range(surface) \/ (r = surface /\ shown = AskedOf(Q, k))
    BY <1>3, <1>5 DEF SeenOK
  <2> QED
    BY <2>1, <2>2, <2>3
<1>20. RoundOK(remaining, winners, asked, lastAnswer)'
  <2>1. remaining' = r /\ winners' = v /\ asked' = k + 1 /\ lastAnswer' = last
    BY <1>1, <1>2, <1>9, <1>14, <1>17
  <2>2. RoundOK(remaining', winners', asked', lastAnswer')
    BY <1>18, <2>1
  <2> QED
    BY <2>2 DEF RoundOK, TooManyTerminals, Terminals, OfKinds, QuestionsOf, CandidateGroups, Batches, Actions, Range
<1>21. SelectionSound'
  <2>1. selection'.phase # "chosen"
    BY <1>1 DEF Pending
  <2> QED
    BY <2>1 DEF SelectionSound
<1>22. /\ surface' \in Seq(Candidate) /\ remaining' \in Seq(Candidate) /\ winners' \in Seq(Candidate)
       /\ (Range(remaining) \subseteq Range(surface))'
  <2>1. Range(remaining') = Range(r) /\ Range(surface') = Range(surface)
    BY <1>1, <1>2
  <2>2. winners' \in Seq(Candidate)
    BY <1>9, <1>14, <1>15
  <2>3. surface' \in Seq(Candidate) /\ remaining' \in Seq(Candidate)
    BY <1>1, <1>2, <1>5
  <2>4. Range(remaining') \subseteq Range(surface')
    BY <1>5, <2>1
  <2> QED
    BY <2>2, <2>3, <2>4
<1> QED
  BY <1>19, <1>20, <1>21, <1>22 DEF JevInv

LEMMA NextRoundKeeps == ASSUME JevInv, NextRound PROVE JevInv'
<1>1. /\ selection = Pending /\ asked > 0 /\ asked = Len(Questions)
      /\ remaining' = Dedup(winners) /\ winners' = <<>> /\ asked' = 0
      /\ selection' = IF Len(remaining) > MaxChoice /\ Len(remaining') > 1 THEN Pending
                      ELSE [phase |-> "chosen", candidate |-> remaining'[1], sure |-> lastAnswer.sure]
      /\ UNCHANGED <<surface, rounds, lastAnswer, shown>>
  BY DEF NextRound, RoundOver
<1>2. PICK r, w, k, d : r = remaining /\ w = winners /\ k = asked /\ d = remaining'
  OBVIOUS
<1>3. PICK Q : Q = QuestionsOf(r)
  OBVIOUS
<1>4. k = Len(Q) /\ k > 0
  <2>1. Questions = Q
    BY <1>2, <1>3 DEF Questions, QuestionsOf
  <2> QED
    BY <1>1, <1>2, <2>1
<1>5. /\ surface \in Seq(Candidate) /\ r \in Seq(Candidate) /\ w \in Seq(Candidate) /\ Range(r) \subseteq Range(surface)
      /\ RoundOK(r, w, k, lastAnswer) /\ SeenOK(r, k)
  BY <1>1, <1>2 DEF JevInv
<1>6. /\ Range(w) \subseteq Range(r) /\ ~TooManyTerminals(r)
      /\ Len(w) > 0 /\ lastAnswer.choice = w[Len(w)]
      /\ Len(r) <= MaxChoice => Len(w) = 1
  BY <1>4, <1>5 DEF RoundOK
<1>7. d \in Seq(Candidate) /\ Range(d) = Range(w)
  <2>1. PICK C : C = Candidate
    OBVIOUS
  <2>2. w \in Seq(C)
    BY <1>5, <2>1
  <2>3. Dedup(w) \in Seq(C) /\ Range(Dedup(w)) = Range(w)
    BY <2>2, DedupKeeps
  <2> QED
    BY <1>1, <1>2, <2>1, <2>3
\* Every question of the round has been put, and with them every candidate.
<1>8. shown = Range(surface)
  <2>1. QuestionsOK(r, Q)
    BY <1>3, <1>5, <1>6, QuestionsCover
  <2>2. AskedOf(Q, k) = Range(r)
    BY <1>4, <2>1 DEF AskedOf, QuestionsOK
  <2>3. shown = Range(surface) \/ (r = surface /\ shown = AskedOf(Q, k))
    BY <1>3, <1>5 DEF SeenOK
  <2> QED
    BY <2>2, <2>3
<1>9. surface' = surface /\ shown' = Range(surface')
  BY <1>1, <1>8
<1>10. /\ surface' \in Seq(Candidate) /\ remaining' \in Seq(Candidate) /\ winners' \in Seq(Candidate)
       /\ Range(remaining') \subseteq Range(surface')
  <2>1. Range(d) \subseteq Range(surface)
    BY <1>5, <1>6, <1>7
  <2>2. Range(remaining') \subseteq Range(surface')
    BY <1>2, <1>9, <2>1
  <2>3. remaining' \in Seq(Candidate) /\ surface' \in Seq(Candidate)
    BY <1>2, <1>5, <1>7, <1>9
  <2>4. winners' \in Seq(Candidate)
    BY <1>1
  <2> QED
    BY <2>2, <2>3, <2>4
<1>11. RoundOK(remaining, winners, asked, lastAnswer)'
  <2>1. Range(<<>>) = {}
    BY DEF Range
  <2>2. PICK e, l : e = remaining' /\ l = lastAnswer'
    OBVIOUS
  <2>3. RoundOK(e, <<>>, 0, l)
    BY <2>1 DEF RoundOK
  <2>4. RoundOK(remaining', winners', asked', lastAnswer')
    BY <1>1, <2>2, <2>3
  <2> QED
    BY <2>4 DEF RoundOK, TooManyTerminals, Terminals, OfKinds, QuestionsOf, CandidateGroups, Batches, Actions, Range
<1>12. SeenOK(remaining, asked)'
  BY <1>9 DEF SeenOK
\* The answers of the last round are one, or of one mind.
<1>13. ASSUME ~(Len(r) > MaxChoice /\ Len(d) > 1) PROVE Len(d) > 0 /\ d[1] = w[Len(w)]
  <2>1. DOMAIN w = 1 .. Len(w) /\ Len(w) \in Nat /\ DOMAIN d = 1 .. Len(d) /\ Len(d) \in Nat /\ Len(r) \in Nat /\ MaxChoice \in Nat
    BY <1>5, <1>7, JevAssumption
  <2>2. PICK n, m : n = Len(w) /\ m = Len(d)
    OBVIOUS
  <2>3. n \in 1 .. n /\ w[n] \in Range(w)
    BY <1>6, <2>1, <2>2 DEF Range
  <2>4. PICK i \in 1 .. m : d[i] = w[n]
    BY <1>7, <2>1, <2>2, <2>3 DEF Range
  <2>5. m > 0 /\ 1 \in 1 .. m
    BY <2>1, <2>2, <2>4
  <2>6. CASE Len(r) <= MaxChoice
    <3>1. n = 1
      BY <1>6, <2>2, <2>6
    <3>2. Range(w) = {w[1]}
      BY <2>1, <2>2, <3>1 DEF Range
    <3>3. d[1] \in Range(d)
      BY <2>1, <2>2, <2>5 DEF Range
    <3>4. d[1] = w[1]
      BY <1>7, <3>2, <3>3
    <3> QED
      BY <2>2, <2>5, <3>1, <3>4
  <2>7. CASE Len(d) <= 1
    <3>1. i = 1
      BY <2>1, <2>2, <2>4, <2>7
    <3> QED
      BY <2>2, <2>4, <2>5, <3>1
  <2> QED
    BY <1>13, <2>1, <2>6, <2>7
<1>14. SelectionSound'
  <2>1. CASE Len(r) > MaxChoice /\ Len(d) > 1
    <3>1. selection' = Pending
      BY <1>1, <1>2, <2>1
    <3>2. selection'.phase # "chosen"
      BY <3>1 DEF Pending
    <3> QED
      BY <3>2 DEF SelectionSound
  <2>2. CASE ~(Len(r) > MaxChoice /\ Len(d) > 1)
    <3>1. selection' = [phase |-> "chosen", candidate |-> d[1], sure |-> lastAnswer.sure]
      BY <1>1, <1>2, <2>2
    <3>2. Len(d) > 0 /\ d[1] = lastAnswer.choice
      BY <1>6, <1>13, <2>2
    <3>3. d[1] \in Range(d)
      <4>1. DOMAIN d = 1 .. Len(d) /\ Len(d) \in Nat
        BY <1>7
      <4> QED
        BY <3>2, <4>1 DEF Range
    <3>4. d[1] \in Range(surface')
      BY <1>2, <1>10, <3>3
    <3>5. lastAnswer' = lastAnswer
      BY <1>1
    <3>6. /\ selection'.candidate = d[1] /\ selection'.sure = lastAnswer'.sure /\ lastAnswer'.choice = d[1]
      BY <3>1, <3>2, <3>5
    <3>7. /\ selection'.candidate \in Range(surface') /\ shown' = Range(surface')
          /\ lastAnswer'.choice = selection'.candidate /\ lastAnswer'.sure = selection'.sure
      BY <1>9, <3>4, <3>6
    <3> QED
      BY <3>7 DEF SelectionSound
  <2> QED
    BY <2>1, <2>2
<1> QED
  BY <1>10, <1>11, <1>12, <1>14 DEF JevInv

LEMMA SelectionFailsKeeps == ASSUME JevInv, SelectionFails PROVE JevInv'
<1>1. selection' = Ended("failed") /\ UNCHANGED <<surface, remaining, winners, asked, rounds, lastAnswer, shown>>
  BY DEF SelectionFails
<1>2. selection'.phase = "failed" /\ Pending.phase = "pending"
  BY <1>1 DEF Ended, Pending
<1>3. selection' # Pending /\ selection'.phase # "chosen"
  BY <1>2
<1>4. SelectionSound'
  BY <1>3 DEF SelectionSound
<1>5. Range(remaining') = Range(remaining) /\ Range(surface') = Range(surface)
  BY <1>1
<1>6. /\ surface' \in Seq(Candidate) /\ remaining' \in Seq(Candidate) /\ winners' \in Seq(Candidate)
      /\ Range(remaining') \subseteq Range(surface')
  BY <1>1, <1>5 DEF JevInv
<1>7. (selection = Pending)' = FALSE
  BY <1>3 DEF Pending, NoAnswer, Terminal
<1> QED
  BY <1>4, <1>6, <1>7 DEF JevInv

\* The invariant of a decision: what the tournament still holds was submitted,
\* the last answer is the last winner, and after a round all have been asked of.
THEOREM JevInductive == JevSafety => []JevInv
<1>1. JevInv /\ [JevNext]_jevVars => JevInv'
  <2> SUFFICES ASSUME JevInv, [JevNext]_jevVars PROVE JevInv'
    OBVIOUS
  <2>1. CASE AskBatch
    BY <2>1, AskBatchKeeps
  <2>2. CASE NextRound
    BY <2>2, NextRoundKeeps
  <2>3. CASE SelectionFails
    BY <2>3, SelectionFailsKeeps
  <2>4. CASE UNCHANGED jevVars
    <3>1. UNCHANGED <<surface, remaining, winners, asked, lastAnswer, shown, selection>>
      BY <2>4 DEF jevVars
    <3>2. Range(remaining') = Range(remaining) /\ Range(surface') = Range(surface)
      BY <3>1
    <3>3. /\ surface' \in Seq(Candidate) /\ remaining' \in Seq(Candidate) /\ winners' \in Seq(Candidate)
          /\ Range(remaining') \subseteq Range(surface')
      BY <3>1, <3>2 DEF JevInv
    <3>4. SelectionSound'
      BY <3>1, <3>2 DEF JevInv, SelectionSound
    <3>5. (selection = Pending => RoundOK(remaining, winners, asked, lastAnswer) /\ SeenOK(remaining, asked))'
      <4>1. (selection = Pending)' <=> selection = Pending
        BY <3>1 DEF Pending, NoAnswer, Terminal
      <4>2. SeenOK(remaining, asked)' <=> SeenOK(remaining, asked)
        BY <3>1, <3>2 DEF SeenOK
      <4>3. RoundOK(remaining, winners, asked, lastAnswer)' <=> RoundOK(remaining, winners, asked, lastAnswer)
        BY <3>1
      <4>4. selection = Pending => RoundOK(remaining, winners, asked, lastAnswer) /\ SeenOK(remaining, asked)
        BY DEF JevInv
      <4> QED
        BY <4>1, <4>2, <4>3, <4>4
    <3> QED
      BY <3>3, <3>4, <3>5 DEF JevInv
  <2> QED
    BY <2>1, <2>2, <2>3, <2>4 DEF JevNext
<1> QED
  BY JevInitInv, <1>1, PTL DEF JevSafety

\* Whatever the model answers to whatever is submitted, the candidate chosen
\* was submitted, every candidate was put to the model before it was chosen,
\* and the answer whose confidence is reported is the one that chose it.
THEOREM SelectionIsSound == JevSafety => []SelectionSound
<1>1. JevInv => SelectionSound
  BY DEF JevInv
<1> QED
  BY JevInductive, <1>1, PTL

=============================================================================
