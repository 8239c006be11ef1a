------------------------------ MODULE ControlPlane ------------------------------
(***************************************************************************)
(* Logical actors and the ownership of resources inside one coordinator    *)
(* process: the ControlPlane class of src/src/control-plane.ts.            *)
(*                                                                         *)
(* Every method runs to completion without an await, except withMutation,  *)
(* whose work runs between two actions here.  A Task is an asynchronous    *)
(* tool call: runAsActor checks the actor once, when the call comes in,    *)
(* and the call keeps acting as that actor however long it runs.  Time     *)
(* enters as events: a claim or a deadline runs out, a minute passes.      *)
(***************************************************************************)
EXTENDS Integers, FiniteSets

CONSTANTS
  Actor,      \* logical actors; each is created at most once (random ids)
  Default,    \* the actor of calls without a token
  Resource,   \* resource keys
  Task,       \* concurrent tool calls
  Idle,       \* a task that is not serving a call
  NoClaim,    \* nobody owns the resource
  Nothing,    \* the call is not delivering a mutation
  Budget,     \* maxActions of the actors created with one
  MaxActors,  \* MAX_ACTORS, the limit on live actors
  MaxLeases   \* bound: how many lease ids are ever issued

ASSUME ActorAssumption ==
  /\ Default \in Actor /\ Nothing \notin Resource
  /\ DOMAIN Budget \subseteq Actor \ {Default}
  /\ \A a \in DOMAIN Budget : Budget[a] \in Nat \ {0}
ASSUME LimitAssumption == MaxActors \in Nat \ {0} /\ MaxLeases \in Nat

VARIABLES
  status,     \* of an actor: "none", "live", "closed", "retired" or "gone"
  overdue,    \* the deadline of an actor has passed
  used,       \* actionsUsed
  claim,      \* the claims map
  inflight,   \* activeMutations: how many mutations of a resource are running
  job,        \* the actor a task acts as and the resource it is mutating
  leases      \* how many lease ids have been issued

actorVars == <<status, overdue, used>>
cpVars == <<actorVars, claim, inflight, job, leases>>

Status == {"none", "live", "closed", "retired", "gone"}
Lease == 1 .. MaxLeases
Claim == [actor : Actor, lease : Lease, generation : Nat \ {0}, expired : BOOLEAN]
Job == [actor : Actor, on : Resource \cup {Nothing}]

ASSUME TaskAssumption == IsFiniteSet(Task)
ASSUME MarkerAssumption == Idle \notin Job /\ NoClaim \notin Claim

Init ==
  /\ status = [a \in Actor |-> IF a = Default THEN "live" ELSE "none"]
  /\ overdue = [a \in Actor |-> FALSE]
  /\ used = [a \in Actor |-> 0]
  /\ claim = [r \in Resource |-> NoClaim]
  /\ inflight = [r \in Resource |-> 0]
  /\ job = [t \in Task |-> Idle]
  /\ leases = 0

--------------------------------------------------------------------------------
(* liveClaim: a claim past its time, or of an actor that is closed or past   *)
(* its deadline, is deleted by whoever looks at it, unless a mutation runs.  *)

Unavailable(a) == status[a] \in {"closed", "retired", "gone"} \/ overdue[a]

LapsedByTime(r) ==  \* mutant: does not look at the owner
  /\ claim[r] # NoClaim
  /\ claim[r].expired
  /\ inflight[r] = 0
Lapsed(r) ==
  /\ claim[r] # NoClaim
  /\ claim[r].expired \/ Unavailable(claim[r].actor)
  /\ inflight[r] = 0

LiveClaim(r) == IF Lapsed(r) THEN NoClaim ELSE claim[r]
OwnedBy(a, r) == LiveClaim(r) # NoClaim /\ LiveClaim(r).actor = a
Authorizes(a, r, l) == OwnedBy(a, r) /\ LiveClaim(r).lease = l

\* validateActorBudget.
WithinBudget(a) == ~overdue[a] /\ (a \in DOMAIN Budget => used[a] < Budget[a])

\* actionsUsed += 1.  Of an actor without a budget it is only ever reported.
Spend(a) == used' = IF a \in DOMAIN Budget THEN [used EXCEPT ![a] = @ + 1] ELSE used

FreshClaim(a, generation) ==
  [actor |-> a, lease |-> leases + 1, generation |-> generation, expired |-> FALSE]

\* acquire, as a change of the claim on r.
Take(a, r) ==
  IF LiveClaim(r) = NoClaim
  THEN /\ leases < MaxLeases
       /\ claim' = [claim EXCEPT ![r] = FreshClaim(a, 1)]
       /\ leases' = leases + 1
  ELSE /\ claim' = [claim EXCEPT ![r].expired = FALSE]
       /\ UNCHANGED leases

\* A method call on behalf of a: by a call just admitted, or by one that was
\* admitted earlier and kept the actor across its awaits.
Running(a) == \E t \in Task : job[t] # Idle /\ job[t].actor = a
Calling(a) == status[a] = "live" \/ Running(a)

--------------------------------------------------------------------------------
(* Actors.                                                                   *)

\* gc: actors closed for over a minute go; so does every lapsed claim.
Forget == [a \in Actor |-> IF status[a] = "retired" THEN "gone" ELSE status[a]]

CreateActor(a) ==
  /\ status[a] = "none"
  /\ Cardinality({b \in Actor : status[b] = "live"}) < MaxActors
  /\ status' = [Forget EXCEPT ![a] = "live"]
  /\ claim' = [r \in Resource |-> LiveClaim(r)]
  /\ UNCHANGED <<overdue, used, inflight, job, leases>>

\* status and diagnostics, and a createActor beyond the limit.
Gc ==
  /\ status' = Forget
  /\ claim' = [r \in Resource |-> LiveClaim(r)]
  /\ UNCHANGED <<overdue, used, inflight, job, leases>>

CloseActor(a) ==
  /\ a # Default
  /\ status[a] = "live"
  /\ status' = [status EXCEPT ![a] = "closed"]
  /\ claim' = [r \in Resource |->
       IF claim[r] # NoClaim /\ claim[r].actor = a /\ inflight[r] = 0
       THEN NoClaim ELSE claim[r]]
  /\ UNCHANGED <<overdue, used, inflight, job, leases>>

\* runAsActor: actor(token) refuses unknown and closed actors.
Admit(t, a) ==
  /\ job[t] = Idle
  /\ status[a] = "live"
  /\ job' = [job EXCEPT ![t] = [actor |-> a, on |-> Nothing]]
  /\ UNCHANGED <<actorVars, claim, inflight, leases>>

Finish(t) ==
  /\ job[t] # Idle
  /\ job[t].on = Nothing
  /\ job' = [job EXCEPT ![t] = Idle]
  /\ UNCHANGED <<actorVars, claim, inflight, leases>>

--------------------------------------------------------------------------------
(* Claims.                                                                   *)

\* acquire, from claim_resource, subscribe_ui or a launch.
Acquire(a, r) ==
  /\ Calling(a)
  /\ WithinBudget(a)
  /\ LiveClaim(r) = NoClaim \/ OwnedBy(a, r)
  /\ Take(a, r)
  /\ UNCHANGED <<actorVars, inflight, job>>

\* renew, from claim_resource and read_ui_events, and renewOwnedResource, which
\* an event pump calls for an actor that is still live.
Renew(a, r, l) ==
  /\ Calling(a)
  /\ Authorizes(a, r, l)
  /\ claim' = [claim EXCEPT ![r].expired = FALSE]
  /\ UNCHANGED <<actorVars, inflight, job, leases>>

\* A renew, release or handoff that is refused has still looked at the claim.
Refuse(r) ==
  /\ Lapsed(r)
  /\ claim' = [claim EXCEPT ![r] = NoClaim]
  /\ UNCHANGED <<actorVars, inflight, job, leases>>

ReleaseBusy(a, r, l) ==  \* mutant: does not look for mutations in flight
  /\ status[a] = "live"
  /\ Authorizes(a, r, l)
  /\ claim' = [claim EXCEPT ![r] = NoClaim]
  /\ UNCHANGED <<actorVars, inflight, job, leases>>

Release(a, r, l) ==
  /\ status[a] = "live"
  /\ Authorizes(a, r, l)
  /\ inflight[r] = 0
  /\ claim' = [claim EXCEPT ![r] = NoClaim]
  /\ UNCHANGED <<actorVars, inflight, job, leases>>

Handoff(a, r, l, b) ==
  /\ status[a] = "live"
  /\ Authorizes(a, r, l)
  /\ inflight[r] = 0
  /\ status[b] = "live"
  /\ leases < MaxLeases
  /\ claim' = [claim EXCEPT ![r] = FreshClaim(b, claim[r].generation + 1)]
  /\ leases' = leases + 1
  /\ UNCHANGED <<actorVars, inflight, job>>

--------------------------------------------------------------------------------
(* withMutation.                                                             *)

Ready(t) == job[t] # Idle /\ job[t].on = Nothing

\* assertMutation passes; the default actor takes what nobody owns.
Begin(t, r) ==
  /\ Ready(t)
  /\ LET a == job[t].actor IN
       /\ WithinBudget(a)
       /\ Spend(a)
       /\ \/ OwnedBy(a, r) /\ UNCHANGED <<claim, leases>>
          \/ a = Default /\ LiveClaim(r) = NoClaim /\ Take(a, r)
       /\ job' = [job EXCEPT ![t].on = r]
  /\ inflight' = [inflight EXCEPT ![r] = @ + 1]
  /\ UNCHANGED <<status, overdue>>

\* assertMutation throws for want of ownership.  The action counts all the same.
BeginRefused(t, r) ==
  /\ Ready(t)
  /\ LET a == job[t].actor IN
       /\ WithinBudget(a)
       /\ Spend(a)
       /\ ~OwnedBy(a, r)
       /\ a = Default => LiveClaim(r) # NoClaim
  /\ claim' = [claim EXCEPT ![r] = LiveClaim(r)]
  /\ UNCHANGED <<status, overdue, inflight, job, leases>>

\* The finally block: the last mutation to end drops the claim of an owner
\* that was closed or ran out of time meanwhile.
End(t, r) ==
  /\ job[t] # Idle /\ job[t].on = r
  /\ job' = [job EXCEPT ![t].on = Nothing]
  /\ inflight' = [inflight EXCEPT ![r] = @ - 1]
  /\ claim' = [claim EXCEPT ![r] =
       IF inflight[r] = 1 /\ @ # NoClaim /\ Unavailable(@.actor) THEN NoClaim ELSE @]
  /\ UNCHANGED <<actorVars, leases>>

--------------------------------------------------------------------------------
(* Time.                                                                     *)

Expire(r) ==
  /\ claim[r] # NoClaim
  /\ ~claim[r].expired
  /\ claim' = [claim EXCEPT ![r].expired = TRUE]
  /\ UNCHANGED <<actorVars, inflight, job, leases>>

DeadlinePasses(a) ==
  /\ a # Default
  /\ status[a] \in {"live", "closed"}
  /\ ~overdue[a]
  /\ overdue' = [overdue EXCEPT ![a] = TRUE]
  /\ UNCHANGED <<status, used, claim, inflight, job, leases>>

MinutePasses(a) ==
  /\ status[a] = "closed"
  /\ status' = [status EXCEPT ![a] = "retired"]
  /\ UNCHANGED <<overdue, used, claim, inflight, job, leases>>

--------------------------------------------------------------------------------

\* Every step of the control plane but a handoff and the life of a call.
Ownership ==
  \/ \E a \in Actor : CreateActor(a) \/ CloseActor(a) \/ DeadlinePasses(a) \/ MinutePasses(a)
  \/ \E a \in Actor, r \in Resource : Acquire(a, r)
  \/ \E a \in Actor, r \in Resource, l \in Lease :
       Renew(a, r, l) \/ Release(a, r, l)
  \/ \E r \in Resource : Refuse(r) \/ Expire(r)
  \/ Gc

Next ==
  \/ Ownership
  \/ \E a, b \in Actor, r \in Resource, l \in Lease : Handoff(a, r, l, b)
  \/ \E t \in Task :
       \/ \E a \in Actor : Admit(t, a)
       \/ Finish(t)
       \/ \E r \in Resource : Begin(t, r) \/ BeginRefused(t, r) \/ End(t, r)

Spec == Init /\ [][Next]_cpVars

--------------------------------------------------------------------------------
(* Properties.                                                               *)

TypeOK ==
  /\ status \in [Actor -> Status]
  /\ overdue \in [Actor -> BOOLEAN]
  /\ used \in [Actor -> Nat]
  /\ \A a \in DOMAIN Budget : used[a] <= Budget[a]
  /\ claim \in [Resource -> Claim \cup {NoClaim}]
  /\ inflight \in [Resource -> Nat]
  /\ job \in [Task -> Job \cup {Idle}]
  /\ leases \in 0 .. MaxLeases

Mutating(t, r) == job[t] # Idle /\ job[t].on = r

\* While a mutation is being delivered its actor owns the resource, whatever
\* expires, closes or is asked for meanwhile: "in-flight mutation fencing
\* prevents release or handoff during delivery".
Fenced ==
  \A t \in Task, r \in Resource :
    Mutating(t, r) => claim[r] # NoClaim /\ claim[r].actor = job[t].actor

\* A claim in good standing ends only by a release or handoff its owner asks
\* for with the current lease id, or with the owner's session.
NoTakeover ==
  [][\A r \in Resource :
       LET c == claim[r] IN
       /\ c # NoClaim /\ ~c.expired /\ ~Unavailable(c.actor)
       /\ claim'[r] = NoClaim \/ claim'[r].lease # c.lease \/ claim'[r].actor # c.actor
       => \/ Release(c.actor, r, c.lease)
          \/ \E b \in Actor : Handoff(c.actor, r, c.lease, b)
          \/ CloseActor(c.actor)]_cpVars

\* A lease id a handoff has superseded never authorizes anybody again: "handoff
\* reused the previous fencing token" is what the test guards against.
Superseded ==
  [][\A r \in Resource :
       /\ claim[r] # NoClaim /\ claim'[r] # NoClaim
       /\ claim[r].actor # claim'[r].actor
       => \A s \in Resource : claim[s] # NoClaim => claim'[r].lease > claim[s].lease]_cpVars

\* An actor that is closed or past its deadline starts no mutation: a call that
\* still acts for it finds its claims void, even one it acquired after the
\* close, as long as no mutation of its own holds the resource.
ClosedActorStops ==
  [][\A t \in Task, r \in Resource :
       ~Mutating(t, r) /\ Mutating(t, r)' =>
         LET a == job[t].actor IN ~overdue[a] /\ (status[a] = "live" \/ inflight[r] > 0)]_cpVars

\* activeMutations counts exactly the mutations that are running, on any path
\* out of withMutation.
InFlightCounted ==
  \A r \in Resource : inflight[r] = Cardinality({t \in Task : Mutating(t, r)})

\* Calls and claims are those of actors that were created.
ActorsKnown ==
  /\ status[Default] = "live"
  /\ \A t \in Task : job[t] # Idle => status[job[t].actor] # "none"

\* Lease ids are issued one after the other.
LeasesIssued == \A r \in Resource : claim[r] # NoClaim => claim[r].lease <= leases

\* The inductive invariant: ownership alone says nothing of why an owner cannot
\* lose its claim; the count of the mutations in flight does.
OwnershipInv == TypeOK /\ InFlightCounted /\ Fenced /\ ActorsKnown /\ LeasesIssued
================================================================================
