----------------------------- MODULE WriteAdmission -----------------------------
(***************************************************************************)
(* How a mutating tool call is admitted: the composition of the control    *)
(* plane, which knows who owns a resource, with the leases and epochs of   *)
(* the resource scheduler and the saved states of the actors               *)
(* (withWindowWriteLock and withBrowserWrite of src/src/bridge.ts,         *)
(* SavedStates of src/src/state.ts).                                       *)
(*                                                                         *)
(* A call opens a saved state of its actor, waits for the lease of the     *)
(* resource, compares the epoch, advances it, and only then asks the       *)
(* control plane; what it delivers runs inside withMutation.               *)
(***************************************************************************)
EXTENDS ControlPlane

CONSTANTS
  Goal,      \* the resource the calls of a task are to mutate
  Nobody,    \* no holder of a lease
  MaxEpoch   \* bound: how often the epoch of a resource is advanced

ASSUME AdmissionAssumption ==
  Goal \in [Task -> Resource] /\ Nobody \notin Task /\ MaxEpoch \in Nat

VARIABLES
  holder,   \* the call that holds the lease of a resource
  epoch,    \* of a resource
  base,     \* the epoch of the state a call has opened
  place,    \* where a call is
  saved     \* the epochs of the states an actor has of a resource

laneVars == <<holder, epoch, base>>
vars == <<cpVars, laneVars, place, saved>>

\* The leases and epochs ResourceScheduler promises; each call is a client.
Lane == INSTANCE FencedResource WITH Client <- Task, Target <- Goal

Epoch == 0 .. MaxEpoch
Place == {"out", "queued", "leased", "admitted", "delivering", "delivered", "leaving"}

AdmissionInit ==
  /\ Init
  /\ holder = [r \in Resource |-> Nobody]
  /\ epoch = [r \in Resource |-> 0]
  /\ base = [t \in Task |-> 0]
  /\ place = [t \in Task |-> "out"]
  /\ saved = [a \in Actor |-> [r \in Resource |-> {}]]

Go(t, p) == place' = [place EXCEPT ![t] = p]
Save(a, r, e) == saved' = [saved EXCEPT ![a][r] = @ \cup {e}]

--------------------------------------------------------------------------------

\* observe_ui: a read under the lease; its state is the actor's.
Look(a, r) ==
  /\ Calling(a)
  /\ holder[r] = Nobody
  /\ Save(a, r, epoch[r])
  /\ UNCHANGED <<cpVars, laneVars, place>>

\* executeTool: SavedStates.get gives an actor its own states only.
Open(t, a, e) ==
  /\ Admit(t, a)
  /\ e \in saved[a][Goal[t]]
  /\ base' = [base EXCEPT ![t] = e]
  /\ Go(t, "queued")
  /\ UNCHANGED <<holder, epoch, saved>>

TakeLane(t) ==
  /\ place[t] = "queued"
  /\ Lane!Take(t, Goal[t])
  /\ Go(t, "leased")
  /\ UNCHANGED <<cpVars, saved>>

\* StaleResourceStateError, or a live guard that fails.
Reject(t) ==
  /\ place[t] = "leased"
  /\ Lane!Drop({Goal[t]})
  /\ Go(t, "leaving")
  /\ UNCHANGED <<cpVars, saved>>

\* The epoch matches and is advanced.
Advance(t) ==
  /\ place[t] = "leased"
  /\ epoch[Goal[t]] < MaxEpoch
  /\ Lane!Mutate(t)
  /\ Go(t, "admitted")
  /\ UNCHANGED <<cpVars, saved>>

\* withCurrentActorMutation.
Deliver(t) ==
  /\ place[t] = "admitted"
  /\ Begin(t, Goal[t])
  /\ Go(t, "delivering")
  /\ UNCHANGED <<laneVars, saved>>

\* OwnershipError: owned by another actor, or by nobody.
Disown(t) ==
  /\ place[t] = "admitted"
  /\ BeginRefused(t, Goal[t])
  /\ Lane!Drop({Goal[t]})
  /\ Go(t, "leaving")
  /\ UNCHANGED saved

\* OwnershipError: the budget of the actor is used up, or its time.
Overdraw(t) ==
  /\ place[t] = "admitted"
  /\ ~WithinBudget(job[t].actor)
  /\ Lane!Drop({Goal[t]})
  /\ Go(t, "leaving")
  /\ UNCHANGED <<cpVars, saved>>

\* The mutation ends, well or not, and then the lease.
Complete(t) ==
  /\ place[t] = "delivering"
  /\ End(t, Goal[t])
  /\ Lane!Drop({Goal[t]})
  /\ Go(t, "delivered")
  /\ UNCHANGED saved

\* The call returns.  One that has delivered and could look at the result saves
\* it with the epoch its write was given: persistOperation.
Return(t) ==
  /\ Finish(t)
  /\ \/ place[t] \in {"leaving", "delivered"} /\ UNCHANGED saved
     \/ place[t] = "delivered" /\ Save(job[t].actor, Goal[t], base[t])
  /\ base' = [base EXCEPT ![t] = 0]
  /\ Go(t, "out")
  /\ UNCHANGED <<holder, epoch>>

\* transferLatestDesktop: the recipient gets the sender's latest state of the
\* resource as one of its own.
Latest(e, S) == e \in S /\ \A d \in S : d <= e
HandOn(a, r, l, b) ==
  /\ Handoff(a, r, l, b)
  /\ \/ saved[a][r] = {} /\ UNCHANGED saved
     \/ \E e \in Epoch : Latest(e, saved[a][r]) /\ Save(b, r, e)
  /\ UNCHANGED <<laneVars, place>>

AdmissionNext ==
  \/ Ownership /\ UNCHANGED <<laneVars, place, saved>>
  \/ \E a, b \in Actor, r \in Resource, l \in Lease : HandOn(a, r, l, b)
  \/ \E a \in Actor, r \in Resource : Look(a, r)
  \/ \E t \in Task :
       \/ \E a \in Actor, e \in Epoch : Open(t, a, e)
       \/ TakeLane(t) \/ Reject(t) \/ Advance(t)
       \/ Deliver(t) \/ Disown(t) \/ Overdraw(t)
       \/ Complete(t) \/ Return(t)

AdmissionSpec == AdmissionInit /\ [][AdmissionNext]_vars

--------------------------------------------------------------------------------
(* Properties.                                                               *)

\* The state is well formed, and a call has a lease exactly from "leased" on.
WellFormed ==
  /\ holder \in [Resource -> Task \cup {Nobody}]
  /\ epoch \in [Resource -> Epoch] /\ base \in [Task -> Epoch]
  /\ place \in [Task -> Place]
  /\ saved \in [Actor -> [Resource -> SUBSET Epoch]]
  /\ \A t \in Task, r \in Resource :
       holder[r] = t <=> place[t] \in {"leased", "admitted", "delivering"} /\ Goal[t] = r

\* Whoever delivers holds the lease, has seen every write before its own, and
\* acts for the owner, whatever was claimed, handed off, closed or expired
\* between the admission and now.
DeliveryFenced ==
  \A t \in Task, r \in Resource :
    Mutating(t, r) =>
      /\ holder[r] = t
      /\ base[t] = epoch[r]
      /\ claim[r] # NoClaim /\ claim[r].actor = job[t].actor

\* With the leases in front of it the control plane never counts two running
\* mutations of a resource, so nothing can hide the end of a claim: no actor
\* starts to deliver after it was closed or its time was over.
ClosedStartsNothing ==
  [][\A t \in Task :
       place[t] # "delivering" /\ place'[t] = "delivering" =>
         status[job[t].actor] = "live" /\ ~overdue[job[t].actor]]_vars

\* The order architecture.md gives, "acquire resource and hierarchical claims
\* -> verify the state's resource epoch -> ... -> advance the epoch": while an
\* actor has a claim in good standing, only its own calls advance the epoch.
OwnerUndisturbed ==
  [][\A t \in Task, r \in Resource :
       /\ place[t] = "leased" /\ epoch'[r] # epoch[r] /\ Goal[t] = r /\ holder[r] = t
       /\ LiveClaim(r) # NoClaim
       => OwnedBy(job[t].actor, r)]_vars

\* "States are actor-scoped ... so a recipient must observe after handoff": an
\* actor that has observed nothing has no state to act from.
MustObserve ==
  [][\A a \in Actor, r \in Resource :
       (saved[a][r] = {} /\ saved'[a][r] # {}) => Look(a, r)]_vars
================================================================================
