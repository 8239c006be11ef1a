---------------------------- MODULE FencedResource ----------------------------
(***************************************************************************)
(* What ResourceScheduler (src/src/runtime.ts) promises its callers:       *)
(* physical resources with exclusive leases and an epoch.  A client that   *)
(* holds a resource may observe it, which gives it the current epoch as    *)
(* its base, and may mutate it if its base is still the current epoch,     *)
(* which advances the epoch.  Leases are lost on release and on crash.     *)
(***************************************************************************)
EXTENDS Naturals

CONSTANTS Client, Resource, Target, Nobody

VARIABLES holder, epoch, base

vars == <<holder, epoch, base>>

Init ==
  /\ holder = [r \in Resource |-> Nobody]
  /\ epoch = [r \in Resource |-> 0]
  /\ base = [c \in Client |-> 0]

Take(c, r) ==
  /\ holder[r] = Nobody
  /\ holder' = [holder EXCEPT ![r] = c]
  /\ UNCHANGED <<epoch, base>>

\* One release, or a crash that drops every lease of a process at once.
Drop(R) ==
  /\ holder' = [r \in Resource |-> IF r \in R THEN Nobody ELSE holder[r]]
  /\ UNCHANGED <<epoch, base>>

Observe(c) ==
  /\ holder[Target[c]] = c
  /\ base' = [base EXCEPT ![c] = epoch[Target[c]]]
  /\ UNCHANGED <<holder, epoch>>

Mutate(c) ==
  /\ holder[Target[c]] = c
  /\ base[c] = epoch[Target[c]]
  /\ epoch' = [epoch EXCEPT ![Target[c]] = @ + 1]
  /\ base' = [base EXCEPT ![c] = @ + 1]
  /\ UNCHANGED holder

Next ==
  \/ \E c \in Client : (\E r \in Resource : Take(c, r)) \/ Observe(c) \/ Mutate(c)
  \/ \E R \in SUBSET Resource : Drop(R)

Spec == Init /\ [][Next]_vars
================================================================================
