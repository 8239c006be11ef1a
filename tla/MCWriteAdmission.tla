--------------------------- MODULE MCWriteAdmission ---------------------------
(***************************************************************************)
(* Instances of WriteAdmission and Roots for TLC: what the actors of a     *)
(* process may write, with the default actor and another one and one       *)
(* resource, and which roots they are shown.  The two share no state:      *)
(* every behaviour is one of them at work.                                 *)
(***************************************************************************)
EXTENDS WriteAdmission, MCRoots

CONSTANTS host, alice, t1, t2

VARIABLE part

OneAction == (alice :> 1)
OneGoal == [t \in Task |-> 1]
\* The calls of one part are those of the other.
ActorsSymmetry == {f @@ g : f \in Permutations(Task), g \in Permutations(RootActors)}

ActorsInit == part \in {"writes", "roots"} /\ AdmissionInit /\ RootsInit
ActorsNext == \/ part = "writes" /\ AdmissionNext /\ UNCHANGED <<part, rootVars>>
              \/ part = "roots" /\ RootsNext /\ UNCHANGED <<part, vars>>
ActorsSpec == ActorsInit /\ [][ActorsNext]_<<part, vars, rootVars>>
================================================================================
