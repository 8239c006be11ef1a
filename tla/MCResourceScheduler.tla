-------------------------- MODULE MCResourceScheduler --------------------------
(***************************************************************************)
(* Instances of ResourceScheduler for TLC.  Resources 1 and 2 stand for an *)
(* application lane and the foreground-attention key that sorts after it.  *)
(***************************************************************************)
EXTENDS ResourceScheduler, TLC

CONSTANTS p1, p2, p3, c1, c2

\* Two processes with one operation each; both may need the attention key.
PairHome == (c1 :> p1 @@ c2 :> p2)
\* One operation in each of two processes, named after it: they may change
\* places.
Own == [c \in Client |-> c]
Mirror == Permutations({p1, p2})
PairClaims == [c \in Client |-> {2}]

OneTarget == [c \in Client |-> 1]
NoClaims == [c \in Client |-> {}]
================================================================================
