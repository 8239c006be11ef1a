------------------------------- MODULE MCRoots -------------------------------
(***************************************************************************)
(* An instance of Roots for TLC.                                           *)
(***************************************************************************)
EXTENDS Roots, TLC

\* 1 and 2 have one title, and 3 is a dialog in front of 1, without an id
MCIdOf == (1 :> 1) @@ (2 :> 2) @@ (3 :> 0)
MCTitleOf == (1 :> "doc") @@ (2 :> "doc") @@ (3 :> "ask")
MCOver == (1 :> {}) @@ (2 :> {}) @@ (3 :> {1})
NoModal == [w \in Windows |-> {}]
RootsSpec == RootsInit /\ [][RootsNext]_rootVars
=============================================================================
