------------------------------ MODULE MCHelpers ------------------------------
(***************************************************************************)
(* Instances of MacosHelper, PipeHelper and HelperSetup for TLC.  They     *)
(* share no state: every behaviour is one of them at work.                 *)
(***************************************************************************)
EXTENDS MacosHelper, PipeHelper, HelperSetup, TLC

CONSTANTS j1, j2, m1, m2

\* Two calls of one process, and calls of two processes.
SomeCrews == {j1 :> m1 @@ j2 :> m1, j1 :> m1 @@ j2 :> m2}

SomeWorlds == {[ships |-> "bundle", developer |-> FALSE],
               [ships |-> "binary", developer |-> TRUE], [ships |-> "nothing", developer |-> TRUE]}

\* A daemon of an earlier version, or with an old answer, is met with everything
\* granted; another bundle comes by Elsewhere.
MacStart == MacInit /\ bundle # "other" /\ (daemon.up => grants = Kind)
\* A loose binary is installed where nothing was.
SetupStarts == SetupInit /\ (world.ships = "binary" => ~There)
HelpersInit == \/ MacStart /\ NoPipe /\ NoSetup
               \/ NoMac /\ PipeInit /\ NoSetup
               \/ NoMac /\ NoPipe /\ SetupStarts
HelpersVars == <<macVars, pipeVars, setupVars>>
HelpersNext == \/ MacNext /\ UNCHANGED <<pipeVars, setupVars>>
               \/ PipeNext /\ UNCHANGED <<macVars, setupVars>>
               \/ SetupNext /\ UNCHANGED <<macVars, pipeVars>>
HelpersSpec == HelpersInit /\ [][HelpersNext]_HelpersVars /\ MacFairness /\ PipeFairness /\ SetupFairness
SetupOnly == SetupStarts /\ NoMac /\ NoPipe /\ [][HelpersNext]_HelpersVars

\* Every call of a helper ends, but for the user's part in it, and so does every
\* installation.
EveryHelperCallEnds == <>[](MacOver /\ PipeOver /\ SetupOver)
=============================================================================
