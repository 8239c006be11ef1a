----------------------------- MODULE PipeHelper -----------------------------
(***************************************************************************)
(* src/platform/linux/helper.ts and windows/helper.ts, with ensureReady of *)
(* the two backends: the helper is a child of the process that uses it and *)
(* is written to and read from through pipes.  One client serves all calls *)
(* of the process; the child (native/linux, native/windows) is external.   *)
(* The Linux client shares installation and start among its calls, follows *)
(* their signals and tells them when the child exits; the Windows client   *)
(* does none of that.                                                      *)
(***************************************************************************)
EXTENDS Naturals, FiniteSets, SequencesExt

CONSTANTS PipeCall,
          MaxKids,      \* helpers a client starts
          MaxMishaps    \* children that die, signals, timeouts, ends of the session

ASSUME PipeAssumption == MaxKids \in Nat /\ MaxMishaps \in 0..(MaxKids - 1)

VARIABLES platform,    \* "linux" or "windows"
          helperFile,  \* the helper is executable; this client has installed it; who is installing
          kid,         \* per child: its process, what it has been asked, what it has printed
          pipe,        \* this.child, this.buffer, this.pending, and the children started so far
          pipeCall,    \* where every call is and which child it wrote to
          mishaps,
          pipeHistory  \* printed answers that were lost, and whether output of two children was mixed
pipeVars == <<platform, helperFile, kid, pipe, pipeCall, mishaps, pipeHistory>>

Kid == 1..MaxKids
NoKid == 0
Unborn == [is |-> "unborn", inbox |-> {}, out |-> <<>>]
Clean == {}
Idle(at) == [at |-> at, stage |-> "ready", kid |-> NoKid]

PipeState(p, at) ==
  /\ platform = p
  /\ helperFile = [exe |-> FALSE, checked |-> FALSE, installing |-> {}]
  /\ kid = [n \in Kid |-> Unborn]
  /\ pipe = [child |-> NoKid, buffer |-> Clean, pending |-> {}]
  /\ pipeCall = [c \in PipeCall |-> Idle(at)]
  /\ mishaps = 0
  /\ pipeHistory = [lost |-> {}, mixed |-> FALSE]
PipeInit == \E p \in {"linux", "windows"} : PipeState(p, "new")
NoPipe == PipeState("linux", "over")

Linux == platform = "linux"
Enters(c, at) == pipeCall' = [pipeCall EXCEPT ![c].at = at]
Over(c) == Idle("over")
Mishap == mishaps < MaxMishaps /\ mishaps' = mishaps + 1

-----------------------------------------------------------------------------
(***************************************************************************)
(* ensureInstalled.                                                        *)
(***************************************************************************)
\* The first call of a client runs the setup even when the helper is there.
NeedsHelper(c) ==
  /\ pipeCall[c].at = "new"
  /\ IF helperFile.exe /\ helperFile.checked
     THEN Enters(c, "process") /\ UNCHANGED helperFile
     ELSE Enters(c, "installing") /\ helperFile' = [helperFile EXCEPT !.installing = @ \cup {c}]
  /\ UNCHANGED <<platform, kid, pipe, mishaps, pipeHistory>>

\* A setup ends: on Linux for all who wait for it, on Windows for the call that
\* ran it, which takes note of it before it looks for the result.
SetupEnds(c) ==
  /\ c \in helperFile.installing
  /\ LET who == IF Linux THEN helperFile.installing ELSE {c}
         all(at) == [x \in PipeCall |-> IF x \notin who \/ pipeCall[x].at # "installing" THEN pipeCall[x]
                                        ELSE IF at = "over" THEN Over(x) ELSE [pipeCall[x] EXCEPT !.at = at]] IN
     \/ /\ helperFile' = [exe |-> TRUE, checked |-> TRUE, installing |-> helperFile.installing \ who]
        /\ pipeCall' = all("process")
     \/ /\ helperFile' = [helperFile EXCEPT !.installing = @ \ who, !.checked = @ \/ ~Linux]
        /\ pipeCall' = all("over")
  /\ UNCHANGED <<platform, kid, pipe, mishaps, pipeHistory>>

-----------------------------------------------------------------------------
(***************************************************************************)
(* process, startProcess and the events of the child.                      *)
(***************************************************************************)
Usable(n) == n # NoKid /\ kid[n].is \in {"spawning", "up"}
\* A child that has died without the exit event is still taken for alive.
Taken(n) == Usable(n) \/ (n # NoKid /\ kid[n].is = "dead")
Next1(K) == IF \E n \in Kid : K[n].is = "unborn" THEN {CHOOSE n \in Kid : K[n].is = "unborn" /\ \A m \in 1..(n - 1) : K[m].is # "unborn"} ELSE {}

\* On Linux one that was disposed of while it was starting is waited for all the
\* same, until it has spawned.
Doomed(n) == kid[n].is = "doomed"

\* command writes to a child.  The pipe of a killed child is destroyed; into
\* that of a dead one the request is lost.
Asks(calls, n) ==
  LET lands == IF kid[n].is \in {"killed", "doomed"} THEN {} ELSE calls IN
  /\ pipe' = [pipe EXCEPT !.pending = @ \cup lands]
  /\ kid' = [kid EXCEPT ![n].inbox = IF Usable(n) THEN @ \cup lands ELSE @,
                             ![n].is = IF @ = "spawning" THEN "up" ELSE IF @ = "doomed" THEN "killed" ELSE @]
  /\ pipeCall' = [c \in PipeCall |-> IF c \in lands THEN [pipeCall[c] EXCEPT !.at = "asked", !.kid = n]
                                     ELSE IF c \in calls THEN Over(c) ELSE pipeCall[c]]

\* Mutant: the rest of a line of the last child is kept for the next one.
StartsOnRest(c) ==
  /\ pipeCall[c].at = "process" /\ ~Taken(pipe.child) /\ \A n \in Kid : ~Doomed(n)
  /\ \E n \in Next1(kid) :
       /\ kid' = [kid EXCEPT ![n].is = "spawning"]
       /\ pipe' = [pipe EXCEPT !.child = n]
  /\ pipeCall' = [pipeCall EXCEPT ![c].at = "starting"]
  /\ UNCHANGED <<platform, helperFile, mishaps, pipeHistory>>
\* A new child with an empty buffer.  (Windows writes before it has spawned:
\* see Joins.)
Starts(c) ==
  /\ pipeCall[c].at = "process" /\ ~Taken(pipe.child) /\ \A n \in Kid : ~Doomed(n)
  /\ \E n \in Next1(kid) :
       /\ kid' = [kid EXCEPT ![n].is = "spawning"]
       /\ pipe' = [pipe EXCEPT !.child = n, !.buffer = Clean]
  /\ pipeCall' = [pipeCall EXCEPT ![c].at = "starting"]
  /\ UNCHANGED <<platform, helperFile, mishaps, pipeHistory>>

\* The child that is there is used; one that is starting is waited for.
Joins(c) ==
  /\ pipeCall[c].at = "process"
  /\ \/ Taken(pipe.child) /\ kid[pipe.child].is # "spawning" /\ Asks({c}, pipe.child)
     \/ /\ \/ Taken(pipe.child) /\ kid[pipe.child].is = "spawning"
           \/ \E n \in Kid : Doomed(n)
        /\ Enters(c, "starting") /\ UNCHANGED <<pipe, kid>>
  /\ UNCHANGED <<platform, helperFile, mishaps, pipeHistory>>

\* The spawn event; a child that was disposed of meanwhile is handed out too.
Spawned(n) ==
  /\ \/ Doomed(n)
     \/ kid[n].is = "spawning" /\ \E c \in PipeCall : pipeCall[c].at = "starting"
  /\ Asks({c \in PipeCall : pipeCall[c].at = "starting"}, n)
  /\ UNCHANGED <<platform, helperFile, mishaps, pipeHistory>>

\* rejectPending: of the calls that have asked.
Rejects(calls) == pipeCall' = [c \in PipeCall |-> IF c \in calls THEN Over(c) ELSE pipeCall[c]]

\* Spawning fails: the error event.
SpawnFails(n) ==
  /\ kid[n].is = "spawning" \/ Doomed(n)
  /\ Mishap
  /\ kid' = [kid EXCEPT ![n].is = "gone"]
  /\ pipe' = IF pipe.child # n THEN pipe ELSE [pipe EXCEPT !.child = NoKid, !.pending = IF Linux THEN {} ELSE @]
  /\ Rejects({c \in PipeCall : pipeCall[c].at = "starting"} \cup (IF Linux /\ pipe.child = n THEN pipe.pending ELSE {}))
  /\ UNCHANGED <<platform, helperFile, pipeHistory>>

\* The child does a request and prints a line for it; a long one arrives in two
\* chunks.  Of a child that was disposed of nothing is read.
HelperDoes(n, c) ==
  /\ kid[n].is \in {"up", "killed"} /\ c \in kid[n].inbox
  /\ \E line \in {<<"whole">>, <<"head", "tail">>} :
       kid' = [kid EXCEPT ![n].inbox = @ \ {c},
                          ![n].out = IF kid[n].is = "killed" THEN @ ELSE @ \o [i \in DOMAIN line |-> <<line[i], c>>]]
  /\ UNCHANGED <<platform, helperFile, pipe, pipeCall, mishaps, pipeHistory>>

\* It dies, perhaps within a line.
KidDies(n) ==
  /\ kid[n].is = "up" /\ Mishap
  /\ \E half \in {<<>>} \cup {<<<<"head", c>>>> : c \in kid[n].inbox} :
       kid' = [kid EXCEPT ![n] = [is |-> "dead", inbox |-> {}, out |-> @.out \o half]]
  /\ UNCHANGED <<platform, helperFile, pipe, pipeCall, pipeHistory>>

\* The exit event; only Linux tells those who wait.
ExitEvent(n) ==
  /\ kid[n].is = "dead"
  /\ kid' = [kid EXCEPT ![n].is = "gone"]
  /\ IF pipe.child # n THEN UNCHANGED <<pipe, pipeCall>>
     ELSE IF Linux THEN pipe' = [child |-> NoKid, buffer |-> Clean, pending |-> {}] /\ Rejects(pipe.pending)
     ELSE pipe' = [pipe EXCEPT !.child = NoKid] /\ UNCHANGED pipeCall
  /\ UNCHANGED <<platform, helperFile, mishaps, pipeHistory>>

\* shutdown of the backend: the session is over, and so are the calls that have
\* asked (on Windows that is who started the child as well); one that is still
\* installing, or on Linux waits for the child to start, is not told.
Dispose ==
  /\ Mishap
  /\ pipe' = [child |-> NoKid, buffer |-> Clean, pending |-> {}]
  /\ kid' = IF pipe.child = NoKid THEN kid
            ELSE [kid EXCEPT ![pipe.child].is = IF Linux /\ @ = "spawning" THEN "doomed" ELSE "killed",
                             ![pipe.child].out = <<>>]
  /\ Rejects(pipe.pending \cup (IF Linux THEN {} ELSE {c \in PipeCall : pipeCall[c].at = "starting"}))
  /\ UNCHANGED <<platform, helperFile, pipeHistory>>

-----------------------------------------------------------------------------
(***************************************************************************)
(* onStdout, and the other ways a command ends.                            *)
(***************************************************************************)
\* A line that is complete and unspoilt answers its call; the call of the
\* backend's ensureReady is followed by the work.
Answers(c) ==
  IF c \notin pipe.pending THEN UNCHANGED pipeCall
  ELSE \/ pipeCall' = [pipeCall EXCEPT ![c] = IF @.stage = "ready" THEN [at |-> "new", stage |-> "work", kid |-> NoKid] ELSE Over(c)]
       \/ Rejects({c})    \* an error, another protocol or architecture
Reads(n) ==
  /\ kid[n].out # <<>>
  /\ kid' = [kid EXCEPT ![n].out = Tail(@)]
  /\ LET chunk == Head(kid[n].out)
         c == chunk[2]
         late == \E m \in Kid : m > n /\ kid[m].is # "unborn"
         complete == pipe.buffer = IF chunk[1] = "whole" THEN Clean ELSE {<<n, c>>}
         lost == IF complete \/ chunk[1] = "head" THEN {} ELSE {c} \cap pipe.pending IN
     /\ pipe' = IF chunk[1] = "head" THEN [pipe EXCEPT !.buffer = @ \cup {<<n, c>>}]
                ELSE [pipe EXCEPT !.buffer = Clean, !.pending = IF complete THEN @ \ {c} ELSE @]
     /\ IF complete /\ chunk[1] # "head" THEN Answers(c) ELSE UNCHANGED pipeCall    \* or JSON.parse fails
     /\ pipeHistory' = [lost |-> pipeHistory.lost \cup lost, mixed |-> pipeHistory.mixed \/ late]
  /\ UNCHANGED <<platform, helperFile, mishaps>>

\* The timer; the child may still do what it was asked.
TimesOut(c) ==
  /\ pipeCall[c].at = "asked"
  /\ pipe' = [pipe EXCEPT !.pending = @ \ {c}]
  /\ Rejects({c})
  /\ UNCHANGED <<platform, helperFile, kid, mishaps, pipeHistory>>

\* The signal.  On Windows it kills the setup and is not looked at afterwards.
AbortPipe(c) ==
  /\ pipeCall[c].at \in (IF Linux THEN {"installing", "starting", "asked"} ELSE {"installing"})
  /\ Mishap
  /\ pipe' = [pipe EXCEPT !.pending = @ \ {c}]
  /\ helperFile' = IF Linux THEN helperFile ELSE [helperFile EXCEPT !.installing = @ \ {c}]
  /\ Rejects({c})
  /\ UNCHANGED <<platform, kid, pipeHistory>>

PipeStep(c) == NeedsHelper(c) \/ SetupEnds(c) \/ Starts(c) \/ Joins(c) \/ TimesOut(c)
KidStep(n) == Spawned(n) \/ ExitEvent(n) \/ Reads(n)
PipeNext ==
  \/ \E c \in PipeCall : PipeStep(c) \/ AbortPipe(c)
  \/ \E n \in Kid : KidStep(n) \/ SpawnFails(n) \/ KidDies(n) \/ \E c \in PipeCall : HelperDoes(n, c)
  \/ Dispose
\* The setup ends or is killed after a minute, events are delivered, timers fire.
PipeFairness == (\A c \in PipeCall : WF_pipeVars(PipeStep(c))) /\ \A n \in Kid : WF_pipeVars(KidStep(n))
PipeSpec == PipeInit /\ [][PipeNext]_pipeVars /\ PipeFairness

(***************************************************************************)
(* Properties.                                                             *)
(***************************************************************************)
\* On Linux every call that waits for an answer has asked the helper that is
\* there: when that one exits or is disposed of, or another takes its place,
\* nobody is left to wait for the timeout.
GoneIsTold == Linux => \A c \in pipe.pending : pipeCall[c].at = "asked" /\ pipeCall[c].kid = pipe.child

\* An answer the helper has printed is heard by the call that waits for it: the
\* unfinished line of a child that died does not spoil the lines of the next,
\* unless output of the one is read after the other has started (all children
\* share one buffer, and an exit event may come before the last output).
AnswersHeard == pipeHistory.lost = {} \/ pipeHistory.mixed

\* Nobody waits for an answer that has been read whole, and on Linux nobody for
\* one that a child whose end was told would have to give.
PipeSound == GoneIsTold /\ AnswersHeard

PipeOver == \A c \in PipeCall : pipeCall[c].at = "over"
=============================================================================
