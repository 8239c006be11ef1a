---------------------------- MODULE HelperSetup ----------------------------
(***************************************************************************)
(* scripts/setup-helper.mjs on macOS: how the helper application comes to  *)
(* its place.  A sealed bundle (shipped with the package or downloaded) is *)
(* copied there; a loose binary (shipped, or built from the sources) is    *)
(* wrapped and signed in a staging directory, which then replaces what is  *)
(* there by two renames.  Any number of processes may run the script at    *)
(* the same time; they meet at the application and at the signing identity *)
(* in the keychain, whose creation a lock directory guards.                *)
(***************************************************************************)
EXTENDS Naturals, FiniteSets

CONSTANTS Installer, NoOne,
          Worlds,       \* what the package ships, and whether there is a Developer ID
          MaxSnags      \* installers that die, waits that grow old, steps that fail

ASSUME SetupAssumption == Worlds \subseteq [ships : {"bundle", "binary", "nothing"}, developer : BOOLEAN]
                          /\ NoOne \notin Installer /\ MaxSnags \in Nat

VARIABLES world,      \* one of them
          app,        \* the application in its place
          aside,      \* staging and backup directories
          keychain,   \* who created a local signing identity
          signLock,   \* who made the lock directory
          inst,       \* where every installer is, and what it has read
          snags,
          setupHistory
setupVars == <<world, app, aside, keychain, signLock, inst, snags, setupHistory>>

NoApp == [src |-> "none", sig |-> "none", whole |-> FALSE, hash |-> FALSE]
Sealed == [src |-> "bundle", sig |-> "release", whole |-> TRUE, hash |-> FALSE]
\* stageLocalHelperApp writes source.sha256 beside the binary.
Staged(sig) == [src |-> "binary", sig |-> sig, whole |-> TRUE, hash |-> TRUE]
There == app # NoApp

SetupState(w, a, at) ==
  /\ world = w /\ app = a
  /\ aside = [p \in Installer |-> [staging |-> NoApp, backup |-> NoApp]]
  /\ keychain = {} /\ signLock = NoOne /\ snags = 0
  /\ inst = [p \in Installer |-> [at |-> at, then |-> "", id |-> "", known |-> FALSE]]
  /\ setupHistory = [had |-> a # NoApp, stolen |-> FALSE, spoilt |-> FALSE, allowed |-> FALSE, signed |-> a.sig \notin {"none", "adhoc"}]
\* Nothing is installed, an older bundle, or a build of this binary or of another.
Installed == {NoApp, [Sealed EXCEPT !.src = "older"], Staged("adhoc"), [Staged("local") EXCEPT !.src = "other"]}
SetupInit == \E w \in Worlds, a \in Installed : SetupState(w, a, "new")
NoSetup == SetupState(CHOOSE w \in Worlds : TRUE, NoApp, "failed")

Is(p, at) == inst[p].at = at
\* What an installer has read does not matter from its last three steps on.
Ended(at) == [at |-> at, then |-> "", id |-> "", known |-> FALSE]
Moves(p, at) == inst' = [inst EXCEPT ![p] = IF at \in {"replace", "done", "failed"} THEN Ended(at) ELSE [@ EXCEPT !.at = at]]
Snag == snags < MaxSnags /\ snags' = snags + 1
\* An installer that is killed: its directories stay, at its last step.
Dead(p) == inst[p].then = "dead"
Works(p) == ~Dead(p) /\ inst[p].at \notin {"done", "failed"}

-----------------------------------------------------------------------------
(***************************************************************************)
(* resolveCodeSignIdentity, which ends at the step in "then".              *)
(***************************************************************************)
Identify(p, then) == inst' = [inst EXCEPT ![p].at = "find", ![p].then = then]
Identified(p, id) == inst' = [inst EXCEPT ![p].at = inst[p].then, ![p].id = id]

\* A Developer ID, a local identity, no tools to make one, or the lock.
FindIdentity(p) ==
  /\ Is(p, "find")
  /\ IF world.developer THEN Identified(p, "developer")
     ELSE IF keychain # {} THEN Identified(p, "local")
     ELSE Identified(p, "adhoc") \/ Moves(p, "lock")
  /\ UNCHANGED <<world, app, aside, keychain, signLock, snags, setupHistory>>

\* mkdir, the lock's age, or the deadline of fifteen seconds.
TakeLock(p) ==
  /\ Is(p, "lock")
  /\ \/ /\ signLock = NoOne /\ signLock' = p
        /\ Moves(p, "locked") /\ UNCHANGED snags
     \/ /\ signLock # NoOne /\ UNCHANGED <<signLock, snags>>
        /\ inst[signLock].then = "dead"
        /\ Moves(p, "clear")
     \/ /\ signLock # NoOne /\ UNCHANGED signLock /\ Snag     \* five minutes old, its owner at work
        /\ Moves(p, "clear")
     \/ /\ signLock # NoOne /\ UNCHANGED <<signLock, snags>>
        /\ Moves(p, "failed")
  /\ UNCHANGED <<world, app, aside, keychain, setupHistory>>

\* rm of whatever lock is there by now.
Removes(p) == /\ signLock' = NoOne
              /\ setupHistory' = [setupHistory EXCEPT !.stolen = @ \/ (signLock \notin {NoOne, p} /\ Works(signLock))]
ClearLock(p) ==
  /\ Is(p, "clear")
  /\ Removes(p) /\ Moves(p, "lock")
  /\ UNCHANGED <<world, app, aside, keychain, snags>>

\* Mutant: who has the lock creates without another look.
LookAgainNever(p) ==
  /\ Is(p, "locked")
  /\ Moves(p, "create")
  /\ UNCHANGED <<world, app, aside, keychain, signLock, snags, setupHistory>>
\* ensureIdentityOnce looks again under the lock.
LookAgain(p) ==
  /\ Is(p, "locked")
  /\ IF keychain # {} THEN inst' = [inst EXCEPT ![p].at = "unlock", ![p].id = "local"] ELSE Moves(p, "create")
  /\ UNCHANGED <<world, app, aside, keychain, signLock, snags, setupHistory>>

\* createLocalSigningIdentity; a failure leaves the ad-hoc signature.
CreateIdentity(p) ==
  /\ Is(p, "create")
  /\ \/ keychain' = keychain \cup {p} /\ inst' = [inst EXCEPT ![p].at = "unlock", ![p].id = "local"]
     \/ UNCHANGED keychain /\ inst' = [inst EXCEPT ![p].at = "unlock", ![p].id = "adhoc"]
  /\ UNCHANGED <<world, app, aside, signLock, snags, setupHistory>>

Unlock(p) ==
  /\ Is(p, "unlock")
  /\ Removes(p) /\ Identified(p, inst[p].id)
  /\ UNCHANGED <<world, app, aside, keychain, snags>>

-----------------------------------------------------------------------------
(***************************************************************************)
(* setup: what is installed.                                               *)
(***************************************************************************)
\* A bundle before a binary before a download before a build from the sources,
\* which --source-build asks for at once.
Setup(p) ==
  /\ Is(p, "new")
  /\ \/ Identify(p, "read")                     \* buildHelper signs what it has built
     \/ world.ships = "bundle" /\ Moves(p, "compare")
     \/ world.ships = "binary" /\ Moves(p, "read")
     \/ world.ships = "nothing" /\ \E at \in {"compare", "failed"} : Moves(p, at)
  /\ UNCHANGED <<world, app, aside, keychain, signLock, snags, setupHistory>>

\* A download that cannot be installed is followed by a build.
GivesUp(p) == Moves(p, "failed") \/ (world.ships = "nothing" /\ Identify(p, "read"))
\* installPrebuiltHelperApp: executable and Info.plist are compared, nothing else;
\* a copy in progress may have them already, or not yet.
Compare(p) ==
  /\ Is(p, "compare")
  /\ \/ app.src = "bundle" /\ Moves(p, "done")
     \/ (app.src # "bundle" \/ ~app.whole) /\ (Moves(p, "remove") \/ GivesUp(p))
  /\ UNCHANGED <<world, app, aside, keychain, signLock, snags, setupHistory>>
\* fs.rm goes file by file, source.sha256 among them; a failure leaves the rest.
RemoveApp(p) ==
  /\ Is(p, "remove")
  /\ \/ app' = NoApp /\ Moves(p, "copy") /\ UNCHANGED <<snags, setupHistory>>
     \/ /\ Snag /\ There /\ setupHistory' = [setupHistory EXCEPT !.spoilt = TRUE]
        /\ \E hash \in {app.hash, FALSE} : app' = [app EXCEPT !.whole = FALSE, !.hash = hash]
        /\ GivesUp(p)
  /\ UNCHANGED <<world, aside, keychain, signLock>>
\* ditto copies file by file into what is there.
Blends == There /\ (app.hash \/ app.src # "bundle")
CopyBegins(p) ==
  /\ Is(p, "copy")
  /\ app' = [Sealed EXCEPT !.whole = FALSE, !.hash = app.hash]
  /\ setupHistory' = [setupHistory EXCEPT !.spoilt = @ \/ Blends, !.signed = TRUE]
  /\ Moves(p, "copying")
  /\ UNCHANGED <<world, aside, keychain, signLock, snags>>
CopyEnds(p) ==
  /\ Is(p, "copying")
  /\ \/ /\ \E w \in BOOLEAN :                     \* another copy may have removed part of this one
             /\ w \/ \E q \in Installer \ {p} : Is(q, "copying")
             /\ app' = [Sealed EXCEPT !.whole = w /\ There /\ ~Blends, !.hash = app.hash]
        /\ setupHistory' = [setupHistory EXCEPT !.spoilt = @ \/ Blends \/ ~There]
        /\ Moves(p, "done") /\ UNCHANGED snags
     \/ /\ Snag /\ setupHistory' = [setupHistory EXCEPT !.spoilt = TRUE]      \* nothing is undone
        /\ GivesUp(p) /\ UNCHANGED app
  /\ UNCHANGED <<world, aside, keychain, signLock>>

\* installHelperApp: is the same binary installed, under a valid signature?
ReadInstalled(p) ==
  /\ Is(p, "read")
  /\ inst' = [inst EXCEPT ![p].at = "find", ![p].known = app.hash,
                          ![p].then = IF app.hash /\ app.src = "binary" /\ app.whole THEN "upgrade" ELSE "decide"]
  /\ UNCHANGED <<world, app, aside, keychain, signLock, snags, setupHistory>>
\* It is signed anew only to replace an ad-hoc signature by a real one.
Upgrade(p) ==
  /\ Is(p, "upgrade")
  /\ IF inst[p].id # "adhoc" /\ app.sig = "adhoc" THEN Identify(p, "decide") ELSE Moves(p, "done")
  /\ UNCHANGED <<world, app, aside, keychain, signLock, snags, setupHistory>>
\* An ad-hoc signature does not replace an earlier build unless the environment
\* of the script allows it.
Decide(p) ==
  /\ Is(p, "decide")
  /\ LET refuses == inst[p].id = "adhoc" /\ inst[p].known IN
     \/ refuses /\ Moves(p, "failed") /\ UNCHANGED setupHistory
     \/ Identify(p, "stage") /\ setupHistory' = [setupHistory EXCEPT !.allowed = @ \/ refuses]
  /\ UNCHANGED <<world, app, aside, keychain, signLock, snags>>

\* stageLocalHelperApp, with the identity signHelper has resolved once more.
Stage(p) ==
  /\ Is(p, "stage")
  /\ \/ aside' = [aside EXCEPT ![p].staging = Staged(inst[p].id)] /\ Moves(p, "replace")
     \/ UNCHANGED aside /\ Moves(p, "failed")
  /\ UNCHANGED <<world, app, keychain, signLock, snags, setupHistory>>

\* replaceLocalHelperApp: what is there, were it a copy that is not finished,
\* goes aside, the new one takes its place, the old one is dropped.
Replace(p) ==
  /\ Is(p, "replace")
  /\ Moves(p, IF There THEN "moveOld" ELSE "moveNew")
  /\ UNCHANGED <<world, app, aside, keychain, signLock, snags, setupHistory>>
MoveOld(p) ==
  /\ Is(p, "moveOld")
  /\ IF There THEN /\ app' = NoApp /\ aside' = [aside EXCEPT ![p].backup = app]
                   /\ setupHistory' = [setupHistory EXCEPT !.spoilt = @ \/ ~app.whole]
                   /\ Moves(p, "moveNew")
     ELSE Moves(p, "restore") /\ UNCHANGED <<app, aside, setupHistory>>
  /\ UNCHANGED <<world, keychain, signLock, snags>>
MoveNew(p) ==
  /\ Is(p, "moveNew")
  /\ \/ /\ ~There /\ app' = aside[p].staging /\ aside' = [aside EXCEPT ![p].staging = NoApp]
        /\ Moves(p, "dropOld") /\ UNCHANGED snags
        /\ setupHistory' = [setupHistory EXCEPT !.signed = @ \/ app'.sig # "adhoc"]
     \/ /\ There /\ Moves(p, "restore") /\ UNCHANGED <<app, aside, snags, setupHistory>>
     \/ /\ Snag /\ Moves(p, "restore") /\ UNCHANGED <<app, aside, setupHistory>>
  /\ UNCHANGED <<world, keychain, signLock>>
DropOld(p) ==
  /\ Is(p, "dropOld")
  /\ aside' = [aside EXCEPT ![p].backup = NoApp] /\ Moves(p, "done")
  /\ UNCHANGED <<world, app, keychain, signLock, snags, setupHistory>>

\* The error path: the old application comes back if nobody else's is there.
Restore(p) ==
  /\ Is(p, "restore")
  /\ app' = IF There THEN app ELSE aside[p].backup
  /\ aside' = [aside EXCEPT ![p] = [staging |-> NoApp, backup |-> IF There THEN @.backup ELSE NoApp]]
  /\ Moves(p, "failed")
  /\ UNCHANGED <<world, keychain, signLock, snags, setupHistory>>

InstallerDies(p) ==
  /\ Works(p) /\ Snag
  /\ inst' = [inst EXCEPT ![p].then = "dead"]
  /\ UNCHANGED <<world, app, aside, keychain, signLock, setupHistory>>

InstallerStep(p) ==
  /\ Works(p)
  /\ \/ FindIdentity(p) \/ TakeLock(p) \/ ClearLock(p) \/ LookAgain(p) \/ CreateIdentity(p) \/ Unlock(p)
     \/ Setup(p) \/ Compare(p) \/ RemoveApp(p) \/ CopyBegins(p) \/ CopyEnds(p)
     \/ ReadInstalled(p) \/ Upgrade(p) \/ Decide(p) \/ Stage(p)
     \/ Replace(p) \/ MoveOld(p) \/ MoveNew(p) \/ DropOld(p) \/ Restore(p)
SetupNext == \E p \in Installer : InstallerStep(p) \/ InstallerDies(p)
SetupFairness == \A p \in Installer : WF_setupVars(InstallerStep(p))
SetupSpec == SetupInit /\ [][SetupNext]_setupVars /\ SetupFairness

(***************************************************************************)
(* Properties.                                                             *)
(***************************************************************************)
\* However many processes find no signing identity at the same time, one is
\* created, unless the lock of a live one was removed: by waiters that judged
\* the same old lock together, or because its owner took five minutes.
IdentityOnce == Cardinality(keychain) <= 1 \/ setupHistory.stolen

\* Once an application is installed, there is a whole one in its place but for
\* the moment in which some installer changes it (or died while it did): a
\* replacement that fails, also because another installer was faster, brings
\* back what was there.  The copy of a sealed bundle is the exception: it
\* removes what is there first, which may fail half way, and may fail itself, go
\* into what another installer has put there in the meantime, or be moved aside
\* or removed before it is whole.
Changing(p) == inst[p].at \in {"moveNew", "restore", "copy", "copying"}
AppKept == setupHistory.had /\ ~setupHistory.spoilt => app.whole \/ \E p \in Installer : Changing(p)

\* Installers beside each other, some of which fail or die, leave one identity
\* and a whole application, with those two exceptions.
InstallsSound == IdentityOnce /\ AppKept

\* setup-helper.mjs:467 refuses "to replace an installed helper with an ad-hoc
\* signed rebuild because macOS may reset Accessibility/Screen Recording
\* grants"; a sealed bundle has no source.sha256, so it is replaced all the same.
GrantsKept == There /\ app.sig = "adhoc" /\ ~setupHistory.allowed => ~setupHistory.signed

SetupOver == \A p \in Installer : ~Works(p)
=============================================================================
