--------------------------- MODULE ResourceScheduler ---------------------------
(***************************************************************************)
(* The cross-process lease and epoch protocol of src/src/runtime.ts.       *)
(*                                                                         *)
(* A lease on a resource is a directory: mkdir takes it, owner.json inside *)
(* it names the session that holds it, rm -rf gives it back.  A waiter     *)
(* that finds the directory of a dead process renames it away and tries    *)
(* again.  Every step that touches the file system goes by PATH, never by  *)
(* the identity of the directory, so `lock' holds what is at the path.     *)
(* Each await of the code is the boundary between two actions here.        *)
(*                                                                         *)
(* A Client is one asynchronous operation slot of a process (its Home); it *)
(* performs reads and writes of its Target, one after the other.           *)
(***************************************************************************)
EXTENDS Integers, FiniteSets

CONSTANTS
  Process,    \* operating-system processes, each with one live scheduler
  Client,     \* concurrent operation slots
  Home,       \* the process a client runs in
  Resource,   \* resource keys; their order as numbers is the sort order
  Target,     \* the resource a client reads and writes
  Claims,     \* the additional keys a client's writes take
  Free,       \* nothing exists at the lock path
  Vacant,     \* a lock directory without a readable owner.json
  NoFile,     \* the collector is between two files
  MaxWrites,  \* bound: no write starts on a resource mutated this often
  Crashes,    \* processes may die at any point
  PidReuse,   \* the pid of a dead process may be given to another program
  Slow,       \* whether live creators need over a second for owner.json
  Timeouts,   \* a wait may reach lockTimeoutMs
  Collects    \* schedulers close and collect metadata over a day old

ASSUME ClientAssumption ==
  /\ Home \in [Client -> Process]
  /\ Resource \subseteq Nat
  /\ Target \in [Client -> Resource]
  /\ Claims \in [Client -> SUBSET Resource]
\* What gcMetadata is about to do, and to the files of which resource.
GcJob == {"lock", "age", "epoch"} \X Resource

ASSUME MarkerAssumption ==
  /\ Free \notin Process /\ Vacant \notin Process /\ Free # Vacant
  /\ NoFile \notin GcJob
ASSUME BoundAssumption == MaxWrites \in Nat
ASSUME SwitchAssumption ==
  {Crashes, PidReuse, Timeouts, Collects} \cup Slow \subseteq BOOLEAN

VARIABLES
  lock,     \* what is at the lock path of a resource: Free, Vacant or a process
  epoch,    \* the number in the .epoch file, 0 when there is none
  aged,     \* the .epoch file has not been written for a day
  proc,     \* "up", "down", or "reused": dead and its pid names a stranger
  closed,   \* the `closed' flag of the process's scheduler
  gc,       \* the file gcMetadata is about to remove, or NoFile
  pc,       \* where the operation of a client is
  kind,     \* "read", "readAt" or "write"
  at,       \* the lease being acquired or released
  todo,     \* leases still to be acquired
  held,     \* leases whose directory this client's mkdir created
  base,     \* the epoch of the state the client holds
  slow      \* a creator may need over a second to write owner.json

\* History, read by no action: how many mutations a resource has had, how many
\* of them the state a client holds includes, whether two ever held one lease
\* for stale at once, and whether a lock directory was ever removed or taken
\* over while the client that made it was alive.
VARIABLES version, basis, rivals, stolen

fsVars == <<lock, epoch, aged>>
procVars == <<proc, closed, gc>>
opVars == <<pc, kind, at, todo, held>>
stateVars == <<base, version, basis, slow, rivals>>
vars == <<fsVars, procVars, opVars, stateVars, stolen>>

PC == {"idle", "mkdir", "owner", "discard", "inspect", "rename", "wait",
       "body", "guard", "commit", "work", "release", "unlink", "rmdir", "dead"}
Kind == {"read", "readAt", "write"}

\* An operation between its last acquisition and its first release.
InBody(c) == pc[c] \in {"body", "guard", "commit", "work"}
Up(c) == proc[Home[c]] = "up"
Leases(c, k) == {Target[c]} \cup (IF k = "write" THEN Claims[c] ELSE {})

\* ordered = [...new Set(resourceKeys)].sort(), taken front to back and, by the
\* nesting of the finally blocks, released back to front.
IsFirstUnsorted(r, S) == r \in S  \* mutant: keys are not sorted
IsFirst(r, S) == r \in S /\ \A s \in S : r <= s
IsLast(r, S) == r \in S /\ \A s \in S : s <= r

\* Client c creates, rewrites or removes what is at the path of r.
Steals(c, r) == stolen' = (stolen \/ \E d \in Client \ {c} : r \in held[d])

Goto(c, to) == pc' = [pc EXCEPT ![c] = to]
At(c, from) == pc[c] = from /\ Up(c)

\* Sessions that ended before this behaviour begins: nothing runs in them, and
\* what they left on disk is there.
Past == {p \in Process : \A c \in Client : Home[c] # p}

Init ==
  /\ lock \in [Resource -> {Free} \cup IF Past = {} THEN {} ELSE {Vacant} \cup Past]
  /\ epoch = [r \in Resource |-> 0]
  /\ aged = [r \in Resource |-> FALSE]
  /\ proc = [p \in Process |-> IF p \in Past THEN "down" ELSE "up"]
  /\ closed = [p \in Process |-> FALSE]
  /\ gc = [p \in Process |-> NoFile]
  /\ pc = [c \in Client |-> "idle"]
  /\ kind = [c \in Client |-> "read"]
  /\ at = [c \in Client |-> Target[c]]
  /\ todo = [c \in Client |-> {}]
  /\ held = [c \in Client |-> {}]
  /\ base = [c \in Client |-> 0]
  /\ version = [r \in Resource |-> 0]
  /\ basis = [c \in Client |-> 0]
  /\ slow \in Slow
  /\ rivals = FALSE
  /\ stolen = FALSE

--------------------------------------------------------------------------------
(* withLeases and withLease: acquisition.                                    *)

\* withLease(key) begins: refused once the scheduler is closed, which makes
\* the enclosing withLease calls release what they hold.
BeginLease(c, rest) ==
  IF closed[Home[c]]
  THEN Goto(c, "release") /\ UNCHANGED at
  ELSE /\ Goto(c, "mkdir")
       /\ \E r \in rest : IsFirst(r, rest) /\ at' = [at EXCEPT ![c] = r]

Start(c, k) ==
  /\ At(c, "idle")
  /\ ~closed[Home[c]]
  /\ k = "write" => version[Target[c]] < MaxWrites
  /\ kind' = [kind EXCEPT ![c] = k]
  /\ todo' = [todo EXCEPT ![c] = Leases(c, k)]
  /\ BeginLease(c, Leases(c, k))
  /\ UNCHANGED <<fsVars, procVars, held, stateVars, stolen>>

Mkdir(c) ==
  /\ At(c, "mkdir")
  /\ lock[at[c]] = Free
  /\ lock' = [lock EXCEPT ![at[c]] = Vacant]
  /\ held' = [held EXCEPT ![c] = @ \cup {at[c]}]
  /\ Goto(c, "owner")
  /\ UNCHANGED <<epoch, aged, procVars, kind, at, todo, stateVars, stolen>>

MkdirExists(c) ==
  /\ At(c, "mkdir")
  /\ lock[at[c]] # Free
  /\ Goto(c, "inspect")
  /\ UNCHANGED <<fsVars, procVars, kind, at, todo, held, stateVars, stolen>>

\* writeFile(owner.json): goes into whatever directory is at the path now.
WriteOwner(c) ==
  /\ At(c, "owner")
  /\ lock[at[c]] # Free
  /\ lock' = [lock EXCEPT ![at[c]] = Home[c]]
  /\ todo' = [todo EXCEPT ![c] = @ \ {at[c]}]
  /\ IF todo[c] = {at[c]}
     THEN Goto(c, "body") /\ UNCHANGED at
     ELSE BeginLease(c, todo[c] \ {at[c]})
  /\ Steals(c, at[c])
  /\ UNCHANGED <<epoch, aged, procVars, kind, held, stateVars>>

\* The write fails (the directory is gone, or an I/O error); the handler
\* removes whatever is at the path and the operation fails.
WriteOwnerFails(c) ==
  /\ At(c, "owner")
  /\ Goto(c, "discard")
  /\ UNCHANGED <<fsVars, procVars, kind, at, todo, held, stateVars, stolen>>

Discard(c) ==
  /\ At(c, "discard")
  /\ lock' = [lock EXCEPT ![at[c]] = Free]
  /\ held' = [held EXCEPT ![c] = @ \ {at[c]}]
  /\ Goto(c, "release")
  /\ Steals(c, at[c])
  /\ UNCHANGED <<epoch, aged, procVars, kind, at, todo, stateVars>>

\* removeStaleLease, up to its verdict.  With owner.json readable the verdict
\* is the death of the process it names; a pid that now belongs to a stranger
\* passes kill(pid, 0) and the registry still holds the old token.  Without
\* one it is the age of the directory: over a second only when the creator is
\* gone or slow.
OwnerDeadNever(r) == FALSE  \* mutant: a readable owner.json is always trusted
OwnerDead(r) == lock[r] \in Process /\ proc[lock[r]] = "down"
OverdueAtOnce(r) == lock[r] = Vacant  \* mutant: the second of grace is not granted
Overdue(r) ==
  /\ lock[r] = Vacant
  /\ slow \/ \A d \in Client : Up(d) => r \notin held[d]
LooksStale(r) == OwnerDead(r) \/ Overdue(r)

\* A waiter or a collector has held the lease of r for stale and has not moved
\* it away yet.
Judged(r) ==
  \/ \E c \in Client : pc[c] = "rename" /\ at[c] = r
  \/ \E p \in Process : gc[p] = <<"lock", r>>

InspectStale(c) ==
  /\ At(c, "inspect")
  /\ LooksStale(at[c])
  /\ Goto(c, "rename")
  /\ rivals' = (rivals \/ Judged(at[c]))
  /\ UNCHANGED <<fsVars, procVars, kind, at, todo, held, base, version, basis, slow, stolen>>

InspectLiveSpins(c) ==  \* mutant: retries without looking at the deadline
  /\ At(c, "inspect")
  /\ ~OwnerDead(at[c])
  /\ Goto(c, "mkdir")
  /\ UNCHANGED <<fsVars, procVars, kind, at, todo, held, stateVars, stolen>>

InspectLive(c) ==
  /\ At(c, "inspect")
  /\ ~OwnerDead(at[c])
  /\ Goto(c, "wait")
  /\ UNCHANGED <<fsVars, procVars, kind, at, todo, held, stateVars, stolen>>

\* quarantineStaleLease: rename(lockPath, unique name), by path.
Quarantine(c) ==
  /\ At(c, "rename")
  /\ lock' = [lock EXCEPT ![at[c]] = Free]
  /\ Goto(c, IF lock[at[c]] = Free THEN "wait" ELSE "mkdir")
  /\ Steals(c, at[c])
  /\ UNCHANGED <<epoch, aged, procVars, kind, at, todo, held, stateVars>>

Retry(c) ==
  /\ At(c, "wait")
  /\ Goto(c, "mkdir")
  /\ UNCHANGED <<fsVars, procVars, kind, at, todo, held, stateVars, stolen>>

TimeoutGoesOn(c) ==  \* mutant: the error of the deadline is lost
  /\ Timeouts
  /\ At(c, "wait")
  /\ Goto(c, "body")
  /\ UNCHANGED <<fsVars, procVars, kind, at, todo, held, stateVars, stolen>>

Timeout(c) ==
  /\ Timeouts
  /\ At(c, "wait")
  /\ Goto(c, "release")
  /\ UNCHANGED <<fsVars, procVars, kind, at, todo, held, stateVars, stolen>>

--------------------------------------------------------------------------------
(* read, readAt and writeGuarded: what runs under the leases.                *)

\* read hands the epoch it finds to the observation, which becomes the base.
ReadEpoch(c) ==
  /\ At(c, "body")
  /\ kind[c] = "read"
  /\ base' = [base EXCEPT ![c] = epoch[Target[c]]]
  /\ basis' = [basis EXCEPT ![c] = version[Target[c]]]
  /\ Goto(c, "work")
  /\ UNCHANGED <<fsVars, procVars, kind, at, todo, held, version, slow, rivals, stolen>>

\* readAt and writeGuarded go on only from the epoch their state was taken at.
CheckEpochLax(c) ==  \* mutant: any state is good enough
  /\ At(c, "body")
  /\ kind[c] # "read"
  /\ Goto(c, IF kind[c] = "write" THEN "guard" ELSE "work")
  /\ UNCHANGED <<fsVars, procVars, kind, at, todo, held, stateVars, stolen>>

CheckEpoch(c) ==
  /\ At(c, "body")
  /\ kind[c] # "read"
  /\ Goto(c, IF epoch[Target[c]] # base[c] THEN "release"
             ELSE IF kind[c] = "write" THEN "guard" ELSE "work")
  /\ UNCHANGED <<fsVars, procVars, kind, at, todo, held, stateVars, stolen>>

\* await guard?.(): a live UI guard holds, or throws StaleResourceState etc.
GuardHolds(c) ==
  /\ At(c, "guard")
  /\ Goto(c, "commit")
  /\ UNCHANGED <<fsVars, procVars, kind, at, todo, held, stateVars, stolen>>

GuardFails(c) ==
  /\ At(c, "guard")
  /\ Goto(c, "release")
  /\ UNCHANGED <<fsVars, procVars, kind, at, todo, held, stateVars, stolen>>

\* writeEpoch(epoch + 1), then dispatch.  The epoch written is computed from
\* the one read before the guard, which equals the base.
CommitEpoch(c) ==
  /\ At(c, "commit")
  /\ epoch' = [epoch EXCEPT ![Target[c]] = base[c] + 1]
  /\ aged' = [aged EXCEPT ![Target[c]] = FALSE]
  /\ version' = [version EXCEPT ![Target[c]] = @ + 1]
  /\ base' = [base EXCEPT ![c] = @ + 1]
  /\ basis' = [basis EXCEPT ![c] = version[Target[c]] + 1]
  /\ Goto(c, "work")
  /\ UNCHANGED <<lock, procVars, kind, at, todo, held, slow, rivals, stolen>>

\* work settles, with a value or an error.
FinishWork(c) ==
  /\ At(c, "work")
  /\ Goto(c, "release")
  /\ UNCHANGED <<fsVars, procVars, kind, at, todo, held, stateVars, stolen>>

--------------------------------------------------------------------------------
(* releaseLease, innermost lease first.                                      *)

\* owner.json names this session: rm -rf starts.
ReleaseOwned(c, r) ==
  /\ At(c, "release")
  /\ IsLast(r, held[c])
  /\ lock[r] = Home[c]
  /\ at' = [at EXCEPT ![c] = r]
  /\ Goto(c, "unlink")
  /\ UNCHANGED <<fsVars, procVars, kind, todo, held, stateVars, stolen>>

\* owner.json is unreadable or names another session: nothing is removed.
ReleaseForeign(c, r) ==
  /\ At(c, "release")
  /\ IsLast(r, held[c])
  /\ lock[r] # Home[c]
  /\ held' = [held EXCEPT ![c] = @ \ {r}]
  /\ UNCHANGED <<fsVars, procVars, pc, kind, at, todo, stateVars, stolen>>

Unlink(c) ==
  /\ At(c, "unlink")
  /\ lock' = [lock EXCEPT ![at[c]] = IF @ = Free THEN Free ELSE Vacant]
  /\ Goto(c, "rmdir")
  /\ Steals(c, at[c])
  /\ UNCHANGED <<epoch, aged, procVars, kind, at, todo, held, stateVars>>

Rmdir(c) ==
  /\ At(c, "rmdir")
  /\ lock' = [lock EXCEPT ![at[c]] = Free]
  /\ held' = [held EXCEPT ![c] = @ \ {at[c]}]
  /\ Goto(c, "release")
  /\ Steals(c, at[c])
  /\ UNCHANGED <<epoch, aged, procVars, kind, at, todo, stateVars>>

Return(c) ==
  /\ At(c, "release")
  /\ held[c] = {}
  /\ todo' = [todo EXCEPT ![c] = {}]
  /\ Goto(c, "idle")
  /\ UNCHANGED <<fsVars, procVars, kind, at, held, stateVars, stolen>>

--------------------------------------------------------------------------------
(* Processes: death, pid reuse, close and gcMetadata.                        *)

Crash(p) ==
  /\ Crashes
  /\ proc[p] = "up"
  /\ proc' = [proc EXCEPT ![p] = "down"]
  /\ gc' = [gc EXCEPT ![p] = NoFile]
  /\ pc' = [c \in Client |-> IF Home[c] = p THEN "dead" ELSE pc[c]]
  /\ held' = [c \in Client |-> IF Home[c] = p THEN {} ELSE held[c]]
  /\ todo' = [c \in Client |-> IF Home[c] = p THEN {} ELSE todo[c]]
  /\ UNCHANGED <<fsVars, closed, kind, at, stateVars, stolen>>

ReusePid(p) ==
  /\ PidReuse
  /\ proc[p] = "down"
  /\ proc' = [proc EXCEPT ![p] = "reused"]
  /\ UNCHANGED <<fsVars, closed, gc, opVars, stateVars, stolen>>

\* A day passes without a write to the epoch file of r.
Age(r) ==
  /\ Collects
  /\ epoch[r] > 0
  /\ ~aged[r]
  /\ aged' = [aged EXCEPT ![r] = TRUE]
  /\ UNCHANGED <<lock, epoch, procVars, opVars, stateVars, stolen>>

Close(p) ==
  /\ Collects
  /\ proc[p] = "up"
  /\ ~closed[p]
  /\ closed' = [closed EXCEPT ![p] = TRUE]
  /\ UNCHANGED <<fsVars, proc, gc, opVars, stateVars, stolen>>

\* gcMetadata runs once close() has drained the operations it tracks.
Collecting(p) ==
  /\ proc[p] = "up"
  /\ closed[p]
  /\ \A c \in Client : Home[c] = p => pc[c] = "idle"

CollectInspect(p, r) ==
  /\ Collecting(p)
  /\ gc[p] = NoFile
  /\ \/ /\ LooksStale(r)
        /\ gc' = [gc EXCEPT ![p] = <<"lock", r>>]
        /\ rivals' = (rivals \/ Judged(r))
     \/ aged[r] /\ gc' = [gc EXCEPT ![p] = <<"age", r>>] /\ UNCHANGED rivals
  /\ UNCHANGED <<fsVars, proc, closed, opVars, base, version, basis, slow, stolen>>

\* existsSync(lock), after the age of the epoch file was taken.
CollectProbe(p, r) ==
  /\ Collecting(p)
  /\ gc[p] = <<"age", r>>
  /\ gc' = [gc EXCEPT ![p] = IF lock[r] = Free THEN <<"epoch", r>> ELSE NoFile]
  /\ UNCHANGED <<fsVars, proc, closed, opVars, stateVars, stolen>>

CollectLock(p, r) ==
  /\ Collecting(p)
  /\ gc[p] = <<"lock", r>>
  /\ gc' = [gc EXCEPT ![p] = NoFile]
  /\ lock' = [lock EXCEPT ![r] = Free]
  /\ stolen' = (stolen \/ \E d \in Client : r \in held[d])
  /\ UNCHANGED <<epoch, aged, proc, closed, opVars, stateVars>>

CollectEpoch(p, r) ==
  /\ Collecting(p)
  /\ gc[p] = <<"epoch", r>>
  /\ gc' = [gc EXCEPT ![p] = NoFile]
  /\ epoch' = [epoch EXCEPT ![r] = 0]
  /\ aged' = [aged EXCEPT ![r] = FALSE]
  /\ UNCHANGED <<lock, proc, closed, opVars, stateVars, stolen>>

\* The session installs a new scheduler once close() has returned.
Reopen(p) ==
  /\ Collecting(p)
  /\ gc[p] = NoFile
  /\ closed' = [closed EXCEPT ![p] = FALSE]
  /\ UNCHANGED <<fsVars, proc, gc, opVars, stateVars, stolen>>

--------------------------------------------------------------------------------

Acquisition(c) ==
  \/ Mkdir(c) \/ MkdirExists(c) \/ WriteOwner(c) \/ WriteOwnerFails(c)
  \/ Discard(c) \/ InspectStale(c) \/ InspectLive(c) \/ Quarantine(c)
  \/ Retry(c) \/ Timeout(c)
Body(c) ==
  \/ ReadEpoch(c) \/ CheckEpoch(c) \/ GuardHolds(c) \/ GuardFails(c)
  \/ CommitEpoch(c) \/ FinishWork(c)
Releasing(c) ==
  \/ \E r \in Resource : ReleaseOwned(c, r) \/ ReleaseForeign(c, r)
  \/ Unlink(c) \/ Rmdir(c) \/ Return(c)
Collector(p) ==
  \/ \E r \in Resource :
        \/ CollectInspect(p, r) \/ CollectProbe(p, r)
        \/ CollectLock(p, r) \/ CollectEpoch(p, r)
  \/ Reopen(p)

Next ==
  \/ \E c \in Client :
       \/ \E k \in Kind : Start(c, k)
       \/ Acquisition(c) \/ Body(c) \/ Releasing(c)
  \/ \E p \in Process : Crash(p) \/ ReusePid(p) \/ Close(p) \/ Collector(p)
  \/ \E r \in Resource : Age(r)

Spec == Init /\ [][Next]_vars

\* The event loop of a live process runs every continuation it owes.  A
\* directory without owner.json does grow older than a second, and a wait does
\* reach its deadline, but only if the operation keeps coming back to look:
\* both need strong fairness.
Fairness ==
  \A c \in Client :
    /\ WF_vars(Acquisition(c) \/ Body(c) \/ Releasing(c))
    /\ SF_vars(InspectStale(c))
    /\ SF_vars(Timeout(c))
FairSpec == Spec /\ Fairness
--------------------------------------------------------------------------------
(* Properties.                                                               *)

TypeOK ==
  /\ lock \in [Resource -> Process \cup {Free, Vacant}]
  /\ epoch \in [Resource -> Nat]
  /\ aged \in [Resource -> BOOLEAN]
  /\ proc \in [Process -> {"up", "down", "reused"}]
  /\ closed \in [Process -> BOOLEAN]
  /\ gc \in [Process -> GcJob \cup {NoFile}]
  /\ pc \in [Client -> PC]
  /\ kind \in [Client -> Kind]
  /\ at \in [Client -> Resource]
  /\ todo \in [Client -> SUBSET Resource]
  /\ held \in [Client -> SUBSET Resource]
  /\ base \in [Client -> Nat]
  /\ version \in [Resource -> Nat]
  /\ basis \in [Client -> Nat]
  /\ {slow, rivals, stolen} \subseteq BOOLEAN

\* Two operations that need the same lease are never both between their last
\* acquisition and their first release, in whatever processes they run: the
\* scheduler "orders live operations per physical resource".
MutualExclusion ==
  \A c, d \in Client :
    c # d /\ InBody(c) /\ InBody(d) => Leases(c, kind[c]) \cap Leases(d, kind[d]) = {}

\* The same with crashes, slow creators and collectors at work: exclusion can
\* only be lost through the removal of the directory of a live creator.
ExclusionUnlessStolen == ~stolen => MutualExclusion

\* A live creator never loses its directory to another operation or collector.
NothingStolen == ~stolen

\* "Atomic rename prevents a second waiter from deleting a replacement lock
\* created after the stale owner was observed" (quarantineStaleLease): with
\* creators that are quick, no live one loses its directory.  The rename goes
\* by path, so the code does not keep this.
ReplacementKept == ~slow => NothingStolen

\* What it does keep: as long as no two waiters or collectors hold one lease for
\* stale at the same time, a creator that is quick enough never loses the
\* directory of its lease, whatever dies, times out, closes or is collected
\* (removeStaleLease, quarantineStaleLease and gcMetadata).
LiveLeasesKept == ~slow /\ ~rivals => NothingStolen

\* A mutation is dispatched only from a state that already includes every
\* earlier mutation of the resource: "if another write won the race, the stale
\* call is rejected before dispatch".
NoStaleWrite ==
  \A c \in Client :
    pc[c] = "commit" => basis[c] = version[Target[c]]

\* No two operations wait for a lease the other one holds: taking leases in
\* key order leaves no circular wait, whatever sets of keys operations take.
NoCircularWait ==
  LET WaitsFor(c, d) ==
        /\ pc[c] \in {"mkdir", "inspect", "rename", "wait"}
        /\ at[c] \in held[d]
  IN \A c, d \in Client : ~(WaitsFor(c, d) /\ WaitsFor(d, c))

\* While nothing is collected, the epoch a resource has reached is never given
\* up and no two mutations are admitted under the same one.
EpochAdvances ==
  [][\A r \in Resource :
       /\ epoch'[r] \in {epoch[r], epoch[r] + 1}
       /\ version'[r] # version[r] => epoch'[r] = epoch[r] + 1]_vars

\* The lease a dead process left behind is cleared away unless everybody gives
\* up asking for it for ever, however often single waits time out: "an atomic,
\* crash-recoverable lease".
Wanted(r) ==
  \E c \in Client :
    pc[c] \in {"mkdir", "inspect", "rename", "wait"} /\ at[c] = r
AbandonedLeaseReclaimed ==
  \A r \in Resource, p \in Process :
    (lock[r] = p /\ proc[p] # "up") ~> (lock[r] # p \/ []~Wanted(r))

\* Every operation comes to an end, with a result or with an error, while its
\* process lives: no lease can hold it past its deadline.
EveryOperationEnds ==
  \A c \in Client : pc[c] = "mkdir" ~> pc[c] \in {"idle", "dead"}

\* The inductive invariant behind MutualExclusion.  An operation whose next key
\* is taken knows it in `at', has every key of its in held or todo, and never
\* waits for a directory of its own.
Waiting(c) == pc[c] \in {"mkdir", "inspect", "rename", "wait"}
OperationShape ==
  \A c \in Client :
    /\ pc[c] \in {"owner", "discard", "unlink", "rmdir"} => at[c] \in held[c]
    /\ InBody(c) => Leases(c, kind[c]) \subseteq held[c]
    /\ Waiting(c) => todo[c] \cap held[c] = {}
    /\ pc[c] = "owner" => todo[c] \cap held[c] = {at[c]}
    /\ Waiting(c) \/ pc[c] = "owner" =>
         at[c] \in todo[c] /\ Leases(c, kind[c]) \subseteq held[c] \cup todo[c]
    /\ pc[c] \in {"idle", "dead"} => held[c] = {}

\* At the path of a lease somebody holds is the directory that client made:
\* without owner.json while it is being set up or taken down, with its name in
\* it in between.  No two clients made it.
Unnamed(c, r) == at[c] = r /\ pc[c] \in {"owner", "discard", "rmdir"}
PathsAreOwn ==
  \A c \in Client : \A r \in held[c] :
    lock[r] = IF Unnamed(c, r) THEN Vacant ELSE Home[c]
HeldByOne ==
  \A c, d \in Client : c # d => held[c] \cap held[d] = {}

LeaseInv == OperationShape /\ (~stolen => PathsAreOwn /\ HeldByOne)

\* The inductive invariant behind NoCircularWait: an operation asks for the
\* smallest of the keys it lacks, and has none that is larger.
KeysInOrder ==
  \A c \in Client :
    Waiting(c) \/ pc[c] = "owner" =>
      /\ \A s \in todo[c] : at[c] <= s
      /\ \A h \in held[c] : h <= at[c]

\* The one behind NoStaleWrite: the epoch of a resource is the number of its
\* mutations, that of a state the number it includes, and a write that has
\* compared the two finds them equal until it commits.
EpochsCount ==
  /\ \A r \in Resource : epoch[r] = version[r]
  /\ \A c \in Client : base[c] = basis[c]
  /\ \A c \in Client : pc[c] \in {"guard", "commit"} => base[c] = epoch[Target[c]]
FenceInv == (\A p \in Process : ~closed[p]) /\ (~stolen => EpochsCount)

\* Where nothing is stolen the protocol implements exclusive fenced resources.
\* The holder is the live operation whose mkdir made the directory.
Holder == [r \in Resource |->
             IF \E c \in Client : r \in held[c]
             THEN CHOOSE c \in Client : r \in held[c]
             ELSE Free]
Fence == INSTANCE FencedResource WITH holder <- Holder, Nobody <- Free

\* Leases are exclusive and a mutation is admitted only to the holder of the
\* lease and only from the current epoch, across crashes and reclamation by a
\* single waiter.
ImplementsFence == Fence!Spec
================================================================================
