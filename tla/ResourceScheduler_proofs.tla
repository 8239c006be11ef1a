------------------------ MODULE ResourceScheduler_proofs ------------------------
(***************************************************************************)
(* Theorems about ResourceScheduler, for every set of processes, clients   *)
(* and resources, every assignment of targets and claims, and every        *)
(* setting of the fault switches.                                          *)
(***************************************************************************)
EXTENDS ResourceScheduler, TLAPS

USE ClientAssumption, MarkerAssumption

\* The keys an operation of any kind takes are resources, its target first
\* of all (withLeases([resourceKey, ...claims])).
LEMMA LeasesAreResources ==
  ASSUME NEW c \in Client, NEW k \in Kind
  PROVE  Leases(c, k) \subseteq Resource /\ Target[c] \in Leases(c, k)
BY DEF Leases

\* Beginning a lease keeps pc and at well typed, and leads to mkdir or, after
\* close, to the release of what is held.
LEMMA BeginLeaseType ==
  ASSUME TypeOK, NEW c \in Client, NEW S \in SUBSET Resource, BeginLease(c, S)
  PROVE  /\ pc' \in [Client -> PC]
         /\ at' \in [Client -> Resource]
BY DEF BeginLease, TypeOK, Goto, IsFirst, PC

\* The state of the coordinator and of every operation stays well formed.
THEOREM TypeCorrect == Spec => []TypeOK
<1>1. Init => TypeOK
  <2> SUFFICES ASSUME Init PROVE TypeOK
    OBVIOUS
  <2>1. /\ lock \in [Resource -> Process \cup {Free, Vacant}]
        /\ epoch \in [Resource -> Nat] /\ version \in [Resource -> Nat]
        /\ base \in [Client -> Nat] /\ basis \in [Client -> Nat]
    BY DEF Init, Past
  <2>2. /\ aged \in [Resource -> BOOLEAN]
        /\ proc \in [Process -> {"up", "down", "reused"}]
        /\ closed \in [Process -> BOOLEAN]
        /\ gc \in [Process -> GcJob \cup {NoFile}]
        /\ {slow, rivals, stolen} \subseteq BOOLEAN
    BY SwitchAssumption DEF Init
  <2>3. /\ pc \in [Client -> PC] /\ kind \in [Client -> Kind]
        /\ at \in [Client -> Resource]
        /\ todo \in [Client -> SUBSET Resource]
        /\ held \in [Client -> SUBSET Resource]
    BY DEF Init, PC, Kind
  <2>4. QED BY <2>1, <2>2, <2>3 DEF TypeOK
<1>2. TypeOK /\ [Next]_vars => TypeOK'
  <2> SUFFICES ASSUME TypeOK, [Next]_vars PROVE TypeOK'
    OBVIOUS
  <2> USE DEF fsVars, procVars, opVars, stateVars, Goto, At, Steals
  <2>1. ASSUME NEW c \in Client, NEW k \in Kind, Start(c, k) PROVE TypeOK'
    <3>1. Leases(c, k) \in SUBSET Resource
      BY LeasesAreResources
    <3>2. pc' \in [Client -> PC] /\ at' \in [Client -> Resource]
      BY <2>1, <3>1, BeginLeaseType DEF Start
    <3>3. QED BY <2>1, <3>1, <3>2 DEF Start, TypeOK
  <2>2. ASSUME NEW c \in Client, Acquisition(c) PROVE TypeOK'
    <3>1. CASE Mkdir(c)            BY <3>1 DEF Mkdir, TypeOK, PC
    <3>2. CASE MkdirExists(c)      BY <3>2 DEF MkdirExists, TypeOK, PC
    <3>3. CASE WriteOwner(c)
      <4>1. todo[c] \ {at[c]} \in SUBSET Resource
        BY DEF TypeOK
      <4>2. pc' \in [Client -> PC] /\ at' \in [Client -> Resource]
        <5>1. CASE todo[c] = {at[c]}
          BY <3>3, <5>1 DEF WriteOwner, TypeOK, PC
        <5>2. CASE todo[c] # {at[c]}
          BY <3>3, <4>1, <5>2, BeginLeaseType DEF WriteOwner
        <5>3. QED BY <5>1, <5>2
      <4>3. QED BY <3>3, <4>2 DEF WriteOwner, TypeOK
    <3>4. CASE WriteOwnerFails(c)  BY <3>4 DEF WriteOwnerFails, TypeOK, PC
    <3>5. CASE Discard(c)          BY <3>5 DEF Discard, TypeOK, PC
    <3>6. CASE InspectStale(c)
      <4>1. rivals' \in BOOLEAN
        BY Zenon, <3>6 DEF InspectStale, TypeOK, Judged
      <4>2. QED BY <3>6, <4>1 DEF InspectStale, TypeOK, PC
    <3>7. CASE InspectLive(c)      BY <3>7 DEF InspectLive, TypeOK, PC
    <3>8. CASE Quarantine(c)       BY <3>8 DEF Quarantine, TypeOK, PC
    <3>9. CASE Retry(c)            BY <3>9 DEF Retry, TypeOK, PC
    <3>10. CASE Timeout(c)         BY <3>10 DEF Timeout, TypeOK, PC
    <3>11. QED
      BY <2>2, <3>1, <3>2, <3>3, <3>4, <3>5, <3>6, <3>7, <3>8, <3>9, <3>10 DEF Acquisition
  <2>3. ASSUME NEW c \in Client, Body(c) PROVE TypeOK'
    <3>1. CASE ReadEpoch(c)   BY <3>1 DEF ReadEpoch, TypeOK, PC
    <3>2. CASE CheckEpoch(c)  BY <3>2 DEF CheckEpoch, TypeOK, PC
    <3>3. CASE GuardHolds(c)  BY <3>3 DEF GuardHolds, TypeOK, PC
    <3>4. CASE GuardFails(c)  BY <3>4 DEF GuardFails, TypeOK, PC
    <3>5. CASE CommitEpoch(c)
      <4>1. Target[c] \in Resource /\ base[c] \in Nat /\ version[Target[c]] \in Nat
        BY DEF TypeOK
      <4>2. epoch' \in [Resource -> Nat] /\ version' \in [Resource -> Nat]
        BY <3>5, <4>1 DEF CommitEpoch, TypeOK
      <4>3. base' \in [Client -> Nat] /\ basis' \in [Client -> Nat]
        BY <3>5, <4>1 DEF CommitEpoch, TypeOK
      <4>4. QED BY <3>5, <4>2, <4>3 DEF CommitEpoch, TypeOK, PC
    <3>6. CASE FinishWork(c)  BY <3>6 DEF FinishWork, TypeOK, PC
    <3>7. QED BY <2>3, <3>1, <3>2, <3>3, <3>4, <3>5, <3>6 DEF Body
  <2>4. ASSUME NEW c \in Client, Releasing(c) PROVE TypeOK'
    <3>1. CASE \E r \in Resource : ReleaseOwned(c, r)
      BY <3>1 DEF ReleaseOwned, TypeOK, PC
    <3>2. CASE \E r \in Resource : ReleaseForeign(c, r)
      BY <3>2 DEF ReleaseForeign, TypeOK
    <3>3. CASE Unlink(c) BY <3>3 DEF Unlink, TypeOK, PC
    <3>4. CASE Rmdir(c)  BY <3>4 DEF Rmdir, TypeOK, PC
    <3>5. CASE Return(c) BY <3>5 DEF Return, TypeOK, PC
    <3>6. QED BY <2>4, <3>1, <3>2, <3>3, <3>4, <3>5 DEF Releasing
  <2>5. ASSUME NEW p \in Process, Crash(p) \/ ReusePid(p) \/ Close(p) \/ Collector(p)
        PROVE  TypeOK'
    <3>1. CASE Crash(p)    BY <3>1 DEF Crash, TypeOK, PC
    <3>2. CASE ReusePid(p) BY <3>2 DEF ReusePid, TypeOK
    <3>3. CASE Close(p)    BY <3>3 DEF Close, TypeOK
    <3>4. ASSUME NEW r \in Resource, CollectInspect(p, r) PROVE TypeOK'
      <4>1. rivals' \in BOOLEAN
        BY <3>4 DEF CollectInspect, TypeOK
      <4>2. QED BY <3>4, <4>1 DEF CollectInspect, TypeOK, GcJob
    <3>5. ASSUME NEW r \in Resource, CollectProbe(p, r) PROVE TypeOK'
      BY <3>5 DEF CollectProbe, TypeOK, GcJob
    <3>6. ASSUME NEW r \in Resource, CollectLock(p, r) PROVE TypeOK'
      BY <3>6 DEF CollectLock, TypeOK
    <3>7. ASSUME NEW r \in Resource, CollectEpoch(p, r) PROVE TypeOK'
      BY <3>7 DEF CollectEpoch, TypeOK
    <3>8. CASE Reopen(p)   BY <3>8 DEF Reopen, TypeOK
    <3>9. QED
      BY <2>5, <3>1, <3>2, <3>3, <3>4, <3>5, <3>6, <3>7, <3>8 DEF Collector
  <2>6. ASSUME NEW r \in Resource, Age(r) PROVE TypeOK'
    BY <2>6 DEF Age, TypeOK
  <2>7. CASE UNCHANGED vars
    BY <2>7 DEF vars, TypeOK
  <2>8. QED BY <2>1, <2>2, <2>3, <2>4, <2>5, <2>6, <2>7 DEF Next
<1>3. QED BY <1>1, <1>2, PTL DEF Spec

--------------------------------------------------------------------------------
(* Mutual exclusion.                                                         *)

\* Beginning the next lease leaves an operation waiting for a key of the rest,
\* or on its way to releasing what it has.
LEMMA BeginLeaseShape ==
  ASSUME TypeOK, NEW c \in Client, NEW S \in SUBSET Resource, BeginLease(c, S)
  PROVE  \/ pc' = [pc EXCEPT ![c] = "release"] /\ at' = at
         \/ /\ pc' = [pc EXCEPT ![c] = "mkdir"]
            /\ at' = [at EXCEPT ![c] = at'[c]]
            /\ at'[c] \in S
BY DEF BeginLease, TypeOK, Goto, IsFirst

\* Every step keeps the bookkeeping of every operation in order.
LEMMA ShapeStep ==
  ASSUME TypeOK, TypeOK', OperationShape, [Next]_vars
  PROVE  OperationShape'
<1> USE DEF fsVars, procVars, opVars, stateVars, Goto, At, InBody, Waiting, Leases
<1>1. ASSUME NEW c \in Client, NEW k \in Kind, Start(c, k) PROVE OperationShape'
  <2>1. Leases(c, k) \in SUBSET Resource
    BY LeasesAreResources
  <2>2. held[c] = {}
    BY <1>1 DEF Start, OperationShape
  <2>3. BeginLease(c, Leases(c, k))
    BY <1>1 DEF Start
  <2>4. \/ pc' = [pc EXCEPT ![c] = "release"] /\ at' = at
        \/ /\ pc' = [pc EXCEPT ![c] = "mkdir"]
           /\ at' = [at EXCEPT ![c] = at'[c]]
           /\ at'[c] \in Leases(c, k)
    BY ONLY TypeOK, c \in Client, <2>1, <2>3, BeginLeaseShape
  <2>5. /\ todo' = [todo EXCEPT ![c] = Leases(c, k)]
        /\ kind' = [kind EXCEPT ![c] = k] /\ held' = held
    BY <1>1 DEF Start
  <2>6. QED BY <2>2, <2>4, <2>5 DEF OperationShape, TypeOK
<1>2. ASSUME NEW c \in Client, Acquisition(c) PROVE OperationShape'
  <2>1. CASE Mkdir(c)
    BY <2>1 DEF Mkdir, OperationShape, TypeOK
  <2>2. CASE MkdirExists(c)
    BY <2>2 DEF MkdirExists, OperationShape, TypeOK
  <2>3. CASE WriteOwner(c)
    <3>1. CASE todo[c] = {at[c]}
      BY <2>3, <3>1 DEF WriteOwner, OperationShape, TypeOK
    <3>2. CASE todo[c] # {at[c]}
      <4>1. todo[c] \ {at[c]} \in SUBSET Resource
        BY DEF TypeOK
      <4>2. BeginLease(c, todo[c] \ {at[c]})
        BY <2>3, <3>2 DEF WriteOwner
      <4>3. \/ pc' = [pc EXCEPT ![c] = "release"] /\ at' = at
            \/ /\ pc' = [pc EXCEPT ![c] = "mkdir"]
               /\ at' = [at EXCEPT ![c] = at'[c]]
               /\ at'[c] \in todo[c] \ {at[c]}
        BY ONLY TypeOK, c \in Client, <4>1, <4>2, BeginLeaseShape
      <4>4. /\ todo' = [todo EXCEPT ![c] = @ \ {at[c]}]
            /\ pc[c] = "owner" /\ held' = held /\ kind' = kind
        BY <2>3 DEF WriteOwner
      <4>5. QED BY <4>3, <4>4 DEF OperationShape, TypeOK
    <3>3. QED BY <3>1, <3>2
  <2>4. CASE WriteOwnerFails(c)
    BY <2>4 DEF WriteOwnerFails, OperationShape, TypeOK
  <2>5. CASE Discard(c)
    BY <2>5 DEF Discard, OperationShape, TypeOK
  <2>6. CASE InspectStale(c)
    BY <2>6 DEF InspectStale, OperationShape, TypeOK
  <2>7. CASE InspectLive(c)
    BY <2>7 DEF InspectLive, OperationShape, TypeOK
  <2>8. CASE Quarantine(c)
    BY <2>8 DEF Quarantine, OperationShape, TypeOK
  <2>9. CASE Retry(c)
    BY <2>9 DEF Retry, OperationShape, TypeOK
  <2>10. CASE Timeout(c)
    BY <2>10 DEF Timeout, OperationShape, TypeOK
  <2>11. QED
    BY <1>2, <2>1, <2>2, <2>3, <2>4, <2>5, <2>6, <2>7, <2>8, <2>9, <2>10 DEF Acquisition
<1>3. ASSUME NEW c \in Client, Body(c) PROVE OperationShape'
  <2>1. CASE ReadEpoch(c)
    BY <2>1 DEF ReadEpoch, OperationShape, TypeOK
  <2>2. CASE CheckEpoch(c)
    BY <2>2 DEF CheckEpoch, OperationShape, TypeOK
  <2>3. CASE GuardHolds(c)
    BY <2>3 DEF GuardHolds, OperationShape, TypeOK
  <2>4. CASE GuardFails(c)
    BY <2>4 DEF GuardFails, OperationShape, TypeOK
  <2>5. CASE CommitEpoch(c)
    BY <2>5 DEF CommitEpoch, OperationShape, TypeOK
  <2>6. CASE FinishWork(c)
    BY <2>6 DEF FinishWork, OperationShape, TypeOK
  <2>7. QED BY <1>3, <2>1, <2>2, <2>3, <2>4, <2>5, <2>6 DEF Body
<1>4. ASSUME NEW c \in Client, Releasing(c) PROVE OperationShape'
  <2>1. ASSUME NEW r \in Resource, ReleaseOwned(c, r) PROVE OperationShape'
    BY <2>1 DEF ReleaseOwned, IsLast, OperationShape, TypeOK
  <2>2. ASSUME NEW r \in Resource, ReleaseForeign(c, r) PROVE OperationShape'
    BY <2>2 DEF ReleaseForeign, OperationShape, TypeOK
  <2>3. CASE Unlink(c)
    BY <2>3 DEF Unlink, OperationShape, TypeOK
  <2>4. CASE Rmdir(c)
    BY <2>4 DEF Rmdir, OperationShape, TypeOK
  <2>5. CASE Return(c)
    BY <2>5 DEF Return, OperationShape, TypeOK
  <2>6. QED BY <1>4, <2>1, <2>2, <2>3, <2>4, <2>5 DEF Releasing
<1>5. ASSUME NEW p \in Process, Crash(p) PROVE OperationShape'
  BY <1>5 DEF Crash, OperationShape, TypeOK
<1>6. ASSUME UNCHANGED opVars PROVE OperationShape'
  BY <1>6 DEF OperationShape
<1>7. ASSUME NEW p \in Process, ReusePid(p) \/ Close(p) \/ Collector(p)
      PROVE  UNCHANGED opVars
  BY <1>7 DEF ReusePid, Close, Collector, CollectInspect, CollectProbe, CollectLock,
     CollectEpoch, Reopen
<1>8. ASSUME NEW r \in Resource, Age(r) PROVE UNCHANGED opVars
  BY <1>8 DEF Age
<1>9. QED
  BY <1>1, <1>2, <1>3, <1>4, <1>5, <1>6, <1>7, <1>8 DEF Next, vars

\* A step of c that reports no theft works on a path nobody else's directory is at.
LEMMA NothingTaken ==
  ASSUME NEW c \in Client, NEW r, Steals(c, r), ~stolen'
  PROVE  \A d \in Client \ {c} : r \notin held[d]
BY Zenon DEF Steals

\* As long as no directory of a live creator is touched, what is at the path of
\* a held lease is the directory its holder made.
LEMMA OwnStep ==
  ASSUME TypeOK, TypeOK', OperationShape, PathsAreOwn, HeldByOne, [Next]_vars, ~stolen'
  PROVE  PathsAreOwn' /\ HeldByOne'
<1> USE DEF fsVars, procVars, opVars, stateVars, Goto, At, Unnamed
<1> DEFINE Own == PathsAreOwn' /\ HeldByOne'
<1>1. ASSUME NEW c \in Client, NEW k \in Kind, Start(c, k) PROVE Own
  <2>1. held[c] = {} /\ held' = held /\ lock' = lock
    BY <1>1 DEF Start, OperationShape
  <2>2. \A d \in Client \ {c} : pc'[d] = pc[d] /\ at'[d] = at[d]
    BY <1>1 DEF Start, BeginLease, TypeOK
  <2>3. QED BY <2>1, <2>2 DEF PathsAreOwn, HeldByOne
<1>2. ASSUME NEW c \in Client, Acquisition(c) PROVE Own
  <2>1. CASE Mkdir(c)
    <3>1. lock[at[c]] = Free
      BY <2>1 DEF Mkdir
    <3>2. \A d \in Client : \A r \in held[d] : lock[r] # Free
      BY DEF PathsAreOwn
    <3>3. \A d \in Client : at[c] \notin held[d]
      BY <3>1, <3>2
    <3>4. QED BY <2>1, <3>3 DEF Mkdir, PathsAreOwn, HeldByOne, TypeOK
  <2>2. CASE MkdirExists(c)
    BY <2>2 DEF MkdirExists, PathsAreOwn, HeldByOne, TypeOK
  <2>3. CASE WriteOwner(c)
    <3>1. \A d \in Client \ {c} : at[c] \notin held[d] /\ pc'[d] = pc[d] /\ at'[d] = at[d]
      <4>1. \A d \in Client \ {c} : pc'[d] = pc[d] /\ at'[d] = at[d]
        BY <2>3 DEF WriteOwner, BeginLease, TypeOK
      <4>2. Steals(c, at[c])
        BY <2>3 DEF WriteOwner
      <4>3. QED BY <4>1, <4>2, NothingTaken
    <3>2. /\ pc'[c] \in {"body", "mkdir", "release"} /\ pc[c] = "owner"
          /\ held' = held /\ lock' = [lock EXCEPT ![at[c]] = Home[c]]
      BY <2>3 DEF WriteOwner, BeginLease, TypeOK
    <3>3. QED BY <3>1, <3>2 DEF PathsAreOwn, HeldByOne, TypeOK
  <2>4. CASE WriteOwnerFails(c)
    BY <2>4 DEF WriteOwnerFails, PathsAreOwn, HeldByOne, TypeOK
  <2>5. CASE Discard(c)
    <3>1. \A d \in Client \ {c} : at[c] \notin held[d]
      BY <2>5, NothingTaken DEF Discard
    <3>2. QED BY <2>5, <3>1 DEF Discard, PathsAreOwn, HeldByOne, TypeOK
  <2>6. CASE InspectStale(c)
    BY <2>6 DEF InspectStale, PathsAreOwn, HeldByOne, TypeOK
  <2>7. CASE InspectLive(c)
    BY <2>7 DEF InspectLive, PathsAreOwn, HeldByOne, TypeOK
  <2>8. CASE Quarantine(c)
    <3>1. \A d \in Client : at[c] \notin held[d]
      <4>1. at[c] \notin held[c]
        BY <2>8 DEF Quarantine, OperationShape, Waiting
      <4>2. Steals(c, at[c])
        BY <2>8 DEF Quarantine
      <4>3. QED BY <4>1, <4>2, NothingTaken
    <3>2. QED BY <2>8, <3>1 DEF Quarantine, PathsAreOwn, HeldByOne, TypeOK
  <2>9. CASE Retry(c)
    BY <2>9 DEF Retry, PathsAreOwn, HeldByOne, TypeOK
  <2>10. CASE Timeout(c)
    BY <2>10 DEF Timeout, PathsAreOwn, HeldByOne, TypeOK
  <2>11. QED
    BY <1>2, <2>1, <2>2, <2>3, <2>4, <2>5, <2>6, <2>7, <2>8, <2>9, <2>10 DEF Acquisition
<1>3. ASSUME NEW c \in Client, Body(c) PROVE Own
  <2>1. /\ held' = held /\ lock' = lock /\ at' = at
        /\ \E to \in {"work", "guard", "release", "commit"} : pc' = [pc EXCEPT ![c] = to]
        /\ pc[c] \in {"body", "guard", "commit", "work"}
    BY <1>3 DEF Body, ReadEpoch, CheckEpoch, GuardHolds, GuardFails, CommitEpoch, FinishWork
  <2>2. QED BY <2>1 DEF PathsAreOwn, HeldByOne, TypeOK
<1>4. ASSUME NEW c \in Client, Releasing(c) PROVE Own
  <2>1. ASSUME NEW r \in Resource, ReleaseOwned(c, r) PROVE Own
    BY <2>1 DEF ReleaseOwned, PathsAreOwn, HeldByOne, TypeOK
  <2>2. ASSUME NEW r \in Resource, ReleaseForeign(c, r) PROVE Own
    BY <2>2 DEF ReleaseForeign, PathsAreOwn, HeldByOne, TypeOK
  <2>3. CASE Unlink(c)
    <3>1. \A d \in Client \ {c} : at[c] \notin held[d]
      BY <2>3, NothingTaken DEF Unlink
    <3>2. QED BY <2>3, <3>1 DEF Unlink, PathsAreOwn, HeldByOne, OperationShape, TypeOK
  <2>4. CASE Rmdir(c)
    <3>1. \A d \in Client \ {c} : at[c] \notin held[d]
      BY <2>4, NothingTaken DEF Rmdir
    <3>2. QED BY <2>4, <3>1 DEF Rmdir, PathsAreOwn, HeldByOne, TypeOK
  <2>5. CASE Return(c)
    BY <2>5 DEF Return, PathsAreOwn, HeldByOne, TypeOK
  <2>6. QED BY <1>4, <2>1, <2>2, <2>3, <2>4, <2>5 DEF Releasing
<1>5. ASSUME NEW p \in Process, Crash(p) PROVE Own
  BY <1>5 DEF Crash, PathsAreOwn, HeldByOne, TypeOK
<1>6. ASSUME UNCHANGED <<lock, pc, at, held>> PROVE Own
  BY <1>6 DEF PathsAreOwn, HeldByOne
<1>7. ASSUME NEW p \in Process, ReusePid(p) \/ Close(p) \/ Reopen(p)
      PROVE  UNCHANGED <<lock, pc, at, held>>
  BY <1>7 DEF ReusePid, Close, Reopen
<1>8. ASSUME NEW p \in Process, NEW r \in Resource,
             CollectInspect(p, r) \/ CollectProbe(p, r) \/ CollectEpoch(p, r) \/ Age(r)
      PROVE  UNCHANGED <<lock, pc, at, held>>
  BY <1>8 DEF CollectInspect, CollectProbe, CollectEpoch, Age
<1>9. ASSUME NEW p \in Process, NEW r \in Resource, CollectLock(p, r) PROVE Own
  <2>1. \A d \in Client : r \notin held[d]
    BY Zenon, <1>9, ~stolen' DEF CollectLock
  <2>2. lock' = [lock EXCEPT ![r] = Free] /\ UNCHANGED <<pc, at, held>>
    BY <1>9 DEF CollectLock
  <2>3. QED BY <2>1, <2>2 DEF PathsAreOwn, HeldByOne, TypeOK
<1>10. ASSUME NEW r \in Resource, Age(r) PROVE UNCHANGED <<lock, pc, at, held>>
  BY <1>10 DEF Age
<1>11. QED
  BY <1>1, <1>2, <1>3, <1>4, <1>5, <1>6, <1>7, <1>8, <1>9, <1>10 DEF Next, Collector, vars

\* `stolen' is history: once true it stays true.
LEMMA StolenStays ==
  ASSUME TypeOK, [Next]_vars, stolen
  PROVE  stolen'
<1> USE DEF Steals, fsVars, procVars, opVars, stateVars
<1>1. ASSUME NEW c \in Client, Acquisition(c) PROVE stolen'
  BY <1>1 DEF Acquisition, Mkdir, MkdirExists, WriteOwner, WriteOwnerFails, Discard,
     InspectStale, InspectLive, Quarantine, Retry, Timeout
<1>2. ASSUME NEW c \in Client, Body(c) \/ Releasing(c) PROVE stolen'
  BY <1>2 DEF Body, Releasing, ReadEpoch, CheckEpoch, GuardHolds, GuardFails, CommitEpoch,
     FinishWork, ReleaseOwned, ReleaseForeign, Unlink, Rmdir, Return
<1>3. ASSUME NEW c \in Client, NEW k \in Kind, Start(c, k) PROVE stolen'
  BY <1>3 DEF Start
<1>4. ASSUME NEW p \in Process, Crash(p) \/ ReusePid(p) \/ Close(p) \/ Collector(p)
      PROVE  stolen'
  BY <1>4 DEF Crash, ReusePid, Close, Collector, CollectInspect, CollectProbe,
     CollectLock, CollectEpoch, Reopen
<1>5. ASSUME NEW r \in Resource, Age(r) PROVE stolen'
  BY <1>5 DEF Age
<1>6. QED BY <1>1, <1>2, <1>3, <1>4, <1>5 DEF Next, vars

\* The inductive invariant of the lease protocol: with crashes, timeouts, slow
\* creators and collectors in any combination, operations keep their books and
\* every held lease is the holder's own directory unless one was stolen.
THEOREM LeaseInvariant == Spec => []LeaseInv
<1>1. Init => LeaseInv
  BY DEF Init, LeaseInv, OperationShape, PathsAreOwn, HeldByOne, InBody, Waiting
<1>2. TypeOK /\ TypeOK' /\ LeaseInv /\ [Next]_vars => LeaseInv'
  <2> SUFFICES ASSUME TypeOK, TypeOK', LeaseInv, [Next]_vars PROVE LeaseInv'
    OBVIOUS
  <2>1. OperationShape'
    BY ShapeStep DEF LeaseInv
  <2>2. ASSUME ~stolen' PROVE PathsAreOwn' /\ HeldByOne'
    <3>1. ~stolen
      BY <2>2, StolenStays
    <3>2. OperationShape /\ PathsAreOwn /\ HeldByOne
      BY <3>1 DEF LeaseInv
    <3>3. QED BY <2>2, <3>2, OwnStep
  <2>3. QED BY <2>1, <2>2 DEF LeaseInv
<1>3. QED BY <1>1, <1>2, TypeCorrect, PTL DEF Spec

\* Two operations are in the same leases' critical sections only if the
\* directory of a live creator was removed or overwritten before: whatever
\* crashes, times out or is collected.
THEOREM Exclusion == Spec => []ExclusionUnlessStolen
<1>1. LeaseInv => ExclusionUnlessStolen
  BY DEF LeaseInv, OperationShape, HeldByOne, ExclusionUnlessStolen, MutualExclusion
<1>2. QED BY <1>1, LeaseInvariant, PTL

--------------------------------------------------------------------------------
(* Keys are taken in order.                                                  *)

\* The key an operation asks for next is the smallest of the rest.
LEMMA BeginLeaseOrder ==
  ASSUME TypeOK, NEW c \in Client, NEW S \in SUBSET Resource, BeginLease(c, S)
  PROVE  /\ \A d \in Client \ {c} : pc'[d] = pc[d] /\ at'[d] = at[d]
         /\ \/ pc'[c] = "release"
            \/ pc'[c] = "mkdir" /\ at'[c] \in S /\ \A s \in S : at'[c] <= s
BY DEF BeginLease, TypeOK, Goto, IsFirst

\* Every step keeps the keys of every operation in order.
LEMMA OrderStep ==
  ASSUME TypeOK, TypeOK', OperationShape, KeysInOrder, [Next]_vars
  PROVE  KeysInOrder'
<1> USE DEF fsVars, procVars, opVars, stateVars, Goto, At, Waiting
<1>1. ASSUME NEW c \in Client, NEW k \in Kind, Start(c, k) PROVE KeysInOrder'
  <2>1. Leases(c, k) \in SUBSET Resource
    BY LeasesAreResources
  <2>2. held[c] = {}
    BY <1>1 DEF Start, OperationShape
  <2>3. /\ BeginLease(c, Leases(c, k)) /\ held' = held
        /\ todo' = [todo EXCEPT ![c] = Leases(c, k)]
    BY <1>1 DEF Start
  <2>4. /\ \A d \in Client \ {c} : pc'[d] = pc[d] /\ at'[d] = at[d]
        /\ \/ pc'[c] = "release"
           \/ pc'[c] = "mkdir" /\ \A s \in Leases(c, k) : at'[c] <= s
    BY ONLY TypeOK, c \in Client, <2>1, <2>3, BeginLeaseOrder
  <2>5. QED BY <2>2, <2>3, <2>4 DEF KeysInOrder, TypeOK
<1>2. ASSUME NEW c \in Client, Acquisition(c) PROVE KeysInOrder'
  <2>1. CASE Mkdir(c)
    BY <2>1 DEF Mkdir, KeysInOrder, TypeOK
  <2>2. CASE MkdirExists(c) \/ InspectStale(c) \/ InspectLive(c) \/ Quarantine(c) \/ Retry(c)
    <3>1. /\ UNCHANGED <<at, todo, held>> /\ Waiting(c)
          /\ \A d \in Client \ {c} : pc'[d] = pc[d]
      BY <2>2 DEF MkdirExists, InspectStale, InspectLive, Quarantine, Retry, TypeOK
    <3>2. QED BY <3>1 DEF KeysInOrder
  <2>3. CASE WriteOwner(c)
    <3>1. CASE todo[c] = {at[c]}
      BY <2>3, <3>1 DEF WriteOwner, KeysInOrder, TypeOK
    <3>2. CASE todo[c] # {at[c]}
      <4>1. todo[c] \ {at[c]} \in SUBSET Resource
        BY DEF TypeOK
      <4>2. BeginLease(c, todo[c] \ {at[c]})
        BY <2>3, <3>2 DEF WriteOwner
      <4>3. /\ \A d \in Client \ {c} : pc'[d] = pc[d] /\ at'[d] = at[d]
            /\ \/ pc'[c] = "release"
               \/ /\ pc'[c] = "mkdir" /\ at'[c] \in todo[c] \ {at[c]}
                  /\ \A s \in todo[c] \ {at[c]} : at'[c] <= s
        BY ONLY TypeOK, c \in Client, <4>1, <4>2, BeginLeaseOrder
      <4>4. /\ todo' = [todo EXCEPT ![c] = @ \ {at[c]}]
            /\ pc[c] = "owner" /\ held' = held
        BY <2>3 DEF WriteOwner
      <4>5. /\ at[c] \in Nat /\ at'[c] \in Nat
            /\ held[c] \subseteq Nat /\ todo[c] \subseteq Nat
        BY DEF TypeOK
      <4>6. \A h \in held[c] : h <= at[c]
        BY <4>4 DEF KeysInOrder
      <4>7. pc'[c] = "mkdir" => at[c] <= at'[c]
        BY <4>3, <4>4 DEF KeysInOrder
      <4>8. pc'[c] = "mkdir" => \A h \in held'[c] : h <= at'[c]
        BY <4>4, <4>5, <4>6, <4>7
      <4>9. QED BY <4>3, <4>4, <4>8 DEF KeysInOrder, TypeOK
    <3>3. QED BY <3>1, <3>2
  <2>4. CASE WriteOwnerFails(c) \/ Timeout(c)
    BY <2>4 DEF WriteOwnerFails, Timeout, KeysInOrder, TypeOK
  <2>5. CASE Discard(c)
    BY <2>5 DEF Discard, KeysInOrder, TypeOK
  <2>6. QED BY <1>2, <2>1, <2>2, <2>3, <2>4, <2>5 DEF Acquisition
<1>3. ASSUME NEW c \in Client, Body(c) PROVE KeysInOrder'
  <2>1. /\ UNCHANGED <<at, todo, held>>
        /\ \E to \in {"work", "guard", "release", "commit"} : pc' = [pc EXCEPT ![c] = to]
    BY <1>3 DEF Body, ReadEpoch, CheckEpoch, GuardHolds, GuardFails, CommitEpoch, FinishWork
  <2>2. QED BY <2>1 DEF KeysInOrder, TypeOK
<1>4. ASSUME NEW c \in Client, Releasing(c) PROVE KeysInOrder'
  <2>1. pc'[c] \in {"unlink", "release", "rmdir", "idle"}
    BY <1>4 DEF Releasing, ReleaseOwned, ReleaseForeign, Unlink, Rmdir, Return, TypeOK
  <2>2. \A d \in Client \ {c} :
          pc'[d] = pc[d] /\ at'[d] = at[d] /\ todo'[d] = todo[d] /\ held'[d] = held[d]
    BY <1>4 DEF Releasing, ReleaseOwned, ReleaseForeign, Unlink, Rmdir, Return, TypeOK
  <2>3. QED BY <2>1, <2>2 DEF KeysInOrder
<1>5. ASSUME NEW p \in Process, Crash(p) PROVE KeysInOrder'
  BY <1>5 DEF Crash, KeysInOrder, TypeOK
<1>6. ASSUME UNCHANGED opVars PROVE KeysInOrder'
  BY <1>6 DEF KeysInOrder
<1>7. ASSUME NEW p \in Process, ReusePid(p) \/ Close(p) \/ Collector(p)
      PROVE  UNCHANGED opVars
  BY <1>7 DEF ReusePid, Close, Collector, CollectInspect, CollectProbe, CollectLock,
     CollectEpoch, Reopen
<1>8. ASSUME NEW r \in Resource, Age(r) PROVE UNCHANGED opVars
  BY <1>8 DEF Age
<1>9. QED
  BY <1>1, <1>2, <1>3, <1>4, <1>5, <1>6, <1>7, <1>8 DEF Next, vars

\* Operations take their keys in order (withLeases sorts them), whatever fails.
THEOREM KeysAreOrdered == Spec => []KeysInOrder
<1>1. Init => KeysInOrder
  BY DEF Init, KeysInOrder, Waiting
<1>2. TypeOK /\ TypeOK' /\ LeaseInv /\ KeysInOrder /\ [Next]_vars => KeysInOrder'
  BY OrderStep DEF LeaseInv
<1>3. QED BY <1>1, <1>2, TypeCorrect, LeaseInvariant, PTL DEF Spec

\* So no two operations wait for each other, however many keys they claim and
\* whatever crashes, is slow, times out or is collected: who waits for a lease
\* has smaller keys only than the one its holder waits for.
THEOREM NoWaitIsCircular == Spec => []NoCircularWait
<1>1. TypeOK /\ LeaseInv /\ KeysInOrder => NoCircularWait
  <2> SUFFICES ASSUME TypeOK, LeaseInv, KeysInOrder,
                      NEW c \in Client, NEW d \in Client,
                      Waiting(c), at[c] \in held[d], Waiting(d), at[d] \in held[c]
               PROVE  FALSE
    BY DEF NoCircularWait, Waiting
  <2>1. at[c] \in Nat /\ at[d] \in Nat
    BY DEF TypeOK
  <2>2. at[c] = at[d]
    BY <2>1 DEF KeysInOrder
  <2>3. at[c] \in todo[c] /\ at[c] \in held[c]
    BY <2>2 DEF LeaseInv, OperationShape
  <2>4. QED BY <2>3 DEF LeaseInv, OperationShape
<1>2. QED BY <1>1, TypeCorrect, LeaseInvariant, KeysAreOrdered, PTL

--------------------------------------------------------------------------------
(* Epochs fence mutations.                                                   *)

\* An operation that is about to commit is alone with the lease of its target.
LEMMA CommitsAlone ==
  ASSUME TypeOK, LeaseInv, ~stolen,
         NEW c \in Client, InBody(c), NEW d \in Client, InBody(d), c # d
  PROVE  Target[c] # Target[d]
<1>1. /\ Target[c] \in held[c] /\ Target[d] \in held[d]
      /\ held[c] \cap held[d] = {}
  BY DEF LeaseInv, OperationShape, HeldByOne, Leases
<1>2. QED BY <1>1

\* While nothing is collected, epochs go on counting mutations.
LEMMA EpochStep ==
  ASSUME ~Collects, TypeOK, TypeOK', LeaseInv, FenceInv, [Next]_vars
  PROVE  FenceInv'
<1> USE DEF fsVars, procVars, opVars, stateVars, Goto, At
<1>1. ASSUME NEW p \in Process PROVE ~Collector(p) /\ ~Close(p)
  BY <1>1 DEF FenceInv, Collector, CollectInspect, CollectProbe, CollectLock,
     CollectEpoch, Reopen, Collecting, Close
<1>2. ASSUME NEW r \in Resource PROVE ~Age(r)
  BY DEF Age
<1>3. ASSUME stolen' \/ EpochsCount', UNCHANGED closed PROVE FenceInv'
  BY <1>3 DEF FenceInv
<1>4. ASSUME ~stolen' PROVE EpochsCount
  BY <1>4, StolenStays DEF FenceInv
<1>5. ASSUME /\ UNCHANGED <<epoch, version, base, basis, closed>>
             /\ \A c \in Client :
                  pc'[c] \in {"guard", "commit"} => pc[c] \in {"guard", "commit"}
      PROVE  FenceInv'
  BY <1>3, <1>4, <1>5 DEF EpochsCount
<1>6. ASSUME NEW c \in Client, NEW k \in Kind, Start(c, k) PROVE FenceInv'
  BY <1>5, <1>6 DEF Start, BeginLease, TypeOK
<1>7. ASSUME NEW c \in Client, Acquisition(c) PROVE FenceInv'
  <2>1. UNCHANGED <<epoch, version, base, basis, closed>>
    BY <1>7 DEF Acquisition, Mkdir, MkdirExists, WriteOwner, WriteOwnerFails, Discard,
       InspectStale, InspectLive, Quarantine, Retry, Timeout
  <2>2. /\ pc'[c] \notin {"guard", "commit"}
        /\ \A d \in Client \ {c} : pc'[d] = pc[d]
    <3>1. CASE WriteOwner(c)
      BY <3>1 DEF WriteOwner, BeginLease, TypeOK
    <3>2. CASE ~WriteOwner(c)
      BY <1>7, <3>2 DEF Acquisition, Mkdir, MkdirExists, WriteOwnerFails, Discard,
         InspectStale, InspectLive, Quarantine, Retry, Timeout, TypeOK
    <3>3. QED BY <3>1, <3>2
  <2>3. QED BY <1>5, <2>1, <2>2
<1>8. ASSUME NEW c \in Client, Body(c) PROVE FenceInv'
  <2>1. CASE ReadEpoch(c)
    <3>1. /\ UNCHANGED <<epoch, version, closed, stolen>>
          /\ base' = [base EXCEPT ![c] = epoch[Target[c]]]
          /\ basis' = [basis EXCEPT ![c] = version[Target[c]]]
          /\ pc' = [pc EXCEPT ![c] = "work"]
      BY <2>1 DEF ReadEpoch
    <3>2. ASSUME ~stolen' PROVE EpochsCount'
      BY <1>4, <3>1, <3>2 DEF EpochsCount, TypeOK
    <3>3. QED BY <1>3, <3>1, <3>2
  <2>2. CASE CheckEpoch(c)
    <3>1. /\ UNCHANGED <<epoch, version, base, basis, closed, stolen>>
          /\ \A d \in Client \ {c} : pc'[d] = pc[d]
          /\ pc'[c] \in {"guard", "commit"} => base[c] = epoch[Target[c]]
      BY <2>2 DEF CheckEpoch, TypeOK
    <3>2. ASSUME ~stolen' PROVE EpochsCount'
      BY <1>4, <3>1, <3>2 DEF EpochsCount
    <3>3. QED BY <1>3, <3>1, <3>2
  <2>3. CASE GuardHolds(c)
    BY <1>5, <2>3 DEF GuardHolds, TypeOK
  <2>4. CASE GuardFails(c) \/ FinishWork(c)
    BY <1>5, <2>4 DEF GuardFails, FinishWork, TypeOK
  <2>5. CASE CommitEpoch(c)
    <3> DEFINE r == Target[c]
    <3>1. /\ epoch' = [epoch EXCEPT ![r] = base[c] + 1]
          /\ version' = [version EXCEPT ![r] = @ + 1]
          /\ base' = [base EXCEPT ![c] = @ + 1]
          /\ basis' = [basis EXCEPT ![c] = version[r] + 1]
          /\ pc' = [pc EXCEPT ![c] = "work"] /\ pc[c] = "commit"
          /\ UNCHANGED <<closed, stolen>>
      BY <2>5 DEF CommitEpoch
    <3>2. ASSUME ~stolen' PROVE EpochsCount'
      <4>1. EpochsCount /\ ~stolen
        BY <1>4, <3>1, <3>2
      <4>2. r \in Resource /\ base[c] = epoch[r] /\ epoch[r] = version[r]
        BY <3>1, <4>1 DEF EpochsCount
      <4>3. \A q \in Resource : epoch'[q] = version'[q]
        BY <3>1, <4>1, <4>2 DEF EpochsCount, TypeOK
      <4>4. \A d \in Client : base'[d] = basis'[d]
        BY <3>1, <4>1, <4>2 DEF EpochsCount, TypeOK
      <4>5. ASSUME NEW d \in Client, pc'[d] \in {"guard", "commit"}
            PROVE  base'[d] = epoch'[Target[d]]
        <5>1. d # c /\ pc[d] \in {"guard", "commit"}
          BY <3>1, <4>5 DEF TypeOK
        <5>2. Target[d] # r
          BY <3>1, <4>1, <5>1, CommitsAlone DEF InBody
        <5>3. base[d] = epoch[Target[d]]
          BY <4>1, <5>1 DEF EpochsCount
        <5>4. QED BY <3>1, <5>1, <5>2, <5>3 DEF TypeOK
      <4>6. QED BY <4>3, <4>4, <4>5 DEF EpochsCount
    <3>3. QED BY <1>3, <3>1, <3>2
  <2>6. QED BY <1>8, <2>1, <2>2, <2>3, <2>4, <2>5 DEF Body
<1>9. ASSUME NEW c \in Client, Releasing(c) PROVE FenceInv'
  BY <1>5, <1>9 DEF Releasing, ReleaseOwned, ReleaseForeign, Unlink, Rmdir, Return, TypeOK
<1>10. ASSUME NEW p \in Process, Crash(p) \/ ReusePid(p) PROVE FenceInv'
  BY <1>5, <1>10 DEF Crash, ReusePid, TypeOK
<1>11. CASE UNCHANGED vars
  BY <1>5, <1>11 DEF vars
<1>12. QED
  BY <1>1, <1>2, <1>6, <1>7, <1>8, <1>9, <1>10, <1>11 DEF Next

\* Unless a directory was stolen from its holder, epochs count mutations.
THEOREM FenceInvariant ==
  ASSUME ~Collects
  PROVE  Spec => []FenceInv
<1>1. Init => FenceInv
  BY DEF Init, FenceInv, EpochsCount
<1>2. TypeOK /\ TypeOK' /\ LeaseInv /\ FenceInv /\ [Next]_vars => FenceInv'
  BY EpochStep
<1>3. QED BY <1>1, <1>2, TypeCorrect, LeaseInvariant, PTL DEF Spec

\* "If another write won the race, the stale call is rejected before dispatch":
\* until epoch files are collected or a directory is stolen, a mutation starts
\* from a state that includes every earlier one (writeGuarded).
THEOREM StaleWritesRejected ==
  ASSUME ~Collects
  PROVE  Spec => [](NothingStolen => NoStaleWrite)
<1>1. FenceInv => (NothingStolen => NoStaleWrite)
  BY DEF FenceInv, EpochsCount, NothingStolen, NoStaleWrite
<1>2. QED BY <1>1, FenceInvariant, PTL

\* Only a commit moves an epoch, and by one.
LEMMA EpochMoves ==
  ASSUME ~Collects, TypeOK, FenceInv, ~stolen, [Next]_vars, NEW r \in Resource
  PROVE  /\ epoch'[r] \in {epoch[r], epoch[r] + 1}
         /\ version'[r] # version[r] => epoch'[r] = epoch[r] + 1
<1> USE DEF fsVars, procVars, opVars, stateVars
<1>1. ASSUME NEW c \in Client, CommitEpoch(c)
      PROVE  /\ epoch'[r] \in {epoch[r], epoch[r] + 1}
             /\ version'[r] # version[r] => epoch'[r] = epoch[r] + 1
  <2>1. base[c] = epoch[Target[c]]
    BY <1>1 DEF CommitEpoch, At, FenceInv, EpochsCount
  <2>2. QED BY <1>1, <2>1 DEF CommitEpoch, TypeOK
<1>2. CASE UNCHANGED <<epoch, version>>
  BY <1>2
<1>3. ASSUME NEW c \in Client, NEW k \in Kind,
             Start(c, k) \/ Acquisition(c) \/ Releasing(c)
      PROVE  UNCHANGED <<epoch, version>>
  BY <1>3 DEF Start, Acquisition, Mkdir, MkdirExists, WriteOwner, WriteOwnerFails, Discard,
     InspectStale, InspectLive, Quarantine, Retry, Timeout,
     Releasing, ReleaseOwned, ReleaseForeign, Unlink, Rmdir, Return
<1>4. ASSUME NEW c \in Client, Body(c), ~CommitEpoch(c) PROVE UNCHANGED <<epoch, version>>
  BY <1>4 DEF Body, ReadEpoch, CheckEpoch, GuardHolds, GuardFails, FinishWork
<1>5. ASSUME NEW p \in Process PROVE ~Collector(p) /\ ~Close(p)
  BY <1>5 DEF FenceInv, Collector, CollectInspect, CollectProbe, CollectLock,
     CollectEpoch, Reopen, Collecting, Close
<1>6. ASSUME NEW p \in Process, Crash(p) \/ ReusePid(p) PROVE UNCHANGED <<epoch, version>>
  BY <1>6 DEF Crash, ReusePid
<1>7. ASSUME NEW q \in Resource PROVE ~Age(q)
  BY DEF Age
<1>8. CASE UNCHANGED vars
  BY <1>2, <1>8 DEF vars
<1>9. QED BY Zenon, <1>1, <1>2, <1>3, <1>4, <1>5, <1>6, <1>7, <1>8 DEF Next, Kind

\* No two mutations are admitted under one epoch, and none is given up
\* (writeEpoch(epoch + 1) before the dispatch).
THEOREM EpochsAdvance ==
  ASSUME ~Collects
  PROVE  Spec /\ []NothingStolen => EpochAdvances
<1>1. TypeOK /\ FenceInv /\ NothingStolen /\ [Next]_vars
      => [\A r \in Resource :
            /\ epoch'[r] \in {epoch[r], epoch[r] + 1}
            /\ version'[r] # version[r] => epoch'[r] = epoch[r] + 1]_vars
  BY EpochMoves DEF NothingStolen
<1>2. QED BY <1>1, TypeCorrect, FenceInvariant, PTL DEF Spec, EpochAdvances

--------------------------------------------------------------------------------
(* The refinement of FencedResource.                                         *)

\* The holder of a resource is the client that has its lease.
LEMMA HolderIs ==
  ASSUME HeldByOne
  PROVE  /\ \A c \in Client, r \in Resource : r \in held[c] => Holder[r] = c
         /\ \A r \in Resource : (\A c \in Client : r \notin held[c]) => Holder[r] = Free
<1>1. ASSUME NEW c \in Client, NEW r \in Resource, r \in held[c] PROVE Holder[r] = c
  <2>1. Holder[r] = CHOOSE d \in Client : r \in held[d]
    BY <1>1 DEF Holder
  <2>2. Holder[r] \in Client /\ r \in held[Holder[r]]
    BY <1>1, <2>1
  <2>3. QED BY <1>1, <2>2 DEF HeldByOne
<1>2. ASSUME NEW r \in Resource, \A c \in Client : r \notin held[c] PROVE Holder[r] = Free
  BY <1>2 DEF Holder
<1>3. QED BY <1>1, <1>2

\* The same of the next state.
LEMMA NextHolderIs ==
  ASSUME HeldByOne'
  PROVE  /\ \A c \in Client, r \in Resource : r \in held'[c] => Holder'[r] = c
         /\ \A r \in Resource : (\A c \in Client : r \notin held'[c]) => Holder'[r] = Free
<1>1. ASSUME NEW c \in Client, NEW r \in Resource, r \in held'[c] PROVE Holder'[r] = c
  <2>1. Holder'[r] = CHOOSE d \in Client : r \in held'[d]
    BY <1>1 DEF Holder
  <2>2. Holder'[r] \in Client /\ r \in held'[Holder'[r]]
    BY <1>1, <2>1
  <2>3. QED BY <1>1, <2>2 DEF HeldByOne
<1>2. ASSUME NEW r \in Resource, \A c \in Client : r \notin held'[c] PROVE Holder'[r] = Free
  BY <1>2 DEF Holder
<1>3. QED BY <1>1, <1>2

\* A step that only gives leases up drops them.
LEMMA GivingUpDrops ==
  ASSUME HeldByOne, HeldByOne', UNCHANGED <<epoch, base>>,
         \A c \in Client : held'[c] \subseteq held[c]
  PROVE  \E R \in SUBSET Resource : Fence!Drop(R)
<1> DEFINE R == {r \in Resource : \E c \in Client : r \in held[c] /\ r \notin held'[c]}
<1>1. ASSUME NEW r \in Resource
      PROVE  Holder'[r] = IF r \in R THEN Free ELSE Holder[r]
  <2>1. CASE r \in R
    <3>1. PICK c \in Client : r \in held[c] /\ r \notin held'[c]
      BY <2>1
    <3>2. \A d \in Client : r \notin held'[d]
      BY <3>1 DEF HeldByOne
    <3>3. QED BY <2>1, <3>2, NextHolderIs
  <2>2. CASE r \notin R
    <3>1. CASE \E c \in Client : r \in held[c]
      <4>1. PICK c \in Client : r \in held[c] /\ r \in held'[c]
        BY <2>2, <3>1
      <4>2. QED BY <2>2, <4>1, HolderIs, NextHolderIs
    <3>2. CASE \A c \in Client : r \notin held[c]
      BY <2>2, <3>2, HolderIs, NextHolderIs
    <3>3. QED BY <3>1, <3>2
  <2>3. QED BY <2>1, <2>2
<1>2. Holder' = [r \in Resource |-> IF r \in R THEN Free ELSE Holder[r]]
  BY <1>1 DEF Holder
<1>3. R \in SUBSET Resource /\ Fence!Drop(R)
  BY <1>2 DEF Fence!Drop
<1>4. QED BY <1>3

\* Every step takes one lease, drops leases, observes, mutates, or is one that a
\* caller of the scheduler does not see.
LEMMA FenceStep ==
  ASSUME ~Collects, TypeOK, TypeOK', LeaseInv, LeaseInv', FenceInv, ~stolen, ~stolen',
         [Next]_vars
  PROVE  [Fence!Next]_(Fence!vars)
<1> USE DEF fsVars, procVars, opVars, stateVars, Goto, At
<1>1. OperationShape /\ PathsAreOwn /\ HeldByOne /\ HeldByOne' /\ EpochsCount
  BY DEF LeaseInv, FenceInv
<1>2. ASSUME UNCHANGED <<held, epoch, base>> PROVE UNCHANGED Fence!vars
  BY <1>2 DEF Fence!vars, Holder
<1>3. ASSUME UNCHANGED <<epoch, base>>, \A c \in Client : held'[c] \subseteq held[c]
      PROVE  Fence!Next
  BY <1>1, <1>3, GivingUpDrops DEF Fence!Next
<1>4. ASSUME NEW c \in Client, InBody(c) PROVE Holder[Target[c]] = c
  <2>1. Target[c] \in held[c] /\ Target[c] \in Resource
    BY <1>1, <1>4 DEF OperationShape, Leases
  <2>2. QED BY <1>1, <2>1, HolderIs
<1>5. ASSUME NEW p \in Process PROVE ~Collector(p) /\ ~Close(p)
  BY <1>5 DEF FenceInv, Collector, CollectInspect, CollectProbe, CollectLock,
     CollectEpoch, Reopen, Collecting, Close
<1>6. ASSUME NEW r \in Resource PROVE ~Age(r)
  BY DEF Age
<1>7. ASSUME NEW c \in Client, NEW k \in Kind, Start(c, k) PROVE UNCHANGED Fence!vars
  BY <1>2, <1>7 DEF Start
<1>8. ASSUME NEW c \in Client, Mkdir(c) PROVE Fence!Next
  <2> DEFINE r == at[c]
  <2>1. /\ r \in Resource /\ lock[r] = Free
        /\ held' = [held EXCEPT ![c] = @ \cup {r}] /\ UNCHANGED <<epoch, base>>
    BY <1>8 DEF Mkdir, TypeOK
  <2>2. \A d \in Client : r \notin held[d]
    BY <1>1, <2>1 DEF PathsAreOwn
  <2>3. Holder[r] = Free
    BY <1>1, <2>1, <2>2, HolderIs
  <2>4. ASSUME NEW q \in Resource
        PROVE  Holder'[q] = IF q = r THEN c ELSE Holder[q]
    <3>1. CASE q = r
      <4>1. r \in held'[c]
        BY <2>1 DEF TypeOK
      <4>2. QED BY <1>1, <2>1, <3>1, <4>1, NextHolderIs
    <3>2. CASE q # r
      <4>1. \A d \in Client : q \in held'[d] <=> q \in held[d]
        BY <2>1, <3>2 DEF TypeOK
      <4>2. CASE \E d \in Client : q \in held[d]
        <5>1. PICK d \in Client : q \in held[d]
          BY <4>2
        <5>2. q \in held'[d]
          BY <4>1, <5>1
        <5>3. Holder[q] = d
          BY <1>1, <5>1, HolderIs
        <5>4. Holder'[q] = d
          BY <1>1, <5>2, NextHolderIs
        <5>5. QED BY <3>2, <5>3, <5>4
      <4>3. CASE \A d \in Client : q \notin held[d]
        <5>1. \A d \in Client : q \notin held'[d]
          BY <4>1, <4>3
        <5>2. Holder[q] = Free
          BY <1>1, <4>3, HolderIs
        <5>3. Holder'[q] = Free
          BY <1>1, <5>1, NextHolderIs
        <5>4. QED BY <3>2, <5>2, <5>3
      <4>4. QED BY <4>2, <4>3
    <3>3. QED BY <3>1, <3>2
  <2>5. Holder' = [Holder EXCEPT ![r] = c]
    BY <2>1, <2>4 DEF Holder
  <2>6. Fence!Take(c, r)
    BY <2>1, <2>3, <2>5 DEF Fence!Take
  <2>7. QED BY <2>1, <2>6 DEF Fence!Next
<1>9. ASSUME NEW c \in Client, Acquisition(c) PROVE [Fence!Next]_(Fence!vars)
  <2>1. CASE Discard(c)
    BY <1>3, <2>1 DEF Discard, TypeOK
  <2>2. CASE ~Mkdir(c) /\ ~Discard(c)
    BY <1>2, <1>9, <2>2 DEF Acquisition, MkdirExists, WriteOwner, WriteOwnerFails,
       InspectStale, InspectLive, Quarantine, Retry, Timeout
  <2>3. QED BY <1>8, <2>1, <2>2
<1>10. ASSUME NEW c \in Client, Body(c) PROVE [Fence!Next]_(Fence!vars)
  <2>1. Holder[Target[c]] = c
    BY <1>4, <1>10 DEF Body, ReadEpoch, CheckEpoch, GuardHolds, GuardFails, CommitEpoch,
       FinishWork, InBody
  <2>2. CASE ReadEpoch(c)
    <3>1. Holder' = Holder
      BY <2>2 DEF ReadEpoch, Holder
    <3>2. Fence!Observe(c)
      BY <2>1, <2>2, <3>1 DEF ReadEpoch, Fence!Observe
    <3>3. QED BY <3>2 DEF Fence!Next
  <2>3. CASE CommitEpoch(c)
    <3>1. Holder' = Holder
      BY <2>3 DEF CommitEpoch, Holder
    <3>2. base[c] = epoch[Target[c]]
      BY <1>1, <2>3 DEF CommitEpoch, EpochsCount
    <3>3. Fence!Mutate(c)
      BY <2>1, <2>3, <3>1, <3>2 DEF CommitEpoch, Fence!Mutate
    <3>4. QED BY <3>3 DEF Fence!Next
  <2>4. CASE CheckEpoch(c) \/ GuardHolds(c) \/ GuardFails(c) \/ FinishWork(c)
    BY <1>2, <2>4 DEF CheckEpoch, GuardHolds, GuardFails, FinishWork
  <2>5. QED BY <1>10, <2>2, <2>3, <2>4 DEF Body
<1>11. ASSUME NEW c \in Client, Releasing(c) PROVE [Fence!Next]_(Fence!vars)
  <2>1. UNCHANGED <<epoch, base>>
    BY <1>11 DEF Releasing, ReleaseOwned, ReleaseForeign, Unlink, Rmdir, Return
  <2>2. \A d \in Client : held'[d] \subseteq held[d]
    BY <1>11 DEF Releasing, ReleaseOwned, ReleaseForeign, Unlink, Rmdir, Return, TypeOK
  <2>3. QED BY <1>3, <2>1, <2>2
<1>12. ASSUME NEW p \in Process, Crash(p) PROVE [Fence!Next]_(Fence!vars)
  <2>1. UNCHANGED <<epoch, base>> /\ \A d \in Client : held'[d] \subseteq held[d]
    BY <1>12 DEF Crash, TypeOK
  <2>2. QED BY <1>3, <2>1
<1>13. ASSUME NEW p \in Process, ReusePid(p) PROVE UNCHANGED Fence!vars
  BY <1>2, <1>13 DEF ReusePid
<1>14. CASE UNCHANGED vars
  BY <1>2, <1>14 DEF vars
<1>15. QED
  BY <1>5, <1>6, <1>7, <1>9, <1>10, <1>11, <1>12, <1>13, <1>14 DEF Next

\* In every behaviour in which no directory is stolen, crashes and timeouts
\* included, the scheduler implements exclusive fenced resources: leases are
\* taken by one client at a time, and mutations admitted from the current epoch
\* to the holder only.
THEOREM FenceImplemented ==
  ASSUME ~Collects
  PROVE  Spec /\ []NothingStolen => ImplementsFence
<1>1. Init => Fence!Init
  BY DEF Init, Fence!Init, Holder
<1>2. /\ TypeOK /\ TypeOK' /\ LeaseInv /\ LeaseInv' /\ FenceInv
      /\ NothingStolen /\ NothingStolen' /\ [Next]_vars
      => [Fence!Next]_(Fence!vars)
  BY FenceStep DEF NothingStolen
<1>3. QED
  BY <1>1, <1>2, TypeCorrect, LeaseInvariant, FenceInvariant, PTL
  DEF Spec, ImplementsFence, Fence!Spec

--------------------------------------------------------------------------------
(* Quick creators, judged by one at a time.                                  *)

\* A dead process holds nothing.
Living == \A c \in Client : held[c] # {} => Up(c)

\* At most one waiter or collector is about to move the directory of a lease
\* away, and while it is there is one, and nobody alive holds the lease.
OneJudge ==
  /\ \A c, d \in Client : pc[c] = "rename" /\ pc[d] = "rename" /\ at[c] = at[d] => c = d
  /\ \A p, q \in Process, r \in Resource : gc[p] = <<"lock", r>> /\ gc[q] = <<"lock", r>> => p = q
  /\ \A c \in Client, p \in Process : pc[c] = "rename" => gc[p] # <<"lock", at[c]>>
JudgedIsDead ==
  \A r \in Resource : Judged(r) => lock[r] # Free /\ \A d \in Client : r \notin held[d]
Careful == ~stolen /\ OneJudge /\ JudgedIsDead

\* What is left by a death is nobody's.
LEMMA LivingStep ==
  ASSUME TypeOK, TypeOK', Living, OperationShape, [Next]_vars
  PROVE  Living'
<1> USE DEF fsVars, procVars, opVars, stateVars, Goto, At, Up
<1>1. ASSUME NEW c \in Client, proc' = proc, Up(c), \A d \in Client \ {c} : held'[d] = held[d]
      PROVE  Living'
  BY <1>1 DEF Living
<1>2. ASSUME NEW c \in Client, NEW k \in Kind, Start(c, k) PROVE Living'
  BY <1>2, <1>1 DEF Start
<1>3. ASSUME NEW c \in Client, Acquisition(c) PROVE Living'
  <2>1. proc' = proc /\ Up(c)
    BY <1>3 DEF Acquisition, Mkdir, MkdirExists, WriteOwner, WriteOwnerFails, Discard,
                InspectStale, InspectLive, Quarantine, Retry, Timeout
  <2>2. \A d \in Client \ {c} : held'[d] = held[d]
    BY <1>3 DEF Acquisition, Mkdir, MkdirExists, WriteOwner, WriteOwnerFails, Discard,
                InspectStale, InspectLive, Quarantine, Retry, Timeout, TypeOK
  <2>3. QED BY <2>1, <2>2, <1>1
<1>4. ASSUME NEW c \in Client, Body(c) PROVE Living'
  BY <1>4, <1>1 DEF Body, ReadEpoch, CheckEpoch, GuardHolds, GuardFails, CommitEpoch, FinishWork
<1>5. ASSUME NEW c \in Client, Releasing(c) PROVE Living'
  <2>1. proc' = proc /\ Up(c) /\ \A d \in Client \ {c} : held'[d] = held[d]
    BY <1>5 DEF Releasing, ReleaseOwned, ReleaseForeign, Unlink, Rmdir, Return, TypeOK
  <2>2. QED BY <2>1, <1>1
<1>6. ASSUME NEW p \in Process, Crash(p) PROVE Living'
  BY <1>6 DEF Crash, Living, TypeOK
<1>7. ASSUME NEW p \in Process, ReusePid(p) PROVE Living'
  BY <1>7 DEF ReusePid, Living, TypeOK
<1>8. ASSUME NEW p \in Process, Close(p) \/ Collector(p) PROVE Living'
  BY <1>8 DEF Close, Collector, CollectInspect, CollectProbe, CollectLock, CollectEpoch,
              Reopen, Living
<1>9. ASSUME NEW r \in Resource, Age(r) PROVE Living'
  BY <1>9 DEF Age, Living
<1>10. CASE UNCHANGED vars
  BY <1>10 DEF vars, Living
<1>11. QED BY <1>2, <1>3, <1>4, <1>5, <1>6, <1>7, <1>8, <1>9, <1>10 DEF Next

\* What looks stale is there, and nobody alive holds it.
LEMMA StaleIsDead ==
  ASSUME ~slow, TypeOK, Living, PathsAreOwn, NEW r \in Resource, LooksStale(r)
  PROVE  lock[r] # Free /\ \A d \in Client : r \notin held[d]
<1>1. CASE OwnerDead(r)
  <2>1. lock[r] \in Process /\ proc[lock[r]] = "down"
    BY <1>1 DEF OwnerDead
  <2>2. ASSUME NEW d \in Client, r \in held[d] PROVE FALSE
    <3>1. lock[r] = Home[d]
      BY <2>1, <2>2 DEF PathsAreOwn
    <3>2. Up(d)
      BY <2>2 DEF Living
    <3>3. QED BY <2>1, <3>1, <3>2 DEF Up
  <2>3. QED BY <2>1, <2>2
<1>2. CASE Overdue(r)
  <2>1. lock[r] = Vacant /\ \A d \in Client : Up(d) => r \notin held[d]
    BY Zenon, <1>2, ~slow DEF Overdue
  <2>2. QED BY <2>1 DEF Living
<1>3. QED BY <1>1, <1>2 DEF LooksStale

\* A client that works on its own directory steals nothing.
LEMMA OwnIsNotStolen ==
  ASSUME HeldByOne, ~stolen, NEW c \in Client, NEW r \in held[c], Steals(c, r)
  PROVE  ~stolen'
<1>1. ~\E d \in Client \ {c} : r \in held[d]
  BY DEF HeldByOne
<1>2. QED BY Zenon, <1>1, ~stolen DEF Steals

\* Verdicts that are only given up, on directories that stay what they are or
\* are not judged, leave the rest as it was.
LEMMA JudgesGiveUp ==
  ASSUME OneJudge, JudgedIsDead, ~stolen',
         \A c \in Client : pc'[c] = "rename" => pc[c] = "rename" /\ at'[c] = at[c],
         \A p \in Process, r \in Resource : gc'[p] = <<"lock", r>> => gc[p] = <<"lock", r>>,
         TypeOK, TypeOK',
         \A r \in Resource : Judged(r) =>
           \/ /\ lock[r] # Free => lock'[r] # Free
              /\ \A d \in Client : r \in held'[d] => r \in held[d]
           \/ ~Judged(r)'
  PROVE  Careful'
<1>1. \A r \in Resource : Judged(r)' => Judged(r)
  BY DEF Judged, TypeOK
<1>2. JudgedIsDead'
  BY <1>1 DEF JudgedIsDead
<1>3. OneJudge'
  <2>1. ASSUME NEW c \in Client, NEW d \in Client,
               pc'[c] = "rename", pc'[d] = "rename", at'[c] = at'[d] PROVE c = d
    BY <2>1 DEF OneJudge
  <2>2. ASSUME NEW p \in Process, NEW q \in Process, NEW r \in Resource,
               gc'[p] = <<"lock", r>>, gc'[q] = <<"lock", r>> PROVE p = q
    BY <2>2 DEF OneJudge
  <2>3. ASSUME NEW c \in Client, NEW p \in Process, pc'[c] = "rename" PROVE gc'[p] # <<"lock", at'[c]>>
    <3>1. at[c] \in Resource /\ gc[p] # <<"lock", at[c]>> /\ at'[c] = at[c]
      BY <2>3 DEF OneJudge, TypeOK
    <3>2. QED BY <3>1
  <2>4. QED BY <2>1, <2>2, <2>3 DEF OneJudge
<1>4. QED BY <1>2, <1>3 DEF Careful

\* Care lasts, unless two judge one lease at once.
LEMMA CarefulStep ==
  ASSUME ~slow, ~rivals', TypeOK, TypeOK', LeaseInv, Living, Careful, [Next]_vars
  PROVE  Careful'
<1> USE DEF fsVars, procVars, opVars, stateVars, Goto, At
<1>0. OperationShape /\ PathsAreOwn /\ HeldByOne /\ ~stolen /\ OneJudge /\ JudgedIsDead
  BY DEF LeaseInv, Careful
<1>1. ASSUME NEW c \in Client, NEW k \in Kind, Start(c, k) PROVE Careful'
  <2>1. \A d \in Client : pc'[d] = "rename" => pc[d] = "rename" /\ at'[d] = at[d]
    BY <1>1 DEF Start, BeginLease, TypeOK
  <2>2. UNCHANGED <<lock, held, gc, stolen>>
    BY <1>1 DEF Start
  <2>3. QED BY <1>0, <2>1, <2>2, JudgesGiveUp
\* a client that works on a directory of its own, which nobody has judged
<1>2. ASSUME NEW c \in Client, at[c] \in held[c], Steals(c, at[c]), gc' = gc,
             pc[c] # "rename", pc'[c] # "rename",
             \A d \in Client \ {c} : pc'[d] = pc[d] /\ at'[d] = at[d],
             \A d \in Client : held'[d] \subseteq held[d],
             \A r \in Resource \ {at[c]} : lock'[r] = lock[r]
      PROVE  Careful'
  <2>1. ~stolen'
    BY <1>0, <1>2, OwnIsNotStolen
  <2>2. at[c] \in Resource /\ ~Judged(at[c])
    BY <1>0, <1>2 DEF JudgedIsDead, TypeOK
  <2>3. \A d \in Client : pc'[d] = "rename" => pc[d] = "rename" /\ at'[d] = at[d]
    BY <1>2
  <2>4. QED BY <1>0, <1>2, <2>1, <2>2, <2>3, JudgesGiveUp
<1>3. ASSUME NEW c \in Client, Acquisition(c) PROVE Careful'
  <2>1. CASE Mkdir(c)
    <3>1. at[c] \in Resource /\ ~Judged(at[c])
      BY <1>0, <2>1 DEF Mkdir, JudgedIsDead, TypeOK
    <3>2. \A d \in Client : pc'[d] = "rename" => pc[d] = "rename" /\ at'[d] = at[d]
      BY <2>1 DEF Mkdir, TypeOK
    <3>3. \A r \in Resource \ {at[c]} : lock'[r] = lock[r] /\ \A d \in Client : r \in held'[d] => r \in held[d]
      BY <2>1 DEF Mkdir, TypeOK
    <3>4. gc' = gc /\ stolen' = stolen
      BY <2>1 DEF Mkdir
    <3>5. QED BY <1>0, <3>1, <3>2, <3>3, <3>4, JudgesGiveUp
  <2>2. CASE MkdirExists(c) \/ WriteOwnerFails(c) \/ InspectLive(c) \/ Retry(c) \/ Timeout(c)
    <3>1. UNCHANGED <<lock, held, gc, at, stolen>>
      BY <2>2 DEF MkdirExists, WriteOwnerFails, InspectLive, Retry, Timeout
    <3>2. \E to \in PC \ {"rename"} : pc' = [pc EXCEPT ![c] = to]
      BY <2>2 DEF MkdirExists, WriteOwnerFails, InspectLive, Retry, Timeout, PC
    <3>3. \A d \in Client : pc'[d] = "rename" => pc[d] = "rename"
      BY <3>2 DEF TypeOK
    <3>4. QED BY <1>0, <3>1, <3>3, JudgesGiveUp
  <2>3. CASE WriteOwner(c)
    <3>1. at[c] \in held[c] /\ pc[c] # "rename" /\ Steals(c, at[c])
      BY <2>3, <1>0 DEF WriteOwner, OperationShape
    <3>2. pc'[c] # "rename" /\ \A d \in Client \ {c} : pc'[d] = pc[d] /\ at'[d] = at[d]
      BY <2>3 DEF WriteOwner, BeginLease, TypeOK
    <3>3. UNCHANGED <<held, gc>> /\ \A r \in Resource \ {at[c]} : lock'[r] = lock[r]
      BY <2>3 DEF WriteOwner, TypeOK
    <3>4. QED BY <3>1, <3>2, <3>3, <1>2
  <2>4. CASE Discard(c)
    <3>1. at[c] \in held[c] /\ pc[c] # "rename" /\ Steals(c, at[c])
      BY <2>4, <1>0 DEF Discard, OperationShape
    <3>2. /\ pc'[c] # "rename" /\ \A d \in Client \ {c} : pc'[d] = pc[d] /\ at'[d] = at[d]
          /\ \A d \in Client : held'[d] \subseteq held[d]
      BY <2>4 DEF Discard, TypeOK
    <3>3. gc' = gc /\ \A r \in Resource \ {at[c]} : lock'[r] = lock[r]
      BY <2>4 DEF Discard, TypeOK
    <3>4. QED BY <3>1, <3>2, <3>3, <1>2
  <2>5. CASE InspectStale(c)
    <3>1. at[c] \in Resource /\ pc[c] = "inspect" /\ LooksStale(at[c])
      BY <2>5 DEF InspectStale, TypeOK
    <3>2. ~Judged(at[c])
      BY Zenon, <2>5, ~rivals' DEF InspectStale
    <3>3. lock[at[c]] # Free /\ \A d \in Client : at[c] \notin held[d]
      BY <1>0, <3>1, StaleIsDead
    <3>4. UNCHANGED <<lock, held, gc, at, stolen>> /\ pc' = [pc EXCEPT ![c] = "rename"]
      BY <2>5 DEF InspectStale
    <3>5. OneJudge'
      BY <1>0, <3>1, <3>2, <3>4 DEF OneJudge, Judged, TypeOK
    <3>6. \A r \in Resource : Judged(r)' => Judged(r) \/ r = at[c]
      BY <3>4 DEF Judged, TypeOK
    <3>7. JudgedIsDead'
      BY <1>0, <3>3, <3>4, <3>6 DEF JudgedIsDead
    <3>8. QED BY <1>0, <3>4, <3>5, <3>7 DEF Careful
  <2>6. CASE Quarantine(c)
    <3>1. at[c] \in Resource /\ pc[c] = "rename"
      BY <2>6 DEF Quarantine, TypeOK
    <3>2. \A d \in Client : at[c] \notin held[d]
      BY <1>0, <3>1 DEF JudgedIsDead, Judged
    <3>3. ~stolen'
      BY Zenon, <1>0, <2>6, <3>2 DEF Quarantine, Steals
    <3>4. pc'[c] # "rename" /\ \A d \in Client \ {c} : pc'[d] = pc[d]
      BY <2>6 DEF Quarantine, TypeOK
    <3>5. UNCHANGED <<held, gc, at>> /\ \A r \in Resource \ {at[c]} : lock'[r] = lock[r]
      BY <2>6 DEF Quarantine, TypeOK
    <3>6. ~Judged(at[c])'
      <4>1. \A d \in Client : ~(pc'[d] = "rename" /\ at[d] = at[c])
        BY <1>0, <3>1, <3>4 DEF OneJudge
      <4>2. \A p \in Process : gc[p] # <<"lock", at[c]>>
        BY <1>0, <3>1 DEF OneJudge
      <4>3. \A d \in Client : ~(pc'[d] = "rename" /\ at'[d] = at'[c])
        BY <4>1, <3>5
      <4>4. \A p \in Process : gc'[p] # <<"lock", at'[c]>>
        BY <4>2, <3>5
      <4>5. QED BY Zenon, <4>3, <4>4 DEF Judged
    <3>7. \A d \in Client : pc'[d] = "rename" => pc[d] = "rename" /\ at'[d] = at[d]
      BY <3>1, <3>4, <3>5
    <3>8. \A r \in Resource : Judged(r) =>
             \/ /\ lock[r] # Free => lock'[r] # Free
                /\ \A d \in Client : r \in held'[d] => r \in held[d]
             \/ ~Judged(r)'
      <4>1. TAKE r \in Resource
      <4>2. CASE r = at[c]
        <5>1. Judged(at[c])' <=> Judged(r)'
          BY <3>5, <4>2 DEF Judged
        <5>2. QED BY <3>6, <5>1
      <4>3. CASE r # at[c]
        BY <3>5, <4>3
      <4>4. QED BY <4>2, <4>3
    <3>9. QED BY <1>0, <3>3, <3>5, <3>7, <3>8, JudgesGiveUp
  <2>7. QED BY <1>3, <2>1, <2>2, <2>3, <2>4, <2>5, <2>6 DEF Acquisition
<1>4. ASSUME NEW c \in Client, Body(c) PROVE Careful'
  <2>1. UNCHANGED <<lock, held, gc, at, stolen>>
    BY <1>4 DEF Body, ReadEpoch, CheckEpoch, GuardHolds, GuardFails, CommitEpoch, FinishWork
  <2>2. \E to \in {"work", "guard", "release", "commit"} : pc' = [pc EXCEPT ![c] = to]
    BY <1>4 DEF Body, ReadEpoch, CheckEpoch, GuardHolds, GuardFails, CommitEpoch, FinishWork
  <2>3. \A d \in Client : pc'[d] = "rename" => pc[d] = "rename"
    BY <2>2 DEF TypeOK
  <2>4. QED BY <1>0, <2>1, <2>3, JudgesGiveUp
<1>5. ASSUME NEW c \in Client, Releasing(c) PROVE Careful'
  <2>1. ASSUME NEW r \in Resource, ReleaseOwned(c, r) \/ ReleaseForeign(c, r) \/ Return(c)
        PROVE  Careful'
    <3>1. UNCHANGED <<lock, gc, stolen>>
      BY <2>1 DEF ReleaseOwned, ReleaseForeign, Return
    <3>2. \A d \in Client : pc'[d] = "rename" => pc[d] = "rename" /\ at'[d] = at[d]
      BY <2>1 DEF ReleaseOwned, ReleaseForeign, Return, TypeOK
    <3>3. \A d \in Client : held'[d] \subseteq held[d]
      BY <2>1 DEF ReleaseOwned, ReleaseForeign, Return, TypeOK
    <3>4. QED BY <1>0, <3>1, <3>2, <3>3, JudgesGiveUp
  <2>2. CASE Unlink(c)
    <3>1. at[c] \in held[c] /\ pc[c] # "rename" /\ Steals(c, at[c])
      BY <2>2, <1>0 DEF Unlink, OperationShape
    <3>2. /\ pc'[c] # "rename" /\ \A d \in Client \ {c} : pc'[d] = pc[d] /\ at'[d] = at[d]
          /\ \A d \in Client : held'[d] \subseteq held[d]
      BY <2>2 DEF Unlink, TypeOK
    <3>3. gc' = gc /\ \A r \in Resource \ {at[c]} : lock'[r] = lock[r]
      BY <2>2 DEF Unlink, TypeOK
    <3>4. QED BY <3>1, <3>2, <3>3, <1>2
  <2>3. CASE Rmdir(c)
    <3>1. at[c] \in held[c] /\ pc[c] # "rename" /\ Steals(c, at[c])
      BY <2>3, <1>0 DEF Rmdir, OperationShape
    <3>2. /\ pc'[c] # "rename" /\ \A d \in Client \ {c} : pc'[d] = pc[d] /\ at'[d] = at[d]
          /\ \A d \in Client : held'[d] \subseteq held[d]
      BY <2>3 DEF Rmdir, TypeOK
    <3>3. gc' = gc /\ \A r \in Resource \ {at[c]} : lock'[r] = lock[r]
      BY <2>3 DEF Rmdir, TypeOK
    <3>4. QED BY <3>1, <3>2, <3>3, <1>2
  <2>4. CASE Return(c)
    <3>1. Target[c] \in Resource
      OBVIOUS
    <3>2. QED BY <2>1, <2>4, <3>1
  <2>5. QED BY <1>5, <2>1, <2>2, <2>3, <2>4 DEF Releasing
<1>6. ASSUME NEW p \in Process, Crash(p) PROVE Careful'
  <2>1. UNCHANGED <<lock, at, stolen>>
    BY <1>6 DEF Crash
  <2>2. \A d \in Client : (pc'[d] = "rename" => pc[d] = "rename") /\ held'[d] \subseteq held[d]
    BY <1>6 DEF Crash, TypeOK
  <2>3. \A q \in Process, r \in Resource : gc'[q] = <<"lock", r>> => gc[q] = <<"lock", r>>
    BY <1>6 DEF Crash, TypeOK, GcJob
  <2>4. QED BY <1>0, <2>1, <2>2, <2>3, JudgesGiveUp
<1>7. ASSUME NEW p \in Process, ReusePid(p) \/ Close(p) \/ Reopen(p) PROVE Careful'
  <2>1. UNCHANGED <<lock, held, pc, at, gc, stolen>>
    BY <1>7 DEF ReusePid, Close, Reopen
  <2>2. QED BY <1>0, <2>1, JudgesGiveUp
<1>8. ASSUME NEW p \in Process, NEW r \in Resource, CollectInspect(p, r) PROVE Careful'
  <2>1. UNCHANGED <<lock, held, pc, at, stolen>> /\ gc[p] = NoFile
    BY <1>8 DEF CollectInspect
  <2>2. CASE LooksStale(r) /\ gc' = [gc EXCEPT ![p] = <<"lock", r>>] /\ rivals' = (rivals \/ Judged(r))
    <3>1. ~Judged(r)
      BY Zenon, <2>2, ~rivals'
    <3>2. lock[r] # Free /\ \A d \in Client : r \notin held[d]
      BY <1>0, <2>2, StaleIsDead
    <3>3. OneJudge'
      BY <1>0, <2>1, <2>2, <3>1 DEF OneJudge, Judged, TypeOK
    <3>4. \A s \in Resource : Judged(s)' => Judged(s) \/ s = r
      BY <2>1, <2>2 DEF Judged, TypeOK
    <3>5. JudgedIsDead'
      BY <1>0, <2>1, <3>2, <3>4 DEF JudgedIsDead
    <3>6. QED BY <1>0, <2>1, <3>3, <3>5 DEF Careful
  <2>3. CASE gc' = [gc EXCEPT ![p] = <<"age", r>>]
    <3>1. \A q \in Process, s \in Resource : gc'[q] = <<"lock", s>> => gc[q] = <<"lock", s>>
      BY <2>3 DEF TypeOK
    <3>2. QED BY <1>0, <2>1, <3>1, JudgesGiveUp
  <2>4. (LooksStale(r) /\ gc' = [gc EXCEPT ![p] = <<"lock", r>>] /\ rivals' = (rivals \/ Judged(r)))
        \/ gc' = [gc EXCEPT ![p] = <<"age", r>>]
    BY <1>8 DEF CollectInspect
  <2>5. QED BY <2>2, <2>3, <2>4
<1>9. ASSUME NEW p \in Process, NEW r \in Resource, CollectProbe(p, r) \/ CollectEpoch(p, r)
      PROVE  Careful'
  <2>1. \E job \in {<<"epoch", r>>, NoFile} : gc' = [gc EXCEPT ![p] = job]
    BY <1>9 DEF CollectProbe, CollectEpoch
  <2>2. \A s \in Resource : NoFile # <<"lock", s>> /\ <<"epoch", r>> # <<"lock", s>>
    BY DEF GcJob
  <2>3. \A q \in Process, s \in Resource : gc'[q] = <<"lock", s>> => gc[q] = <<"lock", s>>
    BY <2>1, <2>2 DEF TypeOK
  <2>4. UNCHANGED <<lock, held, pc, at, stolen>>
    BY <1>9 DEF CollectProbe, CollectEpoch
  <2>5. QED BY <1>0, <2>3, <2>4, JudgesGiveUp
<1>10. ASSUME NEW p \in Process, NEW r \in Resource, CollectLock(p, r) PROVE Careful'
  <2>1. gc[p] = <<"lock", r>>
    BY <1>10 DEF CollectLock
  <2>2. \A d \in Client : r \notin held[d]
    BY <1>0, <2>1 DEF JudgedIsDead, Judged
  <2>3. ~stolen'
    BY Zenon, <1>0, <1>10, <2>2 DEF CollectLock
  <2>4. /\ gc' = [gc EXCEPT ![p] = NoFile] /\ UNCHANGED <<pc, at, held>>
        /\ \A s \in Resource \ {r} : lock'[s] = lock[s]
    BY <1>10 DEF CollectLock, TypeOK
  <2>5. \A s \in Resource : NoFile # <<"lock", s>>
    BY DEF GcJob
  <2>6. \A q \in Process, s \in Resource : gc'[q] = <<"lock", s>> => gc[q] = <<"lock", s>> /\ q # p
    BY <2>4, <2>5 DEF TypeOK
  <2>7. ~Judged(r)'
    <3>1. \A d \in Client : ~(pc[d] = "rename" /\ at[d] = r)
      BY <1>0, <2>1 DEF OneJudge
    <3>2. \A q \in Process : gc'[q] # <<"lock", r>>
      BY <1>0, <2>1, <2>6 DEF OneJudge
    <3>3. QED BY <2>4, <3>1, <3>2 DEF Judged
  <2>8. QED BY <1>0, <2>3, <2>4, <2>6, <2>7, JudgesGiveUp
<1>11. ASSUME NEW r \in Resource, Age(r) PROVE Careful'
  <2>1. UNCHANGED <<lock, held, pc, at, gc, stolen>>
    BY <1>11 DEF Age
  <2>2. QED BY <1>0, <2>1, JudgesGiveUp
<1>12. CASE UNCHANGED vars
  <2>1. UNCHANGED <<lock, held, pc, at, gc, stolen>>
    BY <1>12 DEF vars
  <2>2. QED BY <1>0, <2>1, JudgesGiveUp
<1>13. QED
  BY <1>1, <1>3, <1>4, <1>5, <1>6, <1>7, <1>8, <1>9, <1>10, <1>11, <1>12 DEF Next, Collector

\* How slow creators are does not change.
LEMMA SlowStays == [Next]_vars => slow' = slow
<1>1. ASSUME NEW c \in Client, NEW k \in Kind, Start(c, k) PROVE slow' = slow
  BY <1>1 DEF Start, stateVars
<1>2. ASSUME NEW c \in Client, Acquisition(c) PROVE slow' = slow
  BY <1>2 DEF Acquisition, Mkdir, MkdirExists, WriteOwner, WriteOwnerFails, Discard,
              InspectStale, InspectLive, Quarantine, Retry, Timeout, stateVars
<1>3. ASSUME NEW c \in Client, Body(c) PROVE slow' = slow
  BY <1>3 DEF Body, ReadEpoch, CheckEpoch, GuardHolds, GuardFails, CommitEpoch,
              FinishWork, stateVars
<1>4. ASSUME NEW c \in Client, Releasing(c) PROVE slow' = slow
  BY <1>4 DEF Releasing, ReleaseOwned, ReleaseForeign, Unlink, Rmdir, Return, stateVars
<1>5. ASSUME NEW p \in Process,
             Crash(p) \/ ReusePid(p) \/ Close(p) \/ Collector(p) PROVE slow' = slow
  BY <1>5 DEF Crash, ReusePid, Close, Collector, CollectInspect, CollectProbe,
              CollectLock, CollectEpoch, Reopen, stateVars
<1>6. ASSUME NEW r \in Resource, Age(r) PROVE slow' = slow
  BY <1>6 DEF Age, stateVars
<1>7. CASE UNCHANGED vars
  BY <1>7 DEF vars, stateVars
<1>8. QED BY <1>1, <1>2, <1>3, <1>4, <1>5, <1>6, <1>7 DEF Next

\* Nor is it forgotten that two judged one lease at once.
LEMMA RivalsStay == TypeOK /\ TypeOK' /\ [Next]_vars => (rivals => rivals')
<1>1. ASSUME NEW c \in Client, NEW k \in Kind, Start(c, k) PROVE rivals => rivals'
  BY <1>1 DEF Start, stateVars
<1>2. ASSUME NEW c \in Client, Acquisition(c) PROVE rivals => rivals'
  <2>1. CASE InspectStale(c)
    BY Zenon, <2>1 DEF InspectStale
  <2>2. CASE ~InspectStale(c)
    BY <1>2, <2>2 DEF Acquisition, Mkdir, MkdirExists, WriteOwner, WriteOwnerFails, Discard,
                InspectLive, Quarantine, Retry, Timeout, stateVars
  <2>3. QED BY <2>1, <2>2
<1>3. ASSUME NEW c \in Client, Body(c) PROVE rivals => rivals'
  BY <1>3 DEF Body, ReadEpoch, CheckEpoch, GuardHolds, GuardFails, CommitEpoch,
              FinishWork, stateVars
<1>4. ASSUME NEW c \in Client, Releasing(c) PROVE rivals => rivals'
  BY <1>4 DEF Releasing, ReleaseOwned, ReleaseForeign, Unlink, Rmdir, Return, stateVars
<1>5. ASSUME NEW p \in Process, Crash(p) \/ ReusePid(p) \/ Close(p) \/ Collector(p)
      PROVE  rivals => rivals'
  <2>1. ASSUME NEW r \in Resource, CollectInspect(p, r) PROVE rivals => rivals'
    BY Zenon, <2>1 DEF CollectInspect
  <2>2. CASE Crash(p) \/ ReusePid(p) \/ Close(p) \/ Reopen(p)
    BY <2>2 DEF Crash, ReusePid, Close, Reopen, stateVars
  <2>3. ASSUME NEW r \in Resource, CollectProbe(p, r) \/ CollectLock(p, r) \/ CollectEpoch(p, r)
        PROVE  rivals => rivals'
    BY <2>3 DEF CollectProbe, CollectLock, CollectEpoch, stateVars
  <2>4. QED BY <1>5, <2>1, <2>2, <2>3 DEF Collector
<1>6. ASSUME NEW r \in Resource, Age(r) PROVE rivals => rivals'
  BY <1>6 DEF Age, stateVars
<1>7. CASE UNCHANGED vars
  BY <1>7 DEF vars, stateVars
<1>8. QED BY <1>1, <1>2, <1>3, <1>4, <1>5, <1>6, <1>7 DEF Next

\* While those that are alive name their locks in time (within the second
\* removeStaleLease grants them) and no two judge one lease at once, no lease is
\* ever taken from its holder: with crashes, timeouts, reused pids, collectors
\* and what earlier sessions left behind.
THEOREM LiveLeasesStay == Spec => []LiveLeasesKept
<1> DEFINE Kept == Living /\ (~slow /\ ~rivals => Careful)
<1>1. Init => Kept
  <2> SUFFICES ASSUME Init PROVE Kept
    OBVIOUS
  <2>1. Living
    BY DEF Init, Living
  <2>2. \A p \in Process, r \in Resource : gc[p] # <<"lock", r>>
    BY DEF Init, GcJob
  <2>3. \A c \in Client : pc[c] # "rename"
    BY DEF Init
  <2>4. OneJudge /\ JudgedIsDead
    BY <2>2, <2>3 DEF OneJudge, JudgedIsDead, Judged
  <2>5. QED BY <2>1, <2>4 DEF Init, Careful
<1>2. TypeOK /\ TypeOK' /\ LeaseInv /\ Kept /\ [Next]_vars => Kept'
  <2> SUFFICES ASSUME TypeOK, TypeOK', LeaseInv, Kept, [Next]_vars PROVE Kept'
    OBVIOUS
  <2>1. Living'
    BY LivingStep DEF LeaseInv
  <2>2. ASSUME ~slow', ~rivals' PROVE Careful'
    <3>1. ~slow /\ ~rivals
      BY <2>2, SlowStays, RivalsStay
    <3>2. QED BY <2>2, <3>1, CarefulStep
  <2>3. QED BY <2>1, <2>2
<1>3. Kept => LiveLeasesKept
  BY DEF Careful, LiveLeasesKept, NothingStolen
<1>4. QED BY <1>1, <1>2, <1>3, TypeCorrect, LeaseInvariant, PTL DEF Spec

\* So the scheduler "orders live operations per physical resource": two
\* operations never run under a lease they share.
THEOREM QuickExclusion == Spec => [](~slow /\ ~rivals => MutualExclusion)
<1>1. ExclusionUnlessStolen /\ LiveLeasesKept => (~slow /\ ~rivals => MutualExclusion)
  BY DEF ExclusionUnlessStolen, LiveLeasesKept, NothingStolen
<1>2. QED BY <1>1, Exclusion, LiveLeasesStay, PTL

\* And without the collector it implements them in every such behaviour.
COROLLARY QuickFence ==
  ASSUME ~Collects, Slow \subseteq {FALSE}
  PROVE  Spec /\ [](~rivals) => ImplementsFence
<1>1. Init => ~slow
  BY DEF Init
<1>2. ~slow /\ [Next]_vars => ~slow'
  BY SlowStays
<1>3. ~slow /\ ~rivals /\ LiveLeasesKept => NothingStolen
  BY DEF LiveLeasesKept
<1>4. QED BY <1>1, <1>2, <1>3, LiveLeasesStay, FenceImplemented, PTL DEF Spec
================================================================================
