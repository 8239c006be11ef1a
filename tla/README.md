# SCUA in TLA+

SCUA lets software agents use the applications of a computer: they observe
roots (windows and browser tabs), get immutable *states*, and act from a state
on the live interface. What makes it hard is that many agents, in one process
or in several, share one desktop with each other and with a person. The
specifications here are about that sharing: who may write, from what knowledge,
to which window and element, how often, and what the caller is told.

Paths are relative to the repository (`src/runtime.ts` is the TypeScript core,
`mcp/` the MCP server). `PROJECT.json` says for every definition which lines it
translates, and for every hazard which property is there to catch it.

## The system

| Part | State | Operations | Correct when |
|---|---|---|---|
| `src/runtime.ts` ResourceScheduler | lock directories with `owner.json`, `.epoch` files, a registry of processes, all in one directory shared by every process; `localOperations`, `closed` per process | `withLease(s)`, `read`, `readAt`, `writeGuarded`, `drain`, `close`, `gcMetadata` | leases exclude each other; a write starts from the newest state; a crash costs nobody a resource; no deadlock |
| `src/control-plane.ts` ControlPlane | actors (tokens, budgets, deadlines), claims, `activeMutations` | create, close, acquire, renew, release, handoff, `withMutation`, gc | who delivers owns the resource until it is delivered; no takeover; a closed actor stops |
| `src/bridge.ts` write path, `src/state.ts` | saved states per actor | `withWindowWriteLock`, `withBrowserWrite`, observe, `transferLatestDesktop` | lease, epoch, claim and budget are checked before anything is delivered |
| `src/bridge.ts` roots, `src/root-selection.ts` | tables of `@r` refs, contexts and owners of pages; the records of a session's branch | `find_roots`, `observe_ui`, `launch_browser`, `act_ui`, resume | a ref leads to the window it was given for; pages are shown to their owner only |
| `src/bridge.ts` act path, `src/actions.ts`, `src/user-activity.ts` | one transaction per call; the attention lease; who is in front | background delivery, escalation, foreground section, user priority, bounded recovery, stale recovery | no action twice, none out of order, a truthful verdict |
| `src/bridge.ts` browser path, `src/cdp.ts` | connections per page, a mutation count per document | admit, deliver command by command, verify, observe; navigate, wait for a mutation | what was acknowledged is not sent again; one connection per page; no mutation missed |
| `src/bridge.ts` observation, `src/outline.ts`, `view.ts`, `note.ts`, `rebind.ts` | up to 64 states of an actor, each an outline; one index per actor and resource | observe, search, expand, inspect, crawl, graft, stabilize, rebind | a ref names one element and keeps its meaning; a state is of one epoch; a complete index is whole |
| `src/ui-subscriptions.ts`, pumps in `src/bridge.ts` | journals of 256 events, cursors, waiters, a lease each | create, append, read, wait, invalidate, close, gc | no gap goes unreported; a reader always wakes; a stream that lost its claim ends |
| `src/action-plan.ts` | a trace per node, running set | dependency scheduling, retries with refresh, abort | dependencies first, retries only of what was not delivered, everything settles |
| `src/goal-executor.ts`, `src/jev-policy.ts` | traces of tasks; what is left in a tournament | allocate, observe, ask the model, act, settle | dependencies and budgets hold; the model can only choose what it was offered |
| `chrome-extension/`, `scripts/chrome-native-host.mjs`, `src/chrome-extension-bridge.ts` | one map of workspaces under one storage key; a relay socket and its lock | ensure, list, close tabs; route answers | a workspace touches its own tabs only, and loses none; one relay |
| `src/platform/*`, `src/permissions.ts` | a helper daemon per machine (macOS) or a child per process; what a client believes of it | install, start, probe, restart, send, time out, recheck permissions | work runs once; no answer is lost; a grant is seen |
| `native/*` | the accessibility trees and windows of the system | `act`, `actBatch`, bounded walks, window refs | checked input |
| `scripts/setup-helper.mjs` | the installed application, the signing identity and its lock | copy, sign, replace, restore | one identity; the place is not left empty |
| `mcp/`, `extensions/` | none | tools, control tools, errors with a delivery verdict | the verdict is true |
| `output.ts`, `config.ts`, `contract.ts`, build, benchmarks | files | | |

A tool call enters through `mcp/server.ts`, which looks up its actor and keeps
it in an async context (`runAsActor`). `executeTool` opens a saved state of that
actor. A mutation takes the lease of its resource (`writeGuarded`), compares the
epoch of the state with that of the resource, evaluates its live guards in the
helper, advances the epoch, asks the control plane for ownership
(`withMutation`) and delivers. Delivery tries the background first; what needs
the foreground waits until the person pauses, takes the attention lease and
focuses the window. Errors that prove that a state was stale lead to one fresh
observation, a rebind of the refs, and a second attempt. Plans and goals are
loops around these calls. Native work goes through a platform helper, pages go
through CDP or through the Chrome companion and its relay.

Hard, everywhere: every `await` is a point where another call, another process,
the person or the application gets in between. Processes crash with files on
disk. Time runs out (leases, claims, deadlines, waits). An answer can be lost
after its action was delivered. Names outlive what they name.

## Modules

**ResourceScheduler** is `src/runtime.ts`. A *client* is one operation (a read,
a `readAt` or a `writeGuarded` with its claims), a *process* has any number of
them. The file system is what all processes see: `lock[r]` is `Free`, `Vacant`
(a directory without `owner.json`) or the process named in it; `epoch[r]` is the
epoch file, `aged` that it is over a day old. Each action is one file system
call and the code up to the next: mkdir, writing `owner.json`, looking at
a lease that is in the way, the rename of `quarantineStaleLease`, the two steps
of the recursive `rm`. `Crashes`, `PidReuse`, `Timeouts` and `Collects` are
switches of an instance; `Slow` says whether creators may need more than the
second `removeStaleLease` grants them (`lease_close` has behaviours of both
kinds, told apart by the variable `slow`).
`version` and `basis` are history: the mutations so far and those a state
includes.

**FencedResource** is what the module above promises: resources held by one
client at a time, and mutations only from the newest state. It is both the
abstract specification that `ResourceScheduler` implements (property
`ImplementsFence`, with `InBody` as the refinement mapping of the holder) and
the lease of the modules below, which INSTANCE it in the place of the detailed
one.

**ControlPlane** is `src/control-plane.ts`. Its methods run without an await
and are one action each; `withMutation` is two (`Begin`, `End`), and anything
may happen in between. A *task* is an asynchronous call: `job[t]` is the actor
in its async context. Expired claims are deleted lazily by whoever looks at
them, and so they are here: `LiveClaim` is `liveClaim`, and every action that
calls it also removes what it finds lapsed. Time is an event (`Expire`,
`DeadlinePasses`, `MinutePasses`). Random ids are numbers that only grow.

**WriteAdmission** composes `ControlPlane` (EXTENDS) with `FencedResource`
(INSTANCE, tasks as clients) and the saved states of the actors: a call opens
a state, queues for the lease, is rejected or advances the epoch, is refused by
the control plane or delivers, and returns, while control tools run in between.

**Roots** is how `find_roots`, `observe_ui`, `launch_browser` and `act_ui` name
windows and pages, and find them again: the tables of a session, the records a
branch keeps of them, and `reconstruct` after a resume. Windows open, close, are
covered by dialogs, and get new native refs when the helper restarts.

**ActDelivery** is what happens inside a write on the desktop: `performAct`,
`performDesktopTransaction`, `dispatchUiTransaction`, `helperAct` and
`withForegroundUserPriority`. A call is a sequence of kinds of actions; where
it is (`pc`), which action (`at`) and which attempt. `landed` counts how often
each action took effect, which the program cannot see. The helper's answers
("worked", "didnt", "unknown", stale refs, `foreground_required`,
`user_active`, a lost helper) are all possible wherever its protocol allows
them. A *setting* is one choice of requests and environment, and an instance
has a set of them.

**BrowserAct** is the same for a page: `performBrowserTransaction` command by
command, with guards, the skip of what is satisfied already, the verdict of a
failure, and the rules of `performAct` and of plans for another attempt.

**Outline** are the operators on trees: naming, folding, ranked search, pruning
of detached documents, grafting, stabilizing of refs, diffing, notes, and the
matching of `rebind.ts`. **Observation** are the calls that use them: each works
on its own copy of a saved state and writes it back; the application changes by
itself; walks stop at a limit and are continued; the semantic index crawls; an
`act_ui` on a stale state looks again and rebinds its target once.

**UiSubscriptions** is `src/ui-subscriptions.ts` with the pumps that fill it and
the `read_ui_events` calls that wait on it. A stream is a record: its journal
holds the events `dropped + 1` to `Latest`, of which properties tell three kinds
apart. `call` is the state of a read at its awaits, with the cursor of its wait
and whether its deadline has passed; `told` is history. The claims of the actor
are reduced to the lease it holds now: a claim may lapse untold, be lost through
a control tool, and be taken again with another lease. An aborted pump is
"stopping" until it returns, and may still report.

**ActionPlan** is `src/action-plan.ts` with its adapter: validation, one pass of
the scheduler as a step, attempts, refreshes, an abort at any point.
**GoalExecutor** is `src/goal-executor.ts`: waves, workers, their gates, budgets
and settling; a view of the interface is reduced to what the loop asks of it.
**JevPolicy** is the decision of `src/jev-policy.ts`: a tournament of questions
in which the model may answer anything, and the compiled sequences.

**ChromeWorkspace** is the service worker with its client: every operation reads
the whole map of workspaces, awaits Chrome, and saves the whole map; what
changes a workspace queues in its lane. **RelayHost** is the native host with
its lock file. **CdpClient** are the connections of `src/cdp.ts`, **CdpPage**
navigation and the mutation count on one of them.

**MacosHelper** is the client of the helper daemon with the permission dialog:
what a process believes of the daemon, what the daemon cached, restarts by two
calls under each other. **PipeHelper** are the Linux and Windows clients, whose
children share a buffer. **HelperSetup** is `scripts/setup-helper.mjs`: several
installers over one application, one keychain and one lock.

What the modules abstract: payloads and texts (an element has a role, one label
and a native identity), the registry and its heartbeat (a process is up, down, or
its pid is another's), TTLs (a claim expires at any time), the event log of the
control plane, telemetry, scores and prompts. Delivery of one action is one
step, so text torn between two characters is not modelled. An element keeps its
parent between two looks and has no identifier beside its texts; rectangles only
appear as the choice that the geometric tie-breaker leaves open. Roots belong to one application, results are not cut
at twelve, and the limit of 512 records is not reached.

## Runs

| Run | Question | Bounds |
|---|---|---|
| `lease_pair` | Do two operations that write one resource and both claim a second one avoid deadlock and end; is an abandoned lease cleared away; is `FencedResource` implemented, with crashes and timeouts? | 2 processes, 2 clients, 2 resources, 2 writes |
| `lease_close` | Does a collector, a crash or a pid in other hands cost anybody a lease, while sessions close and reopen; do slow creators cost more than their own? | 2 processes, 1 resource, 1 write |
| `actors` | Is whoever delivers fenced by lease, epoch and claim at once, against handoff, close, deadline and expiry? Do refs lead to the windows they were given for, and pages to their owner? | the default actor and one with a budget of 1, 2 calls, 2 epochs; 3 windows (two of one title, one a dialog), 1 page, 3 calls, 2 events |
| `act` | Is what is delivered in one piece delivered at most once and reported truly; are calls isolated; does every call end? | 5 settings of up to 3 calls with up to 3 actions |
| `subscriptions` | Is every gap reported, every reader woken, every source stopped with its stream, and does a stream that has lost its claim end? | 2 streams of one resource, one reader with pages of 1, journals of 2, 2 events and an end, 2 leases |
| `tasks` | Does no node land twice; do plans, goals and decisions keep their rules; does everything end? | 3 plans of 3 nodes and 9 malformed ones; 5 goals of 2 tasks and 3 malformed; 6 surfaces of up to 9 candidates |
| `browser` | Do requests get one tab each, in their workspace; one relay, one connection per page, no lost mutation, no command sent after its answer; does everything end? | 5 mixes of up to 3 requests, 1 tab moved by the user; 2 relay hosts; 3 calls of 2 pages in 2 generations; 2 attempts at 3 transactions; 2 changes of the page |
| `helpers` | Does work run once, is a grant seen, are the answers of a child those of its requests, are installations whole; does every call end? | 2 calls, 1 upset; 3 children, 2 mishaps; 2 installers, 1 snag |
| `observation` | Does a ref name one element and keep its meaning through grafts and rebinding; is a state of one epoch, a complete index whole; is no call stuck? | 2 concurrent calls, 3 in all; 7 elements, two of them alike; 1 change; 2 states; walks of 1 or 6 |
| `act_replay` | violated: a stale ref of a later action replays the earlier ones | 1 call, 2 actions |
| `act_rerouted` | violated: an action goes to another window than the one observed | 3 windows, 3 calls |
| `old_refs` | violated: a stored state loses refs that were told | 2 concurrent calls, 3 in all |

A run may put several instances beside each other that share no state, and then
every behaviour belongs to one of them: `actors` is WriteAdmission or Roots,
`tasks` a plan, a goal or a decision, `browser` one of five modules, `helpers`
one of three. Nothing is lost by that: their code meets in no variable, and what
one needs of another is an assumption stated above.

The bounds are small because the interesting cases are: a race to reclaim takes
a dead owner and two waiters; a circular wait takes two operations that each
need two leases; the fencing of a mutation takes the mutation, its owner and one
rival; a replay takes two actions; a lost update takes two calls on one state;
an ambiguous rebind takes two rows that look alike and a change. `MaxWrites`,
`MaxLeases`, `MaxEpoch`, `MaxGeneration`, `MaxEvents`, `MaxAttempts` and
`MaxChanges` bound counters that grow for ever in the code, or stand for its own
limits (journals of 256, 64 states, 5,000 nodes) at sizes the instances reach:
`StateLimit`, `Retain`, `Slices` and `MaxNodes` are small enough that eviction,
overflow, a cut walk and a full index all happen. Symmetry is used for calls,
tasks and actors that nothing tells apart, and never with liveness. Deadlock is
checked in `observation` and `old_refs`; elsewhere the systems stop when every
operation is over and every bound is used up.

The settings of `act` are those the code treats differently: single actions that
may be tried again in the foreground, a sequence delivered action by action,
focus chains in two applications (the one case for the attention lease) whose
text may show up late, a headless batch and a stable control batch. Two
things are left out of them because they break at-most-once delivery: late text
and an interrupted chain, departures 6 and 7 below.

**Fairness.** Operations of a live process make progress (`WF`: Node runs its
continuations, the file system, the helper and the browser answer or their
time-outs fire). Two things time brings about need `SF`, because an operation
polls for them every 20 to 30 ms: a directory without `owner.json` grows older
than a second (`InspectStale`), and a wait reaches its deadline (`Timeout`).
In `ActDelivery` a call that asks for a lease which is free again and again gets
it (`Claiming`): the polls are jittered, and without that luck the deadline of
the wait, which this module leaves out, would end the call instead.
A pump whose claim is gone finds out, since it renews in the last
minute of the lease it knows and its waits on the source are bounded (4 to 6 s).
Nothing forces a process to crash, a person to pause, answer or close a dialog,
a model to choose well, or an application to hold still; `CallEnds` needs none
of it, because the wait for the user is bounded (`TimeUp`), and the calls that
wait for a person are left out of `MacOver`.

These hold on the same instances and are not part of a run. Most have a theorem:
`LeaseInv`, `MutualExclusion` unless stolen, `NoStaleWrite` and `EpochAdvances`
without the collector (`lease_pair`); `OwnershipInv`, `NoTakeover`, `Superseded`,
`ClosedActorStops` (`actors`); `TypeOK` of `act`; `NothingAfterEnd`
(`subscriptions`); `NavigationSound` (`browser`). Checked only: `InOrder`
(`act`), `DeliversInOrder` (`browser`), `GraftsOnlyAdd` (`observation`, without
symmetry); the type invariants `PlanTypeOK`, `GoalTypeOK`, `ChromeTypeOK` and
the `TypeOK` of the others.

## Where the code departs from what is said of it

Three have a run.

1. `bridge.ts:3553` takes a stale ref of a later action for proof that nothing
   was delivered and replays the transaction (`act_replay`).
2. `bridge.ts:3035` compares the target it has just resolved with itself, so an
   action may go to another window of the same title (`act_rerouted`). The check
   of `performObserve` (2592) does the same.
3. `bridge.ts:2708` writes back the copy of a state it began with: of two
   overlapping calls the later one takes the other's refs away (`old_refs`).

The others are violated when a configuration is changed as follows.

| | Departure | Configuration | Violated |
|---|---|---|---|
| 4 | `runtime.ts:293` renames whatever directory is at the path: two waiters that judged one lease stale can remove each other's fresh one | `lease_close` with three processes and three clients, `Home <- OneEach`, without `PidReuse`, `Collects`, `Timeouts` | `LiveLeasesKept` |
| 5 | `runtime.ts:273` a live creator that needs more than a second between mkdir and `owner.json` loses its directory | `lease_close` | `MutualExclusion` |
| 6 | `bridge.ts:1810` retries text that the application has not shown after 30 ms | `act` with `Settings <- OneText` | `AtMostOnce` |
| 7 | `bridge.ts:1738` repeats a whole focus chain after `user_active` | `act` with `Settings <- FocusAndType` | `AtMostOnce` |
| 8 | `mcp/errors.ts:50` a call whose first action was delivered can be reported as never delivered | `act` with `Settings <- PressThenField` | `HonestVerdict` |
| 9 | `runtime.ts:204` deletes epoch files after a day; the count starts again and an old state's epoch can match | `lease_close` with `MaxWrites = 2`, `Slow = {FALSE}` | `NoStaleWrite` |
| 10 | `runtime.ts:280` with a reused pid a dead holder's lease looks alive for ever | `lease_close` with `FairSpec`, `Slow = {FALSE}` | `AbandonedLeaseReclaimed` |
| 11 | `bridge.ts:858` asks for ownership after the epoch was advanced, so a call that is refused makes the owner's states stale | `actors` | `OwnerUndisturbed` |
| 12 | `state.ts:98` a handoff gives the recipient a state it never observed | `actors` | `MustObserve` |
| 13 | `bridge.ts:2481` once the condition of a stream is met, reads deliver changes nobody has looked at, though "every change is confirmed through a fresh semantic successor state before delivery" (`docs/scua-architecture.md`) | `subscriptions` | `EveryChangeConfirmed` |
| 14 | `action-plan.ts:180` an abort rejects the plan while nodes run, and their outcome is lost | `tasks` | `AbortIsAnswered` |
| 15 | `jev-policy.ts:418` only the latest actions tell that a sequence was typed: after one other action it is compiled and typed again, which `scripts/check-jev-policy.mjs` rules out | `tasks` | `SequenceTypedOnce` |
| 16 | `service-worker.js:203` a tab made while another operation holds an older map is dropped from the map | `browser` with `ChromeOnly`, `Wants <- Overlaps` | `Tracked` |
| 17 | `bridge.ts:3396` a first action whose second command fails counts as never dispatched and is sent again | `browser` with `ActOnly` | `NeverReplayed` |
| 18 | `setup-helper.mjs:466` a sealed release has no `source.sha256`, so an ad-hoc build replaces it and loses its grants | `helpers` with `SetupOnly` | `GrantsKept` |
| 19 | `view.ts:68` the first node that fits takes a ref, also from the element that has it by native identity | `observation` without symmetry | `IdentityKeepsRef` |

Others are visible in a definition and have no property of their own. Two relay
hosts may both judge a lock stale, and the second unlink takes the first one's
new lock (`stolen` in RelayHost; `RelayExclusive` excludes only that). If the
named row takes a new text and one other row has its old one, a recovered action
goes to that twin (`rebind.ts:105`; `ReboundAlike` allows what looks the same).
After a resume the counter of `@r` refs knows `find_roots` only, so a ref told
by `observe_ui` is given to another root; older records overwrite newer ones;
and after a restart of the helper native refs are minted again. In the helpers,
late output of a dead child lies in the buffer of the next; a call that
arrives during disposal starts a new child; two calls that both find a stale
daemon restart it under each other; a command that timed out may still run
(`platform/macos/helper.ts:194`).

## Proofs

Each theorem holds for every value of the constants that satisfies the
assumptions named below, where TLC looks at one instance. The argument is always
the same: an invariant that is inductive, checked by TLC before it was proved,
shown of the initial states and of every action; the property follows from it.
What is interesting is what had to be added to a property to make it inductive.

`ResourceScheduler_proofs`: any number of processes, clients and resources, any
assignment of claims, any setting of the fault switches.

- `TypeCorrect`, `LeaseInvariant`: mutual exclusion is not inductive: it says
  nothing of operations that are still acquiring or already releasing.
  `LeaseInv` adds where an operation may be for the leases it holds, that two
  holders never hold the same lease, and that what a holder holds has a
  directory with its process in it, unless a directory was stolen.
- `Exclusion`: exclusion is lost only after a theft. `NothingIsStolen`: without
  crashes, creators that are quick enough lose no lease (`LiveLeasesKept`).
  `FaultFreeExclusion`: so exclusion holds without condition there.
- `NoWaitIsCircular`: `withLeases` sorts its keys; the invariant `KeysInOrder`
  (`KeysAreOrdered`) says that what an operation still has to take is above all
  it holds, through retries, discards and releases. Two operations that wait for
  each other would each wait for a key above its own.
- `FenceInvariant`: `FenceInv`, without the collector and until a theft, says
  that the epoch file counts the mutations of its resource and that an
  operation past its check holds the lease and a base that is that count. From it
  follow `StaleWritesRejected` and `EpochsAdvance`.
- `FenceImplemented`: the refinement of `FencedResource`. A step of the file
  protocol is a take (the owner file is written), a drop (the first rename of a
  release, a crash, a quarantine of what is dead), an observation, a mutation
  (`writeEpoch`) or a stutter; `HeldByOne` makes the holder of the refinement
  mapping unique. It assumes `~Collects`, because departure 9 breaks it, and
  `[]NothingStolen`, because departures 4 and 5 do. `FaultFreeFence`: without
  crashes, slow creators and the collector there is nothing left to assume.

`Actors_proofs`: any number of actors, resources and calls, any budgets. Of
ownership, first the control plane by itself:

- `OwnershipInvariant`: that a running mutation is fenced (`Fenced`) is not
  inductive: nothing in it keeps `liveClaim` or `closeActor` from dropping the
  claim. What keeps them is `activeMutations`, so the invariant adds that it
  counts exactly the mutations that are running (`InFlightCounted`, a
  cardinality), that calls belong to actors that were created, and that lease
  ids only grow. `TypeCorrect` and `FencedDelivery` are two of its parts.
- `ClosedActorsStop`, `HandoffsSupersede`, `NobodyTakesOver`: the three action
  properties, by cases over the actions in a state that satisfies it.

On it rest the theorems about admissions:

- `ImplementsControlPlane`: every step of an admission is a step of the control
  plane or leaves it alone, so all of the above holds of admissions too.
- `LeasesHeld`, `DeliveriesFenced`: by an invariant that says where a call is
  for what it holds: the lease, the epoch it was given, the mutation in flight.
- `ClosedActorsStartNothing`: a call about to deliver holds the lease, so no
  mutation of the resource is in flight, so `liveClaim` does drop the claim of
  an owner that is gone. The control plane alone only promises the weaker
  `ClosedActorStops`.

`ActDelivery_proofs`: any calls, applications and settings. The 26 actions of a
call are first summed up in four kinds of facts: what a step does with its
leases (`Leases`), with epochs and with what others have missed (`Writes`), with
what it sends (`StepEffects`), and that it leaves other calls alone.

- `LeasesWhereNeeded`: a call holds its application from admission to its end
  and the attention in the foreground, no more and no longer, however it ends.
- `ActsOnWhatItSaw` (`Isolated`): who has been admitted has the newest epoch of
  its application and all others on it an older one, and who has missed an action
  has an older one. So who has missed something is not admitted.
- `DeliveredOnce`, `NeverMeansNever`: a call that goes back (to the user, to the
  attention lease, to an observation) has sent nothing, in the foreground nothing
  from its current action on, and no action was sent twice, what is under way
  included (`Piece`). That rests on `Routed` (each way of delivery has its own
  places; only a single text is mended) and `Still` (a chain is disturbed only
  by a user or an application that moves). Both assume `TextIsPrompt`: where
  posted text may show up late, nobody asks for a text alone. Without it they
  are false, and departure 6 is why.

`UiSubscriptions_proofs`: any number of streams, resources and readers, any sizes of
journals and pages.

- `PumpsMatchStreams`, `NobodySleepsOver`, `GapsAreTold`: one invariant in three
  layers, claims, streams and readers, each resting on the ones before. A wait
  is right because every step that changes a stream notifies its readers in the
  same step, and because between its look and its wait a read has no await;
  gaps are told because what is dropped is below the cursor or counted in
  `dropped` when the page is cut.
- `EndIsFinal`: what is logged after an end is refused. `StreamsAreLimited`:
  creations that overlap do not take an actor past the limit, since it is looked
  at where a stream becomes live.

`Browser_proofs`:

- `OneHostHolds`, for any number of hosts: whoever holds the relay created the
  lock that is there, and a pid that was judged dead stays dead.
- `NoMutationMissed`, `NavigationLands`: the count of a document is compared only
  with a later count of the same document; who waits has been counting since.
- `OneConnectionPerPage`, for any calls and pages: entries of a page are
  connections to it, somebody waits for every attempt, and a page with an open
  connection has no attempt. `disturbed` covers the three ways in which the code
  takes an entry from somebody else's attempt.
- `RequestsMakeOneTab`, `WorkspacesConfined`, for any requests, tabs and
  workspaces: every copy of the map, wherever an operation carries it over an
  await, lists only tabs made for their workspace, and a request that was never
  sent has begun nothing.
- `WorkspacesAreSound` adds the other half, while one workspace is at work and all
  its requests go through its lane (`LaneInv`). Only the head of the lane carries a copy of the
  map (`LaneOK`), so no save can undo another; a tab that was reported and still
  is in a group is *settled*, and the stored map and every copy of it list all
  settled tabs with the group they are in (`Keeps`). A settled tab keeps that group
  alive, so the next page goes into it and no other; with nothing settled a new
  group loses nobody (`LaneGroups`). While no close has begun and no title
  was changed (`Quiet`), nothing but the listener takes tabs from the record, and
  that only what is gone.
- `AcknowledgedOnce`, for any transactions.

`Helpers_proofs`:

- `NobodyWaitsInVain`, for any number of calls and children: only the last child
  is alive, its output is cut into heads and tails that fit what is in the
  buffer, and who waits has asked that child.
- `InstallersLeaveAHelper`, for any number of installers: a live installer
  that created the lock still has it unless it was stolen, and where the
  application is not whole, one that will bring it back is at work.
- `MacWorkIsDoneOnce`, `MacRecheckLooksAgain`, for any calls of any processes:
  one predicate on a call and the daemon (`Proper`) that every step keeps. Before a
  daemon of another version a call has got no further than that restart; a
  recheck of a user who lacks nothing is behind a restart whose shutdown this
  daemon has answered, or asks a daemon that has no old answer to give. Work is
  counted with its request: who has begun it (`Begun`) sends none again, and no two
  requests carry the same work. `MacServed` is all of it, with the types.

`Actors_proofs` also has Roots, for any windows, pages, actors and calls:

- `RootsInductive`: the invariant `RootsInv` relates six tables. An identity leads
  to a record that has it, refs are below the one counter, and those of pages
  are not in the table of windows (`TablesOK`). Every row of find_roots that the
  branch still holds is known by its identity (`Kept`), also after a resume,
  where the table knows the refs of pages too, and the counter starts above all
  of them. What a call holds is good in the session it began in only
  (`JobOK`). Within a session tables only grow (`Moves`), so that rows, told refs and
  calls stay good (`KeptStays`, `ToldStays`, `JobStays`).
- `RefsAreKept`, `ObservesTheNamedWindow`, `TellsOfOwnPages` follow: a root is told by
  the identity of its record, which separates pages from windows and windows with
  an id from one another.
- What the loops of `windowDetails`, of `performListWindows` and of the reconstruction
  store is proved by induction: over a set of numbers (`SetInduction`, from
  the library's well-foundedness of `<`), as nothing here can instantiate an
  induction rule that takes an operator.

`Observation_proofs`, for any application and any calls:

- `EpochsDoNotMix`: what a state or the index has read lies between the look it
  stems from and its own epoch, in every copy of it: saved, held by a call, or in
  the index (`EpochInv`). A step that looks adds the epoch it looks in, and the
  steps that add to what is there compare that epoch first.
- `RefsNameOneElement`: whatever is in the store, in the copy of a call or in the
  index is an outline (`IsOutline`): finite, its children are in it, and no two
  elements share a ref (`NameInv`). A walk of the helper over a tree keeps that who
  was met hangs from where it began and is queued once (`WalkOK`), so each bounded
  look is a tree again (`LooksAre`), also without its detached documents (`PruneIs`).
  Its queue and its depth-first order go through all of it (`BreadthFirstCovers`,
  `DepthFirstCovers`), so that everything is numbered: a first look by place
  (`BuildIs`), a graft above all the refs there are (`GraftIs`), and a successor in
  part by what it takes over, each ref once, in part above the refs of its base
  (`StabilizeIs`).
- `MeaningIsKept`: a ref that is taken over was that of the same wire, compatible,
  or of the only element with the same structural key (`StableIs`), and such a key
  ends in the role and text of its element (`PathIs`, `KeyTells`); so does the path
  a recovery compares (`PlaceTells`).
- `CompleteIndexHasAll`: whatever is in the store, in the copy of a call or in
  the index and was seen at this moment (nothing has changed since, and no write
  has landed) is `Faithful` to the application: of every element its children
  were read up to some k-th, those that are no part of a detached document come
  in their order, and an element that is truncated says that it stopped at the
  k-th (`WholeInv`). A walk reads pages (`WalkReads`, `LooksRead`), pruning takes no
  live element (`PrunedIsShown`), and a graft, which is a later page of one
  element or its first one anew, goes behind what was in order before
  (`KeptBehind`, `KeptBefore`, `GraftIsFaithful`). A change or a write only
  makes things past (`CurrentLater`). Complete means that there are no frontiers,
  so that nothing the outline reaches is truncated (`NothingIsOpen`), and what is
  faithful and read to the end is the whole (`FaithfulIsWhole`).

`Tasks_proofs`, for any plans, any tasks of a goal and any candidates:

- `PlanInductive`: `PlanInv` says of every node that its trace fits its status,
  its attempts and the traces it depends on, and that what has taken effect has
  settled its node. `PlanRetriesTheDenied` follows: only a refused attempt is repeated.
  So does `PlanFitsItsGraph`; that a plan with a pending node has one that is
  ready or running goes by the rounds of `Visited`, in which a valid graph is
  peeled off: the first pending node of the rounds depends on settled ones.
- `GoalInductive`: `GoalInv` bounds the acts of a worker by the step it is in,
  place by place (`JobOK`), and keeps for every task that was started that its
  dependencies have succeeded and are among the results (`Met`). From it
  `GoalFitsItsTasks`. That no allocation by the model is refused by the checks
  that requests of users go through is a fact about waves: after they are made
  normal each one depends on the wave before, over at most 16 windows.
- `JevInductive`, `SelectionIsSound`: the groups of a round, and the questions
  they are cut into, cover the candidates (`GroupsCover`, `QuestionsCover`: the
  arithmetic of `batches` with the terminals in every group), duplicates go and
  nobody else (`DedupKeeps`). So after the first round everything has been asked
  of, and the last winner is the answer whose confidence is reported.
- One pass over the nodes or tasks is a recursive function over a sequence: what
  it does is proved by `SetInduction` over the members visited so far.

Four attempts found something. `AppKept` was false with four installers: one
moves aside what another has only half copied, and restores that; TLC, which
checks two, had not seen it, and the exception is now in `spoilt`. `Isolated`
counted an action when it shows up, and text that was sent in time may show up
late; it now counts when input is sent (`Sent`). `PieceAtMostOnce` needed
`TextIsPrompt` spelled out, which the settings of `act` had satisfied silently.
And a state that adopts the index kept the `at` of the state it grew from, so
with four calls `CompleteIndexIsWhole` spoke of an index older than the last
change; TLC showed it on that larger instance, and `at` now goes with the index.

The assumptions are those the modules name, and TLC evaluates them in every run.
`ClientAssumption`: homes, targets and claims are well typed. `ActorAssumption`:
the default actor is an actor and has no budget. `LimitAssumption`: the limits
are numbers. `TaskAssumption`: the calls are finitely many.
`AdmissionAssumption`: each call has a resource. `MarkerAssumption`, of two
modules: values such as "nobody" or "no file" are none of the things they stand
beside. `CallAssumption`, `SettingAssumption`: calls have an application and
ask for what the schema admits (at most 20 actions; untargeted typing follows a
press that focuses a field; stable batches are presses).
`CdpAssumption`, `ChromeAssumption`, `TransactionAssumption`, `MacAssumption`:
requests and crews are well typed, and a wait sends no command.
`RootsAssumption`: windows are the numbers up to some n, pages are finitely many and
none of them, and no two windows have the same CGWindowID.
`ObservationAssumption`: a look has a number of nodes; the application shows
trees, and a change of it leads to a tree.
`PlanAssumption`, `GoalAssumption`, `JevAssumption`: requests and candidates are
well typed, a missing node or task is none of the nodes or tasks, and a template
for automatic goals has one source of input for each task and takes no state
from another, which is how `automaticGoalPlan` builds it.

Every invariant and every action property of a passing run is proved. Liveness
under fairness, which no prover here reaches, is only model-checked.

## Not modelled

- `launch_app` and `evaluate_browser`, which take a lease and a claim as the
  other writes do and then hand one request on.
- Text torn between two characters (`native/macos/bridge.swift:4273`), input
  synthesis, capture and the accessibility interfaces: they belong to the
  operating systems; the modules take their answers as choices.
- Wording, output envelopes and their compact form (`output.ts`, `contract.ts`
  with the schemas), scores and prompts of the goal policy, the snapshot script
  of a page, telemetry.
- Configuration files, which are read once; the Pi extension, which registers
  the same tools with another host; benchmarks and the build; the plain copies
  of the Linux and Windows helpers.
- In Roots: several applications, the cut at twelve results and the limit of 512
  records.

## Plan

1. Several applications in Roots, with the ranking of what `find_roots` returns.
2. The browser process that `cdp.ts` manages, and `launch_app`.
3. Text delivered character by character in ActDelivery.
