-------------------------------- MODULE Roots --------------------------------
(***************************************************************************)
(* Root refs: how find_roots, observe_ui, launch_browser and act_ui give   *)
(* windows and pages their @r refs, and how a ref or a saved state leads   *)
(* back to a window that may have been closed, covered or renumbered.      *)
(* Windows are numbers, the order in which a listing names them; all       *)
(* belong to one application.  A window without a CGWindowID has IdOf 0.   *)
(***************************************************************************)
EXTENDS Naturals, Sequences, SequencesExt, FiniteSetsExt

CONSTANTS
  RootCalls, RootActors,
  Windows, FirstWindows,   \* all windows, 1 .. n, and those open at first
  Pages,                   \* pages launch_browser may create
  IdOf, TitleOf,           \* of a window
  Over,                    \* the windows that a modal window is in front of
  MaxRootCalls,   \* bound: calls
  MaxEvents       \* bound: what else happens

ASSUME RootsAssumption ==
  /\ IsFiniteSet(Windows) /\ Windows = 1 .. Cardinality(Windows) /\ FirstWindows \subseteq Windows
  /\ IsFiniteSet(Pages) /\ Pages \cap Windows = {}
  /\ IdOf \in [Windows -> Nat] /\ Over \in [Windows -> SUBSET Windows]
  /\ \A v, w \in Windows : v # w /\ IdOf[v] > 0 => IdOf[v] # IdOf[w]

NoRoot == 0

VARIABLES
  desk,    \* the open windows, and the refs the helper has minted for windows
  table,   \* windowRefs, windowRefByIdentity and nextRootRefIndex
  tabs,    \* browserRootByContext, browserContextByRoot, browserOwnerByContext
  targets, \* targets of the saved desktop states
  jobs,    \* the calls
  branch,  \* the results the session's branch holds, oldest first
  had      \* history: the actors a page has belonged to

rootVars == <<desk, table, tabs, targets, jobs, branch, had>>

(***************************************************************************)
(* Helper                                                                  *)
(***************************************************************************)
\* storeWindow: a window keeps its ref until the helper restarts.
Unnamed(d, ws) == {w \in ws : d.native[w] = 0}
NamedBy(d, ws, order) ==
  [d EXCEPT !.native = [w \in Windows |-> IF w \in Unnamed(d, ws) THEN d.minted + order[w] ELSE @[w]],
            !.minted = @ + Cardinality(Unnamed(d, ws))]
\* The windows of a listing get their refs in the order of the screen.
Orders(ws) == {f \in [ws -> 1 .. Cardinality(ws)] : \A v, w \in ws : v # w => f[v] # f[w]}
Listings == {NamedBy(desk, desk.open, o) : o \in Orders(Unnamed(desk, desk.open))}

\* windowElement: the window a target leads the helper to.
LedTo(t) ==
  LET known == {w \in Windows : t.native > 0 /\ desk.native[w] = t.native}
      ided  == {w \in desk.open : t.id > 0 /\ IdOf[w] = t.id}
      led   == IF known # {} THEN known \cap desk.open ELSE ided
  IN IF led = {} THEN NoRoot ELSE CHOOSE w \in led : TRUE

Row(d, w) == [app |-> "app", id |-> IdOf[w], native |-> d.native[w], title |-> TitleOf[w]]

(***************************************************************************)
(* Tables                                                                  *)
(***************************************************************************)
EmptyTable == [refs |-> <<>>, by |-> <<>>, next |-> 1]
NoTabs == [root |-> <<>>, context |-> <<>>, owner |-> <<>>]

\* Map.set
Put(f, x, v) == [y \in DOMAIN f \cup {x} |-> IF y = x THEN v ELSE f[y]]

WindowRecordIdentity(r) ==
  IF r.id > 0 THEN <<r.app, "id", r.id>>
  ELSE IF r.native > 0 THEN <<r.app, "ref", r.native>> ELSE <<r.app, "title", r.title>>

StoreWindowRef(t, r) ==
  LET key   == WindowRecordIdentity(r)
      known == key \in DOMAIN t.by
      ref   == IF known THEN t.by[key] ELSE t.next
  IN [refs |-> Put(t.refs, ref, r), by |-> Put(t.by, key, ref),
      next |-> IF known THEN t.next ELSE t.next + 1]
RefIn(t, r) == t.by[WindowRecordIdentity(r)]

StoreEach(t, d, ws) ==
  LET stored[k \in 0 .. Cardinality(Windows)] ==
        IF k = 0 THEN t ELSE IF k \in ws THEN StoreWindowRef(stored[k - 1], Row(d, k)) ELSE stored[k - 1]
  IN stored[Cardinality(Windows)]

\* The next ref is for a window or a page alike.
NewPageRef(t, b, p) == t.next
StoreBrowserRootRef(t, b, p) ==
  IF p \in DOMAIN b.root THEN [ref |-> b.root[p], table |-> t, tabs |-> b]
  ELSE LET ref == NewPageRef(t, b, p)
       IN [ref |-> ref, table |-> [t EXCEPT !.next = @ + 1],
           tabs |-> [b EXCEPT !.root = Put(@, p, ref), !.context = Put(@, ref, p)]]
StorePages(t, b, ps) ==
  LET page == SetToSeq(ps)
      stored[k \in 0 .. Len(page)] ==
        IF k = 0 THEN [table |-> t, tabs |-> b]
        ELSE LET s == StoreBrowserRootRef(stored[k - 1].table, stored[k - 1].tabs, page[k])
             IN [table |-> s.table, tabs |-> s.tabs]
  IN stored[Len(page)]

\* modelRefForRootDelta: a ref whose record has the native ref, the first that the
\* map holds, or a new one with a record that has no id.
StoreRootDelta(t, d, w) ==
  LET known  == {r \in DOMAIN t.refs : t.refs[r].native = d.native[w]}
      record == [Row(d, w) EXCEPT !.id = 0]
  IN IF known # {} THEN {[ref |-> r, table |-> t] : r \in known}
     ELSE {[ref |-> t.next,
            table |-> [refs |-> Put(t.refs, t.next, record), by |-> Put(t.by, WindowRecordIdentity(record), t.next),
                       next |-> t.next + 1]]}

(***************************************************************************)
(* Resolution                                                              *)
(***************************************************************************)
\* Mutant: the title decides before the ids.
TitleFirst(r, d) ==
  LET title == {w \in d.open : TitleOf[w] = r.title}
  IN IF title # {} THEN title ELSE {w \in d.open : r.id > 0 /\ IdOf[w] = r.id}
\* The windows a stored ref may lead to: by id, by native ref, by title.
RefMatches(r, d) ==
  LET open   == IF r.app = "app" THEN d.open ELSE {}
      id     == {w \in open : r.id > 0 /\ IdOf[w] = r.id}
      native == {w \in open : r.native > 0 /\ d.native[w] = r.native}
  IN IF id # {} THEN id ELSE IF native # {} THEN native
     ELSE {w \in open : TitleOf[w] = r.title}

\* chooseRankedWindowOrUndefined: one that stands out, if there is one.
Ranked(ws) == IF Cardinality(ws) > 1 THEN ws \cup {NoRoot} ELSE ws

\* The windows the target of a state may lead to, before modals.
TargetMatches(t, d) ==
  LET native == {w \in d.open : t.native > 0 /\ d.native[w] = t.native}
      id     == {w \in d.open : t.id > 0 /\ IdOf[w] = t.id}
      titled == {w \in d.open : TitleOf[w] = t.title}
  IN IF native # {} THEN native ELSE IF id # {} THEN id
     ELSE IF titled # {} THEN Ranked(titled)
     ELSE IF t.id = 0 THEN Ranked(d.open) ELSE {}

\* A modal window in front of the match is taken in its place.
ForegroundModals(w, d) == {m \in d.open : w \in Over[m]}
WithModal(ws, d) == UNION {IF ForegroundModals(w, d) # {} THEN ForegroundModals(w, d) ELSE {w} : w \in ws \ {NoRoot}}

\* resolveFrontmostTarget: the frontmost window by its id, by its title, or any.
FrontMatches(d) ==
  UNION {IF IdOf[f] > 0 THEN {f} ELSE {w \in d.open : TitleOf[w] = TitleOf[f]} : f \in d.open}

Target(d, t, w) == [id |-> IdOf[w], native |-> d.native[w], title |-> TitleOf[w], ref |-> RefIn(t, Row(d, w))]
NoTarget == [id |-> 0, native |-> 0, title |-> "", ref |-> 0]

SameRootIdentity(a, b) ==
  IF a.native > 0 /\ b.native > 0 THEN a.native = b.native
  ELSE IF a.id > 0 /\ b.id > 0 THEN a.id = b.id ELSE a.title = b.title

(***************************************************************************)
(* Calls                                                                   *)
(***************************************************************************)
NoJob == [at |-> "idle"]
NewJob(at, a) ==
  [at |-> at, actor |-> a, session |-> branch.session, record |-> NoTarget, target |-> NoTarget,
   base |-> NoTarget, rows |-> {}, delta |-> {}, page |-> NoRoot, named |-> {}]
Room == branch.calls < MaxRootCalls
Eventful == branch.events < MaxEvents
Event == Eventful /\ branch' = [branch EXCEPT !.events = @ + 1]
Starts(c, job) ==
  /\ jobs[c] = NoJob /\ Room
  /\ jobs' = [jobs EXCEPT ![c] = job]
  /\ branch' = [branch EXCEPT !.calls = @ + 1]
Goes(c, at) == jobs' = [jobs EXCEPT ![c].at = at]
Returns(c) == jobs' = [jobs EXCEPT ![c] = NoJob]
Fails(c) == Returns(c) /\ UNCHANGED <<table, tabs, targets, branch>>

\* A reply reaches the session it was asked in.
Answers(c, entries, kind) ==
  /\ Returns(c)
  /\ branch' = IF jobs[c].session = branch.session
               THEN [branch EXCEPT !.log = Append(@, [kind |-> kind, actor |-> jobs[c].actor,
                                                      session |-> jobs[c].session, entries |-> entries])]
               ELSE branch
\* Who was told which ref for which root, by what the branch holds.
Says(result) ==
  {[actor |-> result.actor, session |-> result.session, by |-> result.kind, ref |-> e.ref, root |-> e.root] :
     e \in result.entries}
Told == UNION {Says(branch.log[k]) : k \in 1 .. Len(branch.log)}

\* find_roots lists the windows and stores a ref for each...
FindWindows(c, a) ==
  /\ \E d \in Listings :
       /\ desk' = d
       /\ table' = StoreEach(table, d, d.open)
       /\ Starts(c, [NewJob("pages", a) EXCEPT
            !.rows = {[ref |-> RefIn(table', Row(d, w)), root |-> w, record |-> Row(d, w)] : w \in d.open}])
  /\ UNCHANGED <<tabs, targets, had>>

PageRow(p) == [app |-> "none", id |-> 0, native |-> 0, title |-> p]
\* Mutant: the pages of every actor.
AllPages(a) == DOMAIN tabs.owner
OwnPages(a) == {p \in DOMAIN tabs.owner : tabs.owner[p] = a}
\* ...then the pages its actor owns.
FindPages(c) ==
  /\ jobs[c].at = "pages"
  /\ LET ps  == OwnPages(jobs[c].actor)
         new == StorePages(table, tabs, ps)
     IN /\ table' = new.table /\ tabs' = new.tabs
        /\ Answers(c, jobs[c].rows \cup {[ref |-> new.tabs.root[p], root |-> p, record |-> PageRow(p)] : p \in ps}, "find")
  /\ UNCHANGED <<desk, targets, had>>

\* The window with an id that find_roots gave a ref for.
FoundFor(r) == {x.root : x \in {y \in Told : y.ref = r /\ y.by = "find" /\ y.root \in Windows}} \cap {w \in desk.open : IdOf[w] > 0}

\* observe_ui of a ref: a page of the actor, or a window by its record.
Observe(c, a, r) ==
  /\ IF r \in DOMAIN tabs.context
     THEN /\ tabs.context[r] \in DOMAIN tabs.owner /\ tabs.owner[tabs.context[r]] = a
          /\ Starts(c, [NewJob("snapshot", a) EXCEPT !.page = tabs.context[r]])
     ELSE /\ r \in DOMAIN table.refs
          /\ Starts(c, [NewJob("resolve", a) EXCEPT !.record = table.refs[r], !.named = FoundFor(r)])
  /\ UNCHANGED <<desk, table, tabs, targets, had>>

Aims(c, d, w, at) ==
  /\ desk' = d
  /\ table' = StoreWindowRef(table, Row(d, w))
  /\ jobs' = [jobs EXCEPT ![c].at = at, ![c].target = Target(d, table', w), ![c].record = NoTarget]

Resolve(c) ==
  /\ jobs[c].at = "resolve"
  /\ \E d \in Listings :
       \/ \E w \in RefMatches(jobs[c].record, d) :
            Aims(c, d, w, "look") /\ UNCHANGED <<tabs, targets, branch, had>>
       \/ RefMatches(jobs[c].record, d) = {} /\ desk' = d /\ Fails(c) /\ UNCHANGED had

\* observe_ui without a root takes the frontmost window.
ObserveFront(c, a) ==
  /\ \E d \in Listings : \E w \in FrontMatches(d) :
       /\ desk' = d /\ table' = StoreWindowRef(table, Row(d, w))
       /\ Starts(c, [NewJob("look", a) EXCEPT !.target = Target(d, table', w)])
  /\ UNCHANGED <<tabs, targets, had>>

\* The helper looks at the target; the capture becomes a saved state.  What an
\* action opened is told with it, or without it once the target is gone.
Looks(c) ==
  /\ jobs[c].at = "look"
  /\ LET w == LedTo(jobs[c].target) IN
     \/ /\ w # NoRoot
        /\ Answers(c, {[ref |-> jobs[c].target.ref, root |-> w, record |-> jobs[c].target]} \cup jobs[c].delta, "seen")
        /\ targets' = targets \cup {jobs[c].target} /\ UNCHANGED <<table, tabs>>
     \/ w = NoRoot /\ jobs[c].delta # {} /\ Answers(c, jobs[c].delta, "acted") /\ UNCHANGED <<table, tabs, targets>>
     \/ w = NoRoot /\ jobs[c].delta = {} /\ Fails(c)
  /\ UNCHANGED <<desk, had>>

Snapshot(c) ==
  /\ jobs[c].at = "snapshot"
  /\ LET new == StoreBrowserRootRef(table, tabs, jobs[c].page)
     IN /\ table' = new.table /\ tabs' = new.tabs
        /\ Answers(c, {[ref |-> new.ref, root |-> jobs[c].page, record |-> PageRow(jobs[c].page)]}, "page")
  /\ UNCHANGED <<desk, targets, had>>

\* launch_browser: the new page belongs to the actor that asked for it.
Launch(c, a, p) ==
  /\ had[p] = {}
  /\ tabs' = [tabs EXCEPT !.owner = Put(@, p, a)]
  /\ had' = [had EXCEPT ![p] = {a}]
  /\ Starts(c, [NewJob("snapshot", a) EXCEPT !.page = p])
  /\ UNCHANGED <<desk, table, targets>>

\* act_ui on a saved state resolves the target anew...
Act(c, a, t) ==
  /\ Starts(c, [NewJob("aim", a) EXCEPT !.base = t])
  /\ UNCHANGED <<desk, table, tabs, targets, had>>

\* ...which also makes it the current target, so that the check that the root is
\* still the one observed compares the new target with itself.
Aim(c) ==
  /\ jobs[c].at = "aim"
  /\ \E d \in Listings :
       LET ws == TargetMatches(jobs[c].base, d) IN
       \/ \E w \in WithModal(ws, d) :
            /\ Aims(c, d, w, "deliver")
            /\ SameRootIdentity(jobs'[c].target, Target(d, table', w))
            /\ UNCHANGED <<tabs, targets, branch, had>>
       \/ (ws = {} \/ NoRoot \in ws) /\ desk' = d /\ Fails(c) /\ UNCHANGED had

\* The helper goes by the look and the element of the state, or by a point once it
\* has brought the target to the front: what it reaches need not be the target, and
\* an open target is no condition.  The window it finds opened, focused or closed is the delta.
Delivers(c) ==
  /\ jobs[c].at = "deliver"
  /\ \/ Fails(c) /\ UNCHANGED desk
     \/ Goes(c, "look") /\ UNCHANGED <<desk, table, tabs, targets, branch>>
     \/ /\ Event
        /\ \E v \in Windows :
             LET opened == [desk EXCEPT !.open = @ \cup ({v} \ desk.gone)] IN
             \E o \in Orders(Unnamed(opened, opened.open)) :
               /\ desk' = NamedBy(opened, opened.open, o) /\ desk'.native[v] > 0
               /\ \E new \in StoreRootDelta(table, desk', v) :
                    /\ table' = new.table
                    /\ jobs' = [jobs EXCEPT ![c].at = "look",
                                           ![c].delta = {[ref |-> new.ref, root |-> v, record |-> NoTarget]}]
        /\ UNCHANGED <<tabs, targets>>
  /\ UNCHANGED had

(***************************************************************************)
(* Windows, helper, owners and sessions                                    *)
(***************************************************************************)
\* What a call may count on no longer holds.
Unnames(gone, ats) ==
  jobs' = [c \in RootCalls |-> IF jobs[c].at \in ats THEN [jobs[c] EXCEPT !.named = @ \ gone] ELSE jobs[c]]

WindowOpens ==
  /\ Event
  /\ \E w \in Windows \ (desk.open \cup desk.gone) : desk' = [desk EXCEPT !.open = @ \cup {w}]
  /\ UNCHANGED <<table, tabs, targets, jobs, had>>
\* A window that closes does not come back: another one with its title does.
WindowCloses ==
  /\ Event
  /\ \E w \in desk.open :
       /\ desk' = [desk EXCEPT !.open = @ \ {w}, !.gone = @ \cup {w}]
       /\ Unnames({w}, {"resolve", "look"})
  /\ UNCHANGED <<table, tabs, targets, had>>

HelperRestarts ==
  /\ Event
  /\ desk' = [desk EXCEPT !.native = [w \in Windows |-> 0], !.minted = 0]
  /\ Unnames(Windows, {"look"})
  /\ UNCHANGED <<table, tabs, targets, had>>

HandoffManagedRoot ==
  /\ Event
  /\ \E p \in DOMAIN tabs.owner, b \in RootActors :
       /\ tabs.owner[p] # b
       /\ tabs' = [tabs EXCEPT !.owner[p] = b]
       /\ had' = [had EXCEPT ![p] = @ \cup {b}]
  /\ UNCHANGED <<desk, table, targets, jobs>>

ReleaseManagedRootsForActor ==
  /\ Event
  /\ \E a \in RootActors :
       LET owned == {p \in DOMAIN tabs.owner : tabs.owner[p] = a}
           kept(f) == [p \in DOMAIN f \ owned |-> f[p]]
       IN /\ owned # {}
          /\ tabs' = [owner |-> kept(tabs.owner), root |-> kept(tabs.root),
                      context |-> [r \in {s \in DOMAIN tabs.context : tabs.context[s] \notin owned} |-> tabs.context[r]]]
  /\ UNCHANGED <<desk, table, targets, jobs, had>>

(***************************************************************************)
(* A session ends, and another starts from a part of its branch            *)
(***************************************************************************)
FoundIn(log) == UNION {log[k].entries : k \in {j \in 1 .. Len(log) : log[j].kind = "find"}}
\* Mutant: the counter starts over.
NextFromOne(found) == 1
NextAfter(found) == IF found = {} THEN 1 ELSE Max({e.ref : e \in found}) + 1
\* The newest result is read first, so the oldest record of a ref stays.
Gives(log, k, r) == log[k].kind = "find" /\ \E e \in log[k].entries : e.ref = r
FirstGiven(log, r) == CHOOSE k \in 1 .. Len(log) : Gives(log, k, r) /\ \A j \in 1 .. k - 1 : ~Gives(log, j, r)
RecordOf(log, r) == (CHOOSE e \in log[FirstGiven(log, r)].entries : e.ref = r).record
RefFor(log, key) ==
  LET named == {e \in FoundIn(log) : WindowRecordIdentity(e.record) = key}
  IN (CHOOSE e \in named : \A g \in named : FirstGiven(log, e.ref) <= FirstGiven(log, g.ref)).ref
Reconstructed(log) ==
  [refs |-> [r \in {e.ref : e \in FoundIn(log)} |-> RecordOf(log, r)],
   by   |-> [key \in {WindowRecordIdentity(e.record) : e \in FoundIn(log)} |-> RefFor(log, key)],
   next |-> NextAfter(FoundIn(log))]
\* Of the observations of an application, the newest is restored.
LastSeen(log) ==
  LET seen == {j \in 1 .. Len(log) : log[j].kind = "seen"}
  IN IF seen = {} THEN {} ELSE {e.record : e \in log[Max(seen)].entries} \ {NoTarget}

\* session_shutdown, then session_start on the same branch or an earlier point of it.
NewSession ==
  /\ Eventful
  /\ \E n \in 0 .. Len(branch.log) :
       LET log == SubSeq(branch.log, 1, n) IN
       /\ branch' = [branch EXCEPT !.session = @ + 1, !.log = log, !.events = @ + 1]
       /\ table' = Reconstructed(log)
       /\ targets' = LastSeen(log)
  /\ tabs' = NoTabs
  /\ Unnames(Windows, {"resolve", "look"})
  /\ UNCHANGED <<desk, had>>

(***************************************************************************)
(* Specification                                                           *)
(***************************************************************************)
RootsInit ==
  /\ desk = [open |-> FirstWindows, gone |-> {}, native |-> [w \in Windows |-> 0], minted |-> 0]
  /\ table = EmptyTable /\ tabs = NoTabs /\ targets = {}
  /\ jobs = [c \in RootCalls |-> NoJob]
  /\ branch = [session |-> 1, calls |-> 0, events |-> 0, log |-> <<>>]
  /\ had = [p \in Pages |-> {}]

RootsNext ==
  \/ \E c \in RootCalls :
       \/ \E a \in RootActors :
            \/ FindWindows(c, a) \/ ObserveFront(c, a)
            \/ \E r \in {x.ref : x \in Told} : Observe(c, a, r)
            \/ \E p \in Pages : Launch(c, a, p)
            \/ \E t \in targets : Act(c, a, t)
       \/ FindPages(c) \/ Resolve(c) \/ Looks(c) \/ Snapshot(c) \/ Aim(c) \/ Delivers(c)
  \/ WindowOpens \/ WindowCloses \/ HelperRestarts
  \/ HandoffManagedRoot \/ ReleaseManagedRootsForActor \/ NewSession

(***************************************************************************)
(* Properties                                                              *)
(***************************************************************************)
\* A ref that was given for a page is nobody's ref for anything else in that session,
\* be it of find_roots, launch_browser, observe_ui or act_ui: windows, pages and root
\* deltas draw on one counter (bridge.ts:1081, 1091, 1654).  A resume restores what
\* find_roots gave, and counts on above it (3876-3919): such a ref is nobody else's in
\* later sessions either, while those of other tools may come again (README, departure 21).
Holds(x, y) == x.session = y.session \/ (x.by = "find" /\ x.session < y.session)
RefsApart == \A x, y \in Told : x.ref = y.ref /\ Holds(x, y) /\ {x.root, y.root} \cap Pages # {} => y.root = x.root
\* ...as an agent that remembers them all would have it.
RefsNeverReused == \A x, y \in Told : x.ref = y.ref /\ x.root \in Pages => y.root = x.root

\* A ref of find_roots that is still in the branch leads to the record of the
\* window it was given for, if the window has an id, however often the session was
\* resumed, and whatever was minted and renumbered since (3876-3919, 1069-1086).
FoundRefsKept ==
  \A e \in FoundIn(branch.log) :
    e.record.id > 0 => e.ref \in DOMAIN table.refs /\ table.refs[e.ref].id = e.record.id

\* What was named keeps its name to itself, as long as the name is restored.
RefsKeepTheirRoots == RefsApart /\ FoundRefsKept

\* observe_ui of a ref of find_roots looks at the window that ref was given for,
\* beside another of the same title, if that window has an id and stays open and
\* the helper lives from the listing to the look (1238-1250, 1405).
NamedWindowSeen == \A c \in RootCalls : jobs[c].at = "look" /\ jobs[c].named # {} => LedTo(jobs[c].target) \in jobs[c].named

\* Nobody is told of a page that never was theirs, by find_roots, observe_ui or
\* launch_browser, through handoffs, closed actors and resumed sessions (1936, 2563).
OwnPagesOnly == \A x \in Told : x.root \in Pages => x.actor \in had[x.root]

\* An action is dispatched only to the root that its state was observed at
\* ("The target root changed after observation. Reobserve the exact root before
\* dispatch; no action was delivered.", bridge.ts:3036).
DispatchedToObservedRoot ==
  \A c \in RootCalls : jobs[c].at = "deliver" => SameRootIdentity(jobs[c].base, jobs[c].target)
=============================================================================
