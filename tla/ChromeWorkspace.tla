--------------------------- MODULE ChromeWorkspace ---------------------------
(***************************************************************************)
(* The Chrome companion: chrome-extension/service-worker.js, with the      *)
(* requests that src/chrome-extension-bridge.ts sends it and the fallback  *)
(* of createCdpPageContext in src/cdp.ts.  Every SCUA process has a        *)
(* workspace, a tab group that holds the tabs made for it.  All workspaces *)
(* are one map under one storage key: an operation reads the whole map,    *)
(* awaits Chrome, and saves the whole map.  What changes a workspace       *)
(* queues for it; listTabs and the checks of a command do not.             *)
(*                                                                         *)
(* A step is what happens between two awaits.  A group is named by the tab *)
(* it was made for, and exists as long as a tab is in it.                  *)
(***************************************************************************)
EXTENDS Integers, Sequences, SequencesExt, FiniteSets

CONSTANTS Workspace, Tab, Request,
          NoTab,        \* no tab, no group
          Wants,        \* request -> its kind, its workspace, and whether its connection is flaky
          PreconnectRetries, \* four
          UserMoves     \* how often the user closes, ungroups or renames something

Kinds == {"ensure", "list", "close", "closeTab", "command"}
ASSUME ChromeAssumption ==
  /\ NoTab \notin Tab \cup Workspace /\ Request \cap Tab = {} /\ PreconnectRetries \in Nat /\ UserMoves \in Nat
  /\ \A want \in Wants :
       DOMAIN want \subseteq Request /\ \A r \in DOMAIN want : want[r] \in [kind : Kinds, ws : Workspace, flaky : BOOLEAN]

VARIABLES stored,    \* workspace -> its record in the session storage
          tabs,      \* tab -> where it is, and the workspace it was made for
          renamed,   \* groups whose title is not that of their workspace
          queue,     \* workspaceMutations: what waits for a workspace
          req,       \* the requests, on both sides of the relay
          listener,  \* tab -> the onRemoved callback for it
          moves      \* of the user

chromeVars == <<stored, tabs, renamed, queue, req, listener, moves>>

Record == [group : Tab \cup {NoTab}, owned : SUBSET Tab]
\* An absent record reads like this one.
NoRecord == [group |-> NoTab, owned |-> {}]

InGroup(g) == {t \in Tab : tabs[t].at = "open" /\ tabs[t].group = g}
GroupExists(g) == g # NoTab /\ InGroup(g) # {}

\* The group a workspace goes on with, and its record without one that is gone.
ExistingGroup(record) == IF GroupExists(record.group) /\ record.group \notin renamed THEN record.group ELSE NoTab
Refreshed(record) == IF GroupExists(record.group) THEN record ELSE [record EXCEPT !.group = NoTab]

\* Client side: retried while unsent; worker side: at names the next step.
NewRequest(want) ==
  [kind |-> want.kind, ws |-> want.ws, flaky |-> want.flaky, client |-> "unsent", tries |-> 0, at |-> "none", read |-> [w \in Workspace |-> NoRecord],
   tab |-> NoTab, group |-> NoTab, chosen |-> {}, managed |-> 0]

ChromeInit ==
  /\ stored = [w \in Workspace |-> NoRecord]
  /\ tabs = [t \in Tab |-> [at |-> "unborn", group |-> NoTab, for |-> NoTab]]
  /\ renamed = {}
  /\ queue = [w \in Workspace |-> <<>>]
  /\ \E want \in Wants : req = [r \in DOMAIN want |-> NewRequest(want[r])]
  /\ listener = [t \in Tab |-> [at |-> "none", ws |-> NoTab, read |-> [w \in Workspace |-> NoRecord]]]
  /\ moves = 0

NoChrome ==
  /\ stored = [w \in Workspace |-> NoRecord]
  /\ tabs = [t \in Tab |-> [at |-> "unborn", group |-> NoTab, for |-> NoTab]]
  /\ renamed = {} /\ queue = [w \in Workspace |-> <<>>] /\ moves = UserMoves
  /\ req = [r \in {} |-> 0]
  /\ listener = [t \in Tab |-> [at |-> "none", ws |-> NoTab, read |-> [w \in Workspace |-> NoRecord]]]

(***************************************************************************)
(* The client.                                                             *)
(***************************************************************************)
\* What queues for its workspace.
Mutates(r) == req[r].kind \in {"ensure", "close", "closeTab"}

\* Bytes may have reached the companion.
RequestSent(r) == req[r].client # "unsent"

\* ensureTab, of createCdpPageContext: nobody is there, or nobody answers
\* before the connection stands; only then is a managed browser asked.
\* Mutant: also when the request was sent.
FallsBackAnyway(r) == req[r].kind = "ensure"
FallsBack(r) == req[r].kind = "ensure" /\ ~RequestSent(r)

ClientFails(r, how) ==
  \E there \in BOOLEAN :
    req' = [req EXCEPT ![r].client = how, ![r].managed = IF FallsBack(r) /\ there THEN @ + 1 ELSE @]

\* The request is written, and the worker takes it up: ensure, close and
\* closeTab queue for their workspace.
Connects(r) ==
  /\ req[r].client = "unsent"
  /\ \E target \in IF req[r].kind \in {"closeTab", "command"} THEN Tab ELSE {NoTab} :
       req' = [req EXCEPT ![r].client = "sent", ![r].tab = target, ![r].at = IF Mutates(r) THEN "queued" ELSE "start"]
  /\ queue' = IF Mutates(r) THEN [queue EXCEPT ![req[r].ws] = Append(@, r)] ELSE queue
  /\ UNCHANGED <<stored, tabs, renamed, listener, moves>>

\* Refused or no socket: again after a delay, four times.
ConnectFails(r) ==
  /\ req[r].flaky /\ req[r].client = "unsent"
  /\ IF req[r].tries < PreconnectRetries THEN req' = [req EXCEPT ![r].tries = @ + 1] ELSE ClientFails(r, "failed")
  /\ UNCHANGED <<stored, tabs, renamed, queue, listener, moves>>

\* A timeout, or the relay goes away: the worker goes on, if it has begun.
GivesUp(r) ==
  /\ req[r].flaky /\ req[r].client \in {"unsent", "sent"}
  /\ ClientFails(r, IF RequestSent(r) THEN "uncertain" ELSE "failed")
  /\ UNCHANGED <<stored, tabs, renamed, queue, listener, moves>>

\* The relay passes the answer to the connection that asked.
Answered(r) ==
  /\ req[r].client = "sent"
  /\ req[r].at \in {"done", "error"}
  /\ IF req[r].at = "done" THEN req' = [req EXCEPT ![r].client = "answered"] ELSE ClientFails(r, "refused")
  /\ UNCHANGED <<stored, tabs, renamed, queue, listener, moves>>

(***************************************************************************)
(* The worker.  A step of a request gives its next step; work that leaves  *)
(* its queue lets the next one in.                                         *)
(***************************************************************************)
Runs(who, w) == queue[w] # <<>> /\ Head(queue[w]) = who
Leaves(w) == queue' = [queue EXCEPT ![w] = Tail(@)]
\* The end of a request; what it has read is forgotten.
NoMap == [w \in Workspace |-> NoRecord]
To(r, at) == [req EXCEPT ![r].at = at, ![r].read = NoMap, ![r].group = NoTab, ![r].chosen = {}]
LeavesQueue(r) == IF Mutates(r) THEN Leaves(req[r].ws) ELSE UNCHANGED queue

\* Mutant: what waits behind a failure waits for ever.
ThrowsInLane(r) == req' = To(r, "error") /\ UNCHANGED queue
\* A request throws, outside of the finishing of a tab inside its lane.
Throws(r) == req' = To(r, "error") /\ LeavesQueue(r)
Mine(r) == req[r].read[req[r].ws]

\* Mutant: nothing waits.
ReadsMapAtOnce(r) ==
  /\ req[r].at \in {"queued", "start"}
  /\ req' = [req EXCEPT ![r].at = "read", ![r].read = stored]
  /\ UNCHANGED <<stored, tabs, renamed, queue, listener, moves>>
\* allWorkspaces: a copy of the whole map.
ReadsMap(r) ==
  /\ \/ req[r].at = "queued" /\ Runs(r, req[r].ws)
     \/ req[r].at = "start"
  /\ req' = [req EXCEPT ![r].at = "read", ![r].read = stored]
  /\ UNCHANGED <<stored, tabs, renamed, queue, listener, moves>>

\* ensureTab: into the group that is there, or a new one.
FindsGroup(r) ==
  /\ req[r].kind = "ensure" /\ req[r].at = "read"
  /\ req' = [req EXCEPT ![r].at = "create", ![r].group = ExistingGroup(Mine(r)), ![r].read[req[r].ws] = Refreshed(@)]
  /\ UNCHANGED <<stored, tabs, renamed, queue, listener, moves>>

CreatesTab(r) ==
  /\ req[r].at = "create"
  /\ \E t \in Tab :
       /\ tabs[t].at = "unborn"
       /\ tabs' = [tabs EXCEPT ![t] = [at |-> "open", group |-> NoTab, for |-> req[r].ws]]
       /\ req' = [req EXCEPT ![r].at = "group", ![r].tab = t]
  /\ UNCHANGED <<stored, renamed, queue, listener, moves>>

\* The tab is put into the group; a new group is given its title.
GroupsTab(r) ==
  /\ req[r].at = "group"
  /\ LET t == req[r].tab
         g == IF req[r].group = NoTab THEN t ELSE req[r].group
     IN IF tabs[t].at = "open" /\ (req[r].group # NoTab => GroupExists(g))
        THEN /\ tabs' = [tabs EXCEPT ![t].group = g]
             /\ req' = [req EXCEPT ![r].at = "save", ![r].read[req[r].ws] = [group |-> g, owned |-> @.owned \cup {t}]]
             /\ UNCHANGED queue
        ELSE Throws(r) /\ UNCHANGED tabs
  /\ UNCHANGED <<stored, renamed, listener, moves>>

\* listTabs: without the lane; tabs that are gone or left the group are dropped.
Lists(r) ==
  /\ req[r].kind = "list" /\ req[r].at = "read"
  /\ LET kept == Refreshed(Mine(r)) IN
       req' = [req EXCEPT ![r].at = "save", ![r].read[req[r].ws] = [kept EXCEPT !.owned = @ \cap InGroup(kept.group)]]
  /\ UNCHANGED <<stored, tabs, renamed, queue, listener, moves>>

\* requireOwnedTab, of closeTab and of a command.
ChecksTab(r) ==
  /\ req[r].kind \in {"closeTab", "command"} /\ req[r].at = "read"
  /\ LET t == req[r].tab IN
       \/ /\ t \notin Mine(r).owned \/ tabs[t].at # "open"
          /\ Throws(r)
       \/ /\ t \in Mine(r).owned /\ tabs[t].at = "open" /\ tabs[t].group # Mine(r).group
          /\ req' = [req EXCEPT ![r].at = "prune", ![r].read[req[r].ws].owned = @ \ {t}]
          /\ UNCHANGED queue
       \/ /\ t \in Mine(r).owned /\ tabs[t].at = "open" /\ tabs[t].group = Mine(r).group
          /\ req' = [req EXCEPT ![r].at = "act", ![r].chosen = {t}]
          /\ UNCHANGED queue
  /\ UNCHANGED <<stored, tabs, renamed, listener, moves>>

\* close: the open tabs of the workspace that are still in its group.
CollectsTabs(r) ==
  /\ req[r].kind = "close" /\ req[r].at = "read"
  /\ req' = [req EXCEPT ![r].at = "act", ![r].chosen = Mine(r).owned \cap InGroup(Mine(r).group), ![r].read[req[r].ws] = NoRecord]
  /\ UNCHANGED <<stored, tabs, renamed, queue, listener, moves>>

\* Tabs go away, and Chrome calls the listener for each.
GoAway(gone) ==
  /\ tabs' = [t \in Tab |-> IF t \in gone THEN [tabs[t] EXCEPT !.at = "gone", !.group = NoTab] ELSE tabs[t]]
  /\ listener' = [t \in Tab |-> IF t \in gone THEN [listener[t] EXCEPT !.at = "heard"] ELSE listener[t]]

RemovesTabs(r) ==
  /\ req[r].kind \in {"close", "closeTab"} /\ req[r].at = "act"
  /\ LET gone == {t \in req[r].chosen : tabs[t].at = "open"} IN
       IF req[r].kind = "closeTab" /\ gone = {}
       THEN Throws(r) /\ UNCHANGED <<tabs, listener>>
       ELSE /\ GoAway(gone)
            /\ req' = [req EXCEPT ![r].at = "save", ![r].read[req[r].ws].owned = @ \ req[r].chosen]
            /\ UNCHANGED queue
  /\ UNCHANGED <<stored, renamed, moves>>

\* A command of the debugger; it fails on a tab that is gone by now.
Commands(r) ==
  /\ req[r].kind = "command" /\ req[r].at = "act"
  /\ req' = To(r, IF tabs[req[r].tab].at = "open" THEN "done" ELSE "error")
  /\ UNCHANGED <<stored, tabs, renamed, queue, listener, moves>>

\* saveRuntimeWorkspaces: the whole map, as it was read but for this workspace.
SavesMap(r) ==
  /\ req[r].at \in {"save", "prune"}
  /\ stored' = req[r].read
  /\ req' = To(r, IF req[r].at = "prune" THEN "error" ELSE IF req[r].kind = "ensure" THEN "finish" ELSE "done")
  /\ LeavesQueue(r)
  /\ UNCHANGED <<tabs, renamed, listener, moves>>

\* waitForTabReady and attach, out of the lane: a timeout or a tab that is gone is an error.
FinishesTab(r) ==
  /\ req[r].at = "finish"
  /\ req' \in {To(r, "error")} \cup (IF tabs[req[r].tab].at = "open" THEN {To(r, "done")} ELSE {})
  /\ UNCHANGED <<stored, tabs, renamed, queue, listener, moves>>

\* The listener: it reads the map for the workspace of the tab, queues for
\* it, and there reads the map again.
ListenerReads(t) ==
  /\ listener[t].at = "heard"
  /\ \/ /\ \A w \in Workspace : t \notin stored[w].owned
        /\ listener' = [listener EXCEPT ![t].at = "done"]
        /\ UNCHANGED queue
     \/ \E w \in Workspace :
          /\ t \in stored[w].owned
          /\ listener' = [listener EXCEPT ![t].at = "queued", ![t].ws = w]
          /\ queue' = [queue EXCEPT ![w] = Append(@, t)]
  /\ UNCHANGED <<stored, tabs, renamed, req, moves>>

ListenerRuns(t) ==
  /\ listener[t].at = "queued" /\ Runs(t, listener[t].ws)
  /\ listener' = [listener EXCEPT ![t].at = "save", ![t].read = stored]
  /\ UNCHANGED <<stored, tabs, renamed, queue, req, moves>>

ListenerSaves(t) ==
  /\ listener[t].at = "save"
  /\ stored' = [listener[t].read EXCEPT ![listener[t].ws].owned = @ \ {t}]
  /\ listener' = [listener EXCEPT ![t].at = "done", ![t].read = NoMap]
  /\ Leaves(listener[t].ws)
  /\ UNCHANGED <<tabs, renamed, req, moves>>

\* The user closes a tab, takes it out of its group, or renames a group.
UserActs ==
  /\ moves < UserMoves
  /\ moves' = moves + 1
  /\ \E t \in Tab :
       /\ tabs[t].at = "open"
       /\ \/ GoAway({t}) /\ UNCHANGED renamed
          \/ tabs[t].group # NoTab /\ tabs' = [tabs EXCEPT ![t].group = NoTab] /\ UNCHANGED <<renamed, listener>>
          \/ GroupExists(t) /\ renamed' = renamed \cup {t} /\ UNCHANGED <<tabs, listener>>
  /\ UNCHANGED <<stored, queue, req>>

WorkerStep(r) ==
  \/ ReadsMap(r) \/ FindsGroup(r) \/ CreatesTab(r) \/ GroupsTab(r) \/ Lists(r) \/ ChecksTab(r)
  \/ CollectsTabs(r) \/ RemovesTabs(r) \/ Commands(r) \/ SavesMap(r) \/ FinishesTab(r)
ClientStep(r) == Connects(r) \/ ConnectFails(r) \/ GivesUp(r) \/ Answered(r)
ListenerStep(t) == ListenerReads(t) \/ ListenerRuns(t) \/ ListenerSaves(t)

ChromeNext ==
  \/ UserActs
  \/ \E r \in DOMAIN req : WorkerStep(r) \/ ClientStep(r)
  \/ \E t \in Tab : ListenerStep(t)

\* The worker goes on, and the timer of a client is due in the end.
ChromeFairness ==
  /\ \A r \in Request : WF_chromeVars(r \in DOMAIN req /\ WorkerStep(r)) /\ WF_chromeVars(r \in DOMAIN req /\ ClientStep(r))
  /\ \A t \in Tab : WF_chromeVars(ListenerStep(t))
ChromeSpec == ChromeInit /\ [][ChromeNext]_chromeVars /\ ChromeFairness

(***************************************************************************)
(* Properties.                                                             *)
(***************************************************************************)
ChromeTypeOK ==
  /\ stored \in [Workspace -> Record]
  /\ \A t \in Tab : tabs[t].at \in {"unborn", "open", "gone"} /\ tabs[t].group \in Tab \cup {NoTab} /\ tabs[t].for \in Workspace \cup {NoTab}
  /\ \A w \in Workspace : Range(queue[w]) \subseteq Request \cup Tab
  /\ \A r \in DOMAIN req : req[r].client \in {"unsent", "sent", "answered", "refused", "failed", "uncertain"} /\ req[r].managed \in 0..1

\* A request for a page makes at most one tab, in the companion or in a
\* managed browser, however its connection fails.
OneTabPerRequest ==
  \A r \in DOMAIN req : req[r].kind = "ensure" => req[r].managed + (IF req[r].tab = NoTab THEN 0 ELSE 1) <= 1

\* No workspace records, closes or commands a tab that was not made for it.
Confined ==
  /\ \A w \in Workspace : \A t \in stored[w].owned : tabs[t].for = w
  /\ \A r \in DOMAIN req : \A t \in req[r].chosen : tabs[t].for = req[r].ws

\* "Multiple actors can work in different tabs concurrently": a tab that was
\* made for a workspace, reported, and left where it is, in a group that keeps
\* its title, stays its own until the workspace is closed.
Tracked ==
  \A r \in DOMAIN req :
    LET t == req[r].tab IN
    req[r].kind = "ensure" /\ req[r].at = "done" /\ tabs[t].at = "open" /\ tabs[t].group # NoTab /\ renamed = {}
      /\ (\A q \in DOMAIN req : req[q].kind = "close" => req[q].at = "none")
      => t \in stored[req[r].ws].owned

\* It does, as long as everything of one workspace goes through its lane and
\* the others are quiet.
TrackedInLane ==
  (\A r, q \in DOMAIN req : req[r].ws = req[q].ws /\ Mutates(r)) => Tracked

\* What a workspace has is what was made for it: no more and no less.
WorkspacesSound == Confined /\ TrackedInLane

\* A lane drains, whatever fails in it, and every request is answered or given up.
ChromeOver == \A r \in DOMAIN req : req[r].client \notin {"unsent", "sent"} /\ req[r].at \in {"none", "done", "error"}
ChromeEnds == <>[]ChromeOver
=============================================================================
