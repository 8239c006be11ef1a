---------------------------- MODULE Observation ----------------------------
(***************************************************************************)
(* The calls of one actor on one desktop window: observe_ui, search_ui,    *)
(* expand_ui, inspect_ui and act_ui of src/src/bridge.ts, the state store  *)
(* they work from (SavedStates of src/src/state.ts) and the semantic index *)
(* that crawls, in the background, what a bounded look left out.           *)
(*                                                                         *)
(* A call works on its own copy of the state it names (hydrate) and writes *)
(* the copy back when it ends (persistOperation), so two calls that name   *)
(* one state know nothing of each other.  The application changes its tree *)
(* by itself (UserChange) without a new epoch; acting makes a new epoch.   *)
(* A call that meets a stale epoch or a stale element fails and persists   *)
(* nothing; only act_ui looks again and rebinds its target, once.  Looks   *)
(* run under the resource's lease, so they do not overlap a write; that    *)
(* lease is the module ResourceScheduler.                                  *)
(***************************************************************************)
EXTENDS Outline

CONSTANTS Calls, Queries, Ops,  \* the calls, what they search for, the tools they use
          Uis, FirstUi,         \* the trees the application may show, the one at the start
          Changed(_),           \* the trees one change of the application leads to
          Slices,               \* how many nodes a look may walk before its deadline
          StateLimit,           \* perActorLimit
          MaxCalls, MaxChanges   \* bounds

\* Every element of a tree but its root is a child, each of them once at most,
\* and none is below itself.
IsTree(u) ==
  /\ u = [root |-> u.root, nodes |-> u.nodes]
  /\ IsFiniteSet(Wires(u)) /\ u.root \in Wires(u)
  /\ \A w \in Wires(u) : Parents(u, w) = {} => w = u.root
  /\ \A w \in Wires(u) : IsNode(u.nodes[w]) /\ Kids(u, w) \in Seq(Wires(u))
  /\ \A v, w \in Wires(u) : \A i \in DOMAIN Kids(u, v), j \in DOMAIN Kids(u, w) :
       Kids(u, v)[i] = Kids(u, w)[j] => v = w /\ i = j
  /\ \A S \in SUBSET Wires(u) : S # {} => \E w \in S : Parents(u, w) \cap S = {}

ASSUME ObservationAssumption ==
  /\ Slices \subseteq Nat
  /\ FirstUi \in Uis /\ \A u \in Uis : IsTree(u) /\ Changed(u) \subseteq Uis

VARIABLES ui,      \* the application: an outline without refs
          changes, \* how often it changed by itself
          epoch,   \* the epoch of the resource
          saved,   \* SavedStates: a sequence of records, oldest first
          index,   \* the SemanticIndexRecord of the actor and the resource
          calls, started, nextState,
          issued   \* what callers were told: <<stateId, ref, wire>>

oVars == <<ui, changes, epoch, saved, index, calls, started, nextState, issued>>

NoState == 0
NoNote == [k \in {} |-> "seen"]
NoTree == [root |-> Blank, nodes |-> [w \in {} |-> NoRef]]
Idle == [phase |-> "idle", op |-> "none", ref |-> NoRef, query |-> "none",
         st |-> [id |-> NoState, outline |-> NoTree, epoch |-> 0, note |-> NoNote,
                 read |-> TRUE, by |-> "none", epochs |-> {}, since |-> 0, at |-> 0]]
NoIndex == [phase |-> "none", outline |-> NoTree, epoch |-> 0, epochs |-> {}, since |-> 0, at |-> 0,
            stale |-> FALSE]

(* The helper's walk: breadth first until "limit" nodes are in.  A queue   *)
(* entry is an element and the child it starts from; what the walk does    *)
(* not finish is marked truncated, with the child to go on with.           *)
WalkStep(tree, s, limit) ==
  LET w == Head(s.queue)[1]
      from == Head(s.queue)[2]
      rest == SubSeq(Kids(tree, w), from + 1, Len(Kids(tree, w)))
      page == SubSeq(rest, 1, Min({Len(rest), limit - Cardinality(DOMAIN s.nodes)}))
      more == Len(page) < Len(rest)
  IN [queue |-> Tail(s.queue) \o [i \in DOMAIN page |-> <<page[i], 0>>],
      nodes |-> Table([x \in DOMAIN s.nodes \cup ToSet(page) |->
        IF x = w THEN [s.nodes[w] EXCEPT !.kids = page, !.trunc = more, !.next = IF more THEN from + Len(page) ELSE 0]
        ELSE IF x \in DOMAIN s.nodes THEN s.nodes[x]
        ELSE [tree.nodes[x] EXCEPT !.kids = <<>>]])]
Walk(tree, w0, first, limit) ==
  LET walked[n \in 0 .. Cardinality(Wires(tree))] ==
        IF n = 0 THEN [queue |-> << <<w0, first>> >>, nodes |-> [x \in {w0} |-> [tree.nodes[w0] EXCEPT !.kids = <<>>]]]
        ELSE LET s == walked[n - 1]
             IN IF s.queue = <<>> \/ Cardinality(DOMAIN s.nodes) >= limit THEN s ELSE WalkStep(tree, s, limit)
      end == walked[Cardinality(Wires(tree))]
      Entries(x) == {j \in DOMAIN end.queue : end.queue[j][1] = x}
  IN Table([x \in DOMAIN end.nodes |->
       IF Entries(x) = {} THEN end.nodes[x]
       ELSE [end.nodes[x] EXCEPT !.trunc = TRUE, !.next = end.queue[CHOOSE j \in Entries(x) : TRUE][2]]])

\* the looks a deadline can allow at the element w, from one of its children on
BoundedLooks(tree, w, from) ==
  {[root |-> w, nodes |-> Walk(tree, w, from, limit)] : limit \in Slices}

(* SavedStates *)
SavedIds == {saved[i].id : i \in DOMAIN saved}
Get(id) == saved[CHOOSE i \in DOMAIN saved : saved[i].id = id]
Without(id) == IF id \in SavedIds THEN RemoveAt(saved, CHOOSE i \in DOMAIN saved : saved[i].id = id) ELSE saved
\* persistOperation: the newest record replaces its namesake and pushes the oldest out
Persisted(st) ==
  IF st.id = NoState THEN saved
  ELSE LET all == Append(Without(st.id), st)
       IN IF Len(all) > StateLimit THEN Tail(all) ELSE all

Told(st, opened) ==
  {<<st.id, st.outline.nodes[w].ref, w>> : w \in FoldToBudget(st.outline, opened)}
Found(st, query) ==
  {<<st.id, st.outline.nodes[w].ref, w>> : w \in ToSet(SearchOutlineRanked(st.outline, query, 2))}
KnownRefs(id) == {t[2] : t \in {x \in issued : x[1] = id}}
\* a diff names what is new or changed; the rest of what the base showed stays known
ToldChanges(base, st) ==
  LET diff == ChangesBetween(base.outline, st.outline)
      known == diff.added \cup diff.updated \cup (KnownRefs(base.id) \ diff.removed)
  IN {<<st.id, st.outline.nodes[w].ref, w>> : w \in UNION {Named(st.outline, r) : r \in known}}

Reply(c, st, told) ==
  /\ saved' = Persisted(st)
  /\ issued' = issued \cup told
  /\ calls' = [calls EXCEPT ![c] = Idle]
Fail(c) == calls' = [calls EXCEPT ![c] = Idle] /\ UNCHANGED <<saved, issued>>

(* The semantic index *)
Frontiers(o) ==
  LET open == {w \in Wires(o) : o.nodes[w].trunc}
      begun == {w \in open : o.nodes[w].next > 0}
      order == BreadthFirst(o)
  IN Only(order, begun) \o Only(order, open \ begun)
SeedSemanticIndex(st) ==
  index' = [phase |-> IF Frontiers(st.outline) = <<>> THEN "complete" ELSE "crawling",
            outline |-> st.outline, epoch |-> st.epoch, epochs |-> st.epochs,
            since |-> st.since, at |-> st.at, stale |-> FALSE]
\* as if any index of the actor would do
AnyIndexFor(st) == index.phase # "none"
\* semanticIndexForOperation
IndexFor(st) == index.phase # "none" /\ index.epoch = st.epoch

Advanced(o, grafted, w) ==
  Wires(grafted) # Wires(o) \/ grafted.nodes[w].next # o.nodes[w].next \/ ~grafted.nodes[w].trunc
CrawlSlice ==
  /\ index.phase = "crawling" /\ Frontiers(index.outline) # <<>> /\ index.epoch = epoch
  /\ LET o == index.outline
         w == Head(Frontiers(o))
     IN IF w \in Wires(ui)
        THEN \E look \in BoundedLooks(ui, w, o.nodes[w].next) :
               \E grafted \in {GraftScopedOutline(o, look, o.nodes[w].next > 0)} :
                  index' = [index EXCEPT !.outline = grafted, !.epochs = @ \cup {epoch},
                                         !.phase = IF Advanced(o, grafted, w) THEN @ ELSE "error"]
        ELSE index' = [index EXCEPT !.outline.nodes[w].trunc = FALSE, !.outline.nodes[w].next = 0,
                                    !.stale = TRUE]
  /\ UNCHANGED <<ui, changes, epoch, saved, calls, started, nextState, issued>>

CrawlEnd ==
  /\ index.phase = "crawling"
  /\ \/ Frontiers(index.outline) = <<>> /\ index' = [index EXCEPT !.phase = "complete"]
     \/ Frontiers(index.outline) # <<>> /\ index.epoch # epoch /\ index' = [index EXCEPT !.phase = "error"]
  /\ UNCHANGED <<ui, changes, epoch, saved, calls, started, nextState, issued>>

(* The calls *)
Start(c) ==
  /\ calls[c].phase = "idle" /\ started < MaxCalls
  /\ started' = started + 1
  /\ \E op \in Ops, id \in SavedIds \cup {NoState} :
       LET st == IF id = NoState THEN Idle.st ELSE Get(id)
       IN /\ op # "observe" => id # NoState
          /\ \E ref \in IF op \in {"expand", "press", "set"} THEN KnownRefs(id) ELSE {NoRef},
                query \in IF op = "search" THEN Queries ELSE {"none"} :
               calls' = [calls EXCEPT ![c] = [phase |-> "run", op |-> op, ref |-> ref,
                                              query |-> query, st |-> st]]
  /\ UNCHANGED <<ui, changes, epoch, saved, index, nextState, issued>>

\* captureCurrentTarget: a fresh look, named after the outline the call works on
CaptureOf(st, look, e, id) ==
  LET o == IF st.id = NoState THEN BuildOutline(look) ELSE StabilizeRefs(st.outline, look)
  IN [id |-> id, outline |-> o, epoch |-> e, note |-> NoteFromLook(st.note, o),
      read |-> FALSE, by |-> "observe", epochs |-> {e}, since |-> e, at |-> changes]
Captures(st, tree, e, id) ==
  {CaptureOf(st, PruneDetachedWebAreas(look), e, id) : look \in BoundedLooks(tree, tree.root, 0)}

ObserveUi(c) ==
  /\ calls[c].phase = "run" /\ calls[c].op = "observe"
  /\ nextState' = nextState + 1
  /\ \E st \in Captures(calls[c].st, ui, epoch, nextState) :
       SeedSemanticIndex(st) /\ Reply(c, st, Told(st, {}))
  /\ UNCHANGED <<ui, changes, epoch, started>>

ExpandUi(c) ==
  /\ calls[c].phase = "run" /\ calls[c].op = "expand"
  /\ UNCHANGED <<ui, changes, epoch, started, nextState, index>>
  /\ LET st == calls[c].st
         targets == Named(st.outline, calls[c].ref)
         w == CHOOSE x \in targets : TRUE
         node == st.outline.nodes[w]
         live == node.trunc \/ RegionChanged(st.note, st.outline, w)
     IN \/ targets = {} /\ Fail(c)
        \/ targets # {} /\ ~live /\ Reply(c, st, Told(st, {w}))
        \/ targets # {} /\ live /\ (st.epoch # epoch \/ w \notin Wires(ui)) /\ Fail(c)
        \/ /\ targets # {} /\ live /\ st.epoch = epoch /\ w \in Wires(ui)
           /\ \E look \in BoundedLooks(ui, w, node.next) :
                \E o \in {GraftScopedOutline(st.outline, look, node.next > 0)} :
                  \E grown \in {[st EXCEPT !.outline = o, !.epochs = @ \cup {epoch}]} :
                     Reply(c, grown, Told(grown, {w}))

\* search_ui answers from the copy, or waits for the index
SearchUi(c) ==
  /\ calls[c].phase = "run" /\ calls[c].op = "search"
  /\ UNCHANGED <<ui, changes, epoch, started, nextState, index>>
  /\ LET st == calls[c].st
     IN IF IndexFor(st) /\ index.phase = "crawling" /\ ~HasDefinitiveSearchMatch(st.outline, calls[c].query)
        THEN calls' = [calls EXCEPT ![c].phase = "waiting"] /\ UNCHANGED <<saved, issued>>
        ELSE calls' = [calls EXCEPT ![c].phase = "ranked"] /\ UNCHANGED <<saved, issued>>

\* waitForSemanticIndex: complete, failed, a match, or the deadline
SearchWaits(c) ==
  /\ calls[c].phase = "waiting"
  /\ calls' = [calls EXCEPT ![c].phase = "ranked"]
  /\ UNCHANGED <<ui, changes, epoch, saved, index, started, nextState, issued>>

\* adoptSemanticIndex: a richer index becomes a state of its own
SearchAdopts(c) ==
  LET st == calls[c].st
      adopted == [st EXCEPT !.id = nextState, !.outline = index.outline, !.by = "index",
                            !.epochs = index.epochs, !.since = index.since, !.at = index.at,
                            !.note = NoteFromLook(@, index.outline)]
      richer == IndexFor(st) /\ Cardinality(Wires(index.outline)) > Cardinality(Wires(st.outline))
  IN /\ calls[c].phase = "ranked"
     /\ nextState' = IF richer THEN nextState + 1 ELSE nextState
     /\ calls' = [calls EXCEPT ![c].phase = "found", ![c].st = IF richer THEN adopted ELSE st]
     /\ saved' = IF richer THEN Persisted(adopted) ELSE saved
     /\ UNCHANGED <<ui, changes, epoch, index, started, issued>>

\* nothing found: one look with text recognition per look, at the state's epoch
SearchReads(c) ==
  /\ calls[c].phase = "found"
  /\ UNCHANGED <<ui, changes, epoch, started, index>>
  /\ LET st == calls[c].st
         reads == SearchOutlineRanked(st.outline, calls[c].query, 2) = <<>> /\ ~st.read
     IN IF ~reads THEN Reply(c, st, Found(st, calls[c].query)) /\ UNCHANGED nextState
        ELSE IF st.epoch # epoch THEN Fail(c) /\ UNCHANGED nextState
        ELSE /\ nextState' = nextState + 1
             /\ \E seen \in Captures(st, ui, epoch, nextState) :
                  \E fresh \in {[seen EXCEPT !.read = TRUE]} :
                     Reply(c, fresh, Found(fresh, calls[c].query))

\* inspect_ui reads the copy, and writes it back like any other call
InspectUi(c) ==
  /\ calls[c].phase = "run" /\ calls[c].op = "inspect"
  /\ Reply(c, calls[c].st, {})
  /\ UNCHANGED <<ui, changes, epoch, index, started, nextState>>

\* captureEditedTargets: only the edited element is looked at again
EditOf(st, o, e, id) ==
  [st EXCEPT !.id = id, !.outline = o, !.epoch = e, !.by = "edit",
             !.note = NoteFromLook(st.note, o), !.epochs = @ \cup {e}]
Edits(st, w, e, id) ==
  {EditOf(st, GraftScopedOutline(st.outline, look, FALSE), e, id) : look \in BoundedLooks(ui, w, 0)}
\* the note marks the region of whatever has the ref in the successor
Acted(next, ref) == [next EXCEPT !.note = NoteAfterAct(@, next.outline, Named(next.outline, ref))]

\* performAct: a stale state is looked at again, and the action rebound to it
Stale(st, w) == st.epoch # epoch \/ w \notin Wires(ui)
RecoverAct(c) ==
  /\ calls[c].phase = "run" /\ calls[c].op \in {"press", "set"}
  /\ \E st \in {calls[c].st} : \E w \in Named(st.outline, calls[c].ref) :
       /\ Stale(st, w)
       /\ nextState' = nextState + 1
       /\ \E fresh \in Captures(st, ui, epoch, nextState) :
            /\ SeedSemanticIndex(fresh)
            /\ \/ /\ \E x \in MatchFingerprint(st.outline, w, fresh.outline) :
                       calls' = [calls EXCEPT ![c].phase = "again", ![c].st = fresh,
                                              ![c].ref = fresh.outline.nodes[x].ref]
                  /\ UNCHANGED <<saved, issued>>
               \/ MayRefuse(st.outline, w, fresh.outline) /\ Fail(c)
  /\ UNCHANGED <<ui, changes, epoch, started>>

\* act_ui holds the lane: delivery, new epoch and successor are one step
ActUi(c) ==
  /\ calls[c].phase \in {"run", "again"} /\ calls[c].op \in {"press", "set"}
  /\ LET st == calls[c].st
         targets == Named(st.outline, calls[c].ref)
         w == CHOOSE x \in targets : TRUE
     IN \/ /\ targets = {} \/ (calls[c].phase = "again" /\ Stale(st, w))
           /\ Fail(c) /\ UNCHANGED <<ui, epoch, nextState, index>>
        \/ /\ targets # {} /\ ~Stale(st, w)
           /\ epoch' = epoch + 1 /\ nextState' = nextState + 1
           /\ \E tree \in IF calls[c].op = "press" THEN Changed(ui) \cup {ui} ELSE {ui} :
                /\ ui' = tree
                /\ \E seen \in IF calls[c].op = "press" THEN Captures(st, tree, epoch + 1, nextState)
                               ELSE Edits(st, w, epoch + 1, nextState) :
                     \E next \in {Acted(seen, calls[c].ref)} :
                        SeedSemanticIndex(next) /\ Reply(c, next, ToldChanges(st, next))
  /\ UNCHANGED <<changes, started>>

UserChange ==
  /\ changes < MaxChanges /\ changes' = changes + 1
  /\ ui' \in Changed(ui)
  /\ UNCHANGED <<epoch, saved, index, calls, started, nextState, issued>>

ObservationInit ==
  /\ ui = FirstUi /\ changes = 0 /\ epoch = 0
  /\ saved = <<>> /\ index = NoIndex /\ nextState = 1 /\ issued = {}
  /\ calls = [c \in Calls |-> Idle] /\ started = 0

\* nothing is left to do; no other state may be without a step
ObservationOver == index.phase # "crawling" /\ \A c \in Calls : calls[c].phase = "idle"
Rest == ObservationOver /\ UNCHANGED oVars

CallStep(c) == \/ ObserveUi(c) \/ ExpandUi(c) \/ SearchUi(c) \/ SearchWaits(c) \/ SearchAdopts(c)
               \/ SearchReads(c) \/ InspectUi(c) \/ RecoverAct(c) \/ ActUi(c)
ObservationNext == \/ \E c \in Calls : Start(c) \/ CallStep(c)
                   \/ CrawlSlice \/ CrawlEnd \/ UserChange \/ Rest

-----------------------------------------------------------------------------
Outlines == {saved[i].outline : i \in DOMAIN saved} \cup {index.outline}

(* A ref names one element: no two nodes of a saved state, or of the       *)
(* index, share a ref.  Stabilizing hands out refs of another outline and  *)
(* grafting numbers new nodes beside old ones; both must not collide.      *)
RefNamesOneElement ==
  \A o \in Outlines : \A w, x \in Wires(o) : o.nodes[w].ref = o.nodes[x].ref => w = x

(* A saved state holds only what was read since the look it stems from, at *)
(* its own epoch or, after an edit that looked at one element again, at an *)
(* epoch of the edits in between: the crawler, expand_ui and the look for  *)
(* text stop at a write, and an index is taken over only at its own epoch. *)
OneEpochPerState ==
  \A i \in DOMAIN saved : saved[i].epochs \subseteq saved[i].since .. saved[i].epoch

InOrder(part, all) == Only(all, ToSet(part)) = part

(* An index that says it is complete has every live element of the         *)
(* application in the application's order, if the application kept still.  *)
CompleteIndexIsWhole ==
  (index.phase = "complete" /\ ~index.stale /\ index.at = changes /\ index.epoch = epoch)
    => LET whole == PruneDetachedWebAreas(ui)
       IN \A w \in Wires(whole) : /\ w \in Wires(index.outline)
                                  /\ InOrder(Kids(whole, w), Kids(index.outline, w))

(* A successor gives a ref of its base only to the element that had it, if *)
(* its identifier, or else its kind, or else its text is what it was, or   *)
(* to one of the same role, identifier, kind and label.                    *)
CarriedRefsLookAlike(c) ==
  \A i \in DOMAIN saved' :
    (saved'[i].id = nextState /\ saved'[i].by = "observe" /\ calls[c] # calls'[c]) =>
      LET base == calls[c].st.outline
          o == saved'[i].outline
      IN \A b \in Wires(base), w \in Wires(o) :
           base.nodes[b].ref = o.nodes[w].ref =>
             \/ b = w /\ WireIdentityCompatible(base.nodes[b], o.nodes[w])
             \/ Token(base, b) = Token(o, w)

(* A recovered action goes where it was meant to go: to the very element   *)
(* the caller named if that is still there and looks as it did, whatever   *)
(* ref the fresh state gives it, and else to one of its role that either   *)
(* is the only one with its identifier, whatever it reads now, or has its  *)
(* label.                                                                  *)
Meant(base, b, o, w) ==
  /\ o.nodes[w].role = base.nodes[b].role
  /\ ByIdentifier(base, b, o) = {w} \/ LabelOf(o.nodes[w]) = LabelOf(base.nodes[b])
ReboundAlike(c) ==
  (calls[c].phase = "run" /\ calls'[c].phase = "again") =>
    LET base == calls[c].st.outline
        o == calls'[c].st.outline
    IN \A b \in Named(base, calls[c].ref), w \in Named(o, calls'[c].ref) :
         IF KeepsWire(base, b, o) THEN w = b ELSE Meant(base, b, o, w)

(* Refs keep their meaning, in a successor and in a recovered action.  What *)
(* an element reads is part of it only where nothing else identifies it:   *)
(* the macOS helper gives every element a roleDescription, so there a ref  *)
(* stays with an element that has come to show something else.             *)
RefsKeepMeaning == [][\A c \in Calls : CarriedRefsLookAlike(c) /\ ReboundAlike(c)]_oVars

(* A graft adds: expand_ui leaves every element of the copy it works on,   *)
(* and a slice of the crawl every element of the index, in the tree and    *)
(* under its name, also what the new look does not show.                   *)
Keeps(o, p) == \A w \in Wires(o) : w \in Below(p, p.root) /\ p.nodes[w].ref = o.nodes[w].ref
GraftsOnlyAdd ==
  [][/\ \A c \in Calls, i \in DOMAIN saved' :
          (calls[c].op = "expand" /\ calls'[c] = Idle /\ saved' # saved /\ saved'[i].id = calls[c].st.id)
             => Keeps(calls[c].st.outline, saved'[i].outline)
     /\ calls' = calls => Keeps(index.outline, index'.outline)]_oVars

(* "old refs either resolve to their exact observation or fail clearly     *)
(* after eviction" (docs/architecture.md): every name given to a caller    *)
(* still means that element while its state is saved.                      *)
OldRefsResolve ==
  \A t \in issued : t[1] \in SavedIds => Named(Get(t[1]).outline, t[2]) = {t[3]}

(* "Preserve public refs only when native or structural identity is        *)
(* unambiguous" (view.ts): an element that is still there, looks as it did *)
(* and kept its native identity keeps its ref in a successor.              *)
IdentityKeepsRef ==
  [][\A c \in Calls, i \in DOMAIN saved' :
       (saved'[i].id = nextState /\ saved'[i].by = "observe" /\ calls[c] # calls'[c]) =>
         LET base == calls[c].st.outline
             o == saved'[i].outline
         IN \A w \in Wires(base) \cap Wires(o) :
              WireIdentityCompatible(base.nodes[w], o.nodes[w]) => base.nodes[w].ref = o.nodes[w].ref]_oVars
=============================================================================
