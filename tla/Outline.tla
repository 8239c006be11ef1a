------------------------------ MODULE Outline ------------------------------
(***************************************************************************)
(* The trees scua keeps of a window: src/src/outline.ts, the naming and    *)
(* diffing of successive trees in src/src/view.ts and the notes of         *)
(* src/src/note.ts, as operators.  An outline is                           *)
(*    [root |-> wire, nodes |-> [wire -> node]]                            *)
(* with node [ref, role, ident, kind, label, value, live, kids, trunc,     *)
(* next]: "wire" is the native identity of an element                      *)
(* (OutlineNode.wireRef), "ref" the number n of its public name @en,       *)
(* "role" its role and subrole, "ident" its identifier, "kind" its         *)
(* roleDescription or, where it has none, its placeholder, "label" its     *)
(* title or description, "value" its value, "live" that a web area is on   *)
(* screen and not degenerate, "kids" the children in order, and "trunc"    *)
(* and "next" the point where a bounded walk stopped (truncated,           *)
(* nextChildIndex; an absent index counts as 0).  A text that is not there *)
(* is Blank.  An element keeps its parent between two looks.               *)
(***************************************************************************)
EXTENDS Integers, Sequences, FiniteSets, SequencesExt, FiniteSetsExt, TLC

CONSTANTS MaxDepth, MaxNodes,   \* the budget of foldToBudget
          Reason                \* [query -> [text -> how the text matches it]]

Blank == ""
\* the function f, worked out once
Table(f) == CHOOSE g \in {f} : TRUE
\* what of seq is in S, in its order
Only(seq, S) == FlattenSeq([i \in DOMAIN seq |-> IF seq[i] \in S THEN <<seq[i]>> ELSE <<>>])
NoRef == 0
Wires(o) == DOMAIN o.nodes
Refs(o) == {o.nodes[w].ref : w \in Wires(o)}
Kids(o, w) == o.nodes[w].kids
\* nodeByRef
Named(o, ref) == {w \in Wires(o) : o.nodes[w].ref = ref}
IsNode(n) ==
  /\ n = [ref |-> n.ref, role |-> n.role, ident |-> n.ident, kind |-> n.kind, label |-> n.label, value |-> n.value,
          live |-> n.live, kids |-> n.kids, trunc |-> n.trunc, next |-> n.next]
  /\ n.ref \in Nat /\ n.next \in Nat
Looks(n) == <<n.role, n.ident, n.kind, n.label, n.value>>
Texts(n) == <<n.label, n.kind, n.value, n.ident>>
\* outlineNodeLabel: the first text there is
LabelOf(n) ==
  LET given == SelectSeq(Texts(n), LAMBDA t : t # Blank)
  IN IF given = <<>> THEN Blank ELSE given[1]
Parents(o, w) == {p \in Wires(o) : \E i \in DOMAIN Kids(o, p) : Kids(o, p)[i] = w}

\* No path is longer than there are elements.
PathTo(o, w) ==
  LET path[n \in 0 .. Cardinality(Wires(o))] ==
        [x \in Wires(o) |->
           LET above == Parents(o, x)
           IN IF n = 0 \/ above = {} THEN <<x>> ELSE Append(path[n - 1][CHOOSE p \in above : TRUE], x)]
  IN path[Cardinality(Wires(o))][w]

LevelsFrom(o, top) ==
  LET upTo[n \in 0 .. Cardinality(Wires(o))] ==
        IF n = 0 THEN [level |-> top, all |-> top]
        ELSE LET last == upTo[n - 1]
                 level == FlattenSeq([i \in DOMAIN last.level |-> Kids(o, last.level[i])])
             IN [level |-> level, all |-> last.all \o level]
  IN upTo[Cardinality(Wires(o))].all
\* the order of outline.nodes: the queue of buildOutline and rebuildIndexes
BreadthFirst(o) == LevelsFrom(o, <<o.root>>)
Below(o, w) == ToSet(LevelsFrom(o, <<w>>))
Position(seq, x) == CHOOSE i \in DOMAIN seq : seq[i] = x

\* parseLookResponse: the parsed tree, named in the order of the queue
BuildOutline(look) ==
  LET order == BreadthFirst(look)
  IN [look EXCEPT !.nodes = Table([w \in Wires(look) |->
        [look.nodes[w] EXCEPT !.ref = Position(order, w)]])]

(* Rendering: the nodes a folded view shows, hence the refs a caller learns. *)
DefaultUnfold(o) ==
  {o.root} \cup UNION {ToSet(PathTo(o, w)) : w \in {x \in Wires(o) : o.nodes[x].trunc}}
Unfolded(o, opened) ==
  DefaultUnfold(o) \cup UNION {ToSet(PathTo(o, w)) \cup ToSet(Kids(o, w)) : w \in opened}

Rendered(o, top, budget, unfolded) ==
  LET lines[w \in Wires(o), depth \in Int] ==
        IF depth < 1 /\ w \notin unfolded THEN <<w>>
        ELSE <<w>> \o FlattenSeq([i \in DOMAIN Kids(o, w) |-> lines[Kids(o, w)[i], depth - 1]])
  IN lines[top, budget]
FoldToBudget(o, opened) ==
  LET lines == Rendered(o, o.root, MaxDepth, Unfolded(o, opened))
  IN ToSet(SubSeq(lines, 1, Min({MaxNodes, Len(lines)})))

(* Searching: strong matches by rank then order, fuzzy ones to fill up; of *)
(* the texts of an element the one that matches best counts.               *)
ReasonOf(n, query) ==
  LET given == {Reason[query][Texts(n)[i]] : i \in DOMAIN Texts(n)}
      ranked == SelectSeq(<<"exact", "prefix", "substring", "fuzzy">>, LAMBDA reason : reason \in given)
  IN IF ranked = <<>> THEN "none" ELSE ranked[1]
Matching(o, query, reason) == SelectSeq(BreadthFirst(o), LAMBDA w : ReasonOf(o.nodes[w], query) = reason)
SearchOutlineRanked(o, query, limit) ==
  LET strong == FlattenSeq([i \in 1..3 |-> Matching(o, query, <<"exact", "prefix", "substring">>[i])])
      all == IF Len(strong) < limit THEN strong \o Matching(o, query, "fuzzy") ELSE strong
  IN SubSeq(all, 1, Min({limit, Len(all)}))
HasDefinitiveSearchMatch(o, query) ==
  \E w \in ToSet(SearchOutlineRanked(o, query, 1)) : ReasonOf(o.nodes[w], query) # "fuzzy"

(* pruneDetachedWebAreas: degenerate documents go when a real one exists.  *)
WebAreas(o) == {w \in Wires(o) : o.nodes[w].role = "webarea"}
Detached(o) ==
  IF \E w \in WebAreas(o) : o.nodes[w].live
  THEN {w \in WebAreas(o) : ~o.nodes[w].live} \ {o.root} ELSE {}
PruneDetachedWebAreas(o) ==
  LET gone == UNION {Below(o, w) : w \in Detached(o)}
  IN [o EXCEPT !.nodes = Table([w \in Wires(o) \ gone |->
        [o.nodes[w] EXCEPT !.kids = Only(@, Wires(o) \ gone)]])]

(* Grafting a scoped look s of the element s.root into o: elements the     *)
(* subtree already had keep their refs and wires, new ones are numbered    *)
(* above every ref of o in depth-first order, and what the look does not   *)
(* show is kept, after the looked-at children or, on a later page, before. *)
DepthFirst(o, top) ==
  LET under[n \in 0 .. Cardinality(Wires(o))] ==
        [w \in Wires(o) |->
           IF n = 0 THEN <<w>>
           ELSE <<w>> \o FlattenSeq([i \in DOMAIN Kids(o, w) |-> under[n - 1][Kids(o, w)[i]]])]
  IN under[Cardinality(Wires(o))][top]
\* as if the next free number were the number of nodes
NextRefByCount(o) == Cardinality(Wires(o)) + 1
NextRef(o) == Max(Refs(o) \cup {0}) + 1
PreserveUnreused(kids, o, s) == Only(kids, Wires(o) \ Wires(s))
\* as if a later page went before the earlier ones
GraftedInFront(o, s, w, append) == Kids(s, w) \o PreserveUnreused(Kids(o, w), o, s)
GraftedKids(o, s, w, append) ==
  LET kept == PreserveUnreused(Kids(o, w), o, s)
  IN IF append /\ w = s.root THEN kept \o Kids(s, w) ELSE Kids(s, w) \o kept
GraftScopedOutline(o, s, append) ==
  LET reusable == Below(o, s.root)
      fresh == Only(DepthFirst(s, s.root), Wires(s) \ reusable)
      Cloned(w) == [s.nodes[w] EXCEPT !.ref = NextRef(o) + Position(fresh, w) - 1]
      Reused(w) == [s.nodes[w] EXCEPT !.ref = o.nodes[w].ref, !.kids = GraftedKids(o, s, w, append)]
  IN [o EXCEPT !.nodes = Table([w \in Wires(o) \cup Wires(s) |->
        IF w \notin Wires(s) THEN o.nodes[w]
        ELSE IF w \in reusable THEN Reused(w) ELSE Cloned(w)])]

(* view.ts: the refs of a successor.  In breadth-first order a node takes  *)
(* the ref of the base node with its wire, if they are compatible, else    *)
(* that of the only base node in the same structural place; refs given out *)
(* are reserved, and the rest are numbered above every ref of the base.    *)
(* The place leaves the values out.  The same wire is compatible by its    *)
(* identifier, else by its kind, whatever the texts say; only where it has *)
(* neither, and is no field, are they compared.                            *)
Token(o, w) == <<o.nodes[w].role, o.nodes[w].ident, o.nodes[w].kind, o.nodes[w].label>>
Reads(n) == <<n.label, n.value>>
WireIdentityCompatible(a, b) ==
  /\ a.role = b.role /\ a.ident = b.ident
  /\ \/ a.ident # Blank
     \/ /\ a.kind = b.kind
        /\ \/ a.kind # Blank \/ a.role = "field"
           \/ Reads(a) = Reads(b) \/ <<Blank, Blank>> \in {Reads(a), Reads(b)}
PeerIndex(o, w) ==
  IF Parents(o, w) = {} THEN 0
  ELSE LET siblings == Kids(o, CHOOSE p \in Parents(o, w) : TRUE)
       IN Cardinality({i \in 1..(Position(siblings, w) - 1) : Token(o, siblings[i]) = Token(o, w)})
StructuralKey(o, w) ==
  LET path == PathTo(o, w)
  IN <<>> \o [i \in DOMAIN path |-> <<Token(o, path[i]), PeerIndex(o, path[i])>>]
StableRef(base, o, keys, w) ==
  LET key == StructuralKey(o, w)
      same == {b \in Wires(base) : keys[b] = key}
  IN IF w \in Wires(base) /\ WireIdentityCompatible(base.nodes[w], o.nodes[w]) THEN base.nodes[w].ref
     ELSE IF Cardinality(same) = 1 THEN base.nodes[CHOOSE b \in same : TRUE].ref ELSE NoRef
StabilizeRefs(base, o) ==
  LET order == BreadthFirst(o)
      keys == Table([b \in Wires(base) |-> StructuralKey(base, b)])
      stable == <<>> \o [i \in DOMAIN order |-> StableRef(base, o, keys, order[i])]
      keeping == {i \in DOMAIN order :
                    stable[i] # NoRef /\ \A j \in 1..(i - 1) : stable[j] # stable[i]}
      Fresh(i) == NextRef(base) + Cardinality(1..(i - 1) \ keeping)
  IN [o EXCEPT !.nodes = Table([w \in Wires(o) |->
        LET i == Position(order, w)
        IN [o.nodes[w] EXCEPT !.ref = IF i \in keeping THEN stable[i] ELSE Fresh(i)]])]

(* rebind.ts: where an action goes whose state turned out to be stale.  The *)
(* element of the same wire, if it still looks as the base showed it, else *)
(* the only one of its role with its identifier, else the only one with    *)
(* the same texts from the root down, else one of several with its role    *)
(* and label that lies nearest, which the model leaves open.               *)
SameTarget(a, b) ==
  /\ a.role = b.role /\ a.ident \in {Blank, b.ident}
  /\ a.role = "field" \/ LabelOf(a) \in {Blank, LabelOf(b)}
LabelToken(n) == <<n.role, n.ident, n.kind, LabelOf(n)>>
TokenPath(o, w) == LET path == PathTo(o, w) IN <<>> \o [i \in DOMAIN path |-> LabelToken(o.nodes[path[i]])]
ByIdentifier(base, b, o) ==
  {w \in Wires(o) : /\ base.nodes[b].ident # Blank
                    /\ o.nodes[w].role = base.nodes[b].role /\ o.nodes[w].ident = base.nodes[b].ident}
InPlace(base, b, o) == {w \in Wires(o) : TokenPath(o, w) = TokenPath(base, b)}
SemanticPeers(base, b, o) ==
  {w \in Wires(o) : o.nodes[w].role = base.nodes[b].role /\ LabelOf(o.nodes[w]) = LabelOf(base.nodes[b])}
KeepsWire(base, b, o) == b \in Wires(o) /\ SameTarget(base.nodes[b], o.nodes[b])
IsOne(S) == Cardinality(S) = 1
\* as if the ref of the fresh state were enough
MatchByRef(base, b, o) == Named(o, base.nodes[b].ref)
\* whom matchFingerprint may choose; TargetRebindError if there is nobody
MatchFingerprint(base, b, o) ==
  IF KeepsWire(base, b, o) THEN {b}
  ELSE IF IsOne(ByIdentifier(base, b, o)) THEN ByIdentifier(base, b, o)
  ELSE IF IsOne(InPlace(base, b, o)) THEN InPlace(base, b, o)
  ELSE IF Cardinality(SemanticPeers(base, b, o)) > 1 THEN SemanticPeers(base, b, o) ELSE {}
\* two or more at nearly the same distance: it refuses to guess
MayRefuse(base, b, o) ==
  ~KeepsWire(base, b, o) /\ ~IsOne(ByIdentifier(base, b, o)) /\ ~IsOne(InPlace(base, b, o))

\* changesBetween, below the budget that makes it fall back to a full view
Shape(n) == <<Looks(n), n.live, n.trunc, n.next>>
ChangesBetween(base, o) ==
  [added   |-> Refs(o) \ Refs(base),
   removed |-> Refs(base) \ Refs(o),
   updated |-> {r \in Refs(o) \cap Refs(base) :
                  \E w \in Named(o, r), b \in Named(base, r) : Shape(o.nodes[w]) # Shape(base.nodes[b])}]

(* note.ts: what is known of the regions, the children of the root.        *)
RegionKey(o, w) ==
  LET n == o.nodes[w] IN <<n.role, IF n.ident # Blank THEN n.ident ELSE LabelOf(n)>>
TopLevelRegions(o) == IF Kids(o, o.root) = <<>> THEN {o.root} ELSE ToSet(Kids(o, o.root))
RegionOf(o, w) == IF w = o.root THEN w ELSE PathTo(o, w)[2]
NoteFromLook(prev, o) ==
  LET seen == {RegionKey(o, w) : w \in TopLevelRegions(o)}
  IN [k \in seen \cup DOMAIN prev |-> IF k \in seen THEN "seen" ELSE "changed"]
NoteAfterAct(prev, o, targets) ==
  LET looked == NoteFromLook(prev, o)
      acted == {RegionKey(o, RegionOf(o, w)) : w \in targets}
  IN [k \in DOMAIN looked \cup acted |-> IF k \in acted THEN "changed" ELSE looked[k]]
RegionChanged(note, o, w) ==
  LET k == RegionKey(o, RegionOf(o, w)) IN k \in DOMAIN note /\ note[k] = "changed"
=============================================================================
