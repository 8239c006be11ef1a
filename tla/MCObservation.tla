--------------------------- MODULE MCObservation ---------------------------
EXTENDS Observation

\* Elements that say no more than their text (as on Linux), of a kind (as on
\* macOS, where a roleDescription is always there), and with an identifier.
El(role, label, live, kids) ==
  [ref |-> NoRef, role |-> role, ident |-> Blank, kind |-> Blank, label |-> label, value |-> Blank,
   live |-> live, kids |-> kids, trunc |-> FALSE, next |-> 0]
Kind(kind, n) == [n EXCEPT !.kind = kind]
Identified(ident, n) == [n EXCEPT !.ident = ident]
Valued(value, n) == [n EXCEPT !.value = value]
\* a window with a list of two equal rows, a document, and a retained one
MCFirstUi == [root |-> "w", nodes |->
  [w |-> El("window", "main", TRUE, <<"l", "g", "h">>),
   l |-> Kind("list", El("list", "main", TRUE, <<"a", "b">>)),
   g |-> Identified("doc", El("webarea", "page", TRUE, <<>>)),
   h |-> El("webarea", "page", FALSE, <<>>),
   a |-> Valued("one", El("row", "item", TRUE, <<>>)),
   b |-> El("row", "item", TRUE, <<>>)]]

Put(u, w, node) == [x \in DOMAIN u \cup {w} |-> IF x = w THEN node ELSE u[x]]
\* a row appears first, the first row goes, or a row and the list are used for
\* something else while the document is replaced by another
MCChanged(u) ==
  LET n == u.nodes
      ins == IF "x" \in DOMAIN n THEN {}
             ELSE {Put([n EXCEPT !["l"].kids = <<"x">> \o @], "x", Valued("two", El("row", "item", TRUE, <<>>)))}
      del == IF "a" \notin DOMAIN n THEN {}
             ELSE {[w \in DOMAIN n \ {"a"} |->
                     [n[w] EXCEPT !.kids = SelectSeq(@, LAMBDA k : k # "a")]]}
      use == IF "g" \notin DOMAIN n THEN {}
             ELSE {[w \in (DOMAIN n \ {"g"}) \cup {"d"} |->
                     CASE w = "w" -> [n["w"] EXCEPT !.kids = <<"l", "d", "h">>]
                       [] w = "d" -> [n["g"] EXCEPT !.label = "other"]
                       [] w \in {"b", "l"} -> [n[w] EXCEPT !.label = "other"]
                       [] OTHER -> n[w]]}
  IN {[u EXCEPT !.nodes = m] : m \in ins \cup del \cup use}

\* all it leads to: the three changes in any order
MCUis ==
  LET Grown(us) == us \cup UNION {MCChanged(u) : u \in us}
  IN Grown(Grown(Grown({MCFirstUi})))

MCReason == [item |-> [t \in {"main", "page", "item", "other", "list", "doc", "one", "two", Blank} |->
                         IF t = "item" THEN "exact" ELSE IF t = "other" THEN "fuzzy" ELSE "none"]]

CallSymmetry == Permutations(Calls)

Spec == ObservationInit /\ [][ObservationNext]_oVars
=============================================================================
