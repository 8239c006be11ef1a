------------------------------- MODULE CdpPage -------------------------------
(***************************************************************************)
(* What src/cdp.ts does on one connection to a page: it navigates, which   *)
(* ends with a load event, with a document that reads as ready, or after   *)
(* ten seconds, and it waits for mutations by a count that the page keeps  *)
(* per document.  Evaluations run in the page; events arrive on their own. *)
(***************************************************************************)
EXTENDS Integers, FiniteSets

CONSTANTS MaxGeneration    \* mutations of a document

ASSUME PageAssumption == MaxGeneration \in Nat

VARIABLES doc,       \* the document: old or new, its marker, its state and its mutation count
          loadDue,   \* documents whose load event has not fired
          nav,       \* the navigation
          wait       \* the wait for mutations

pageVars == <<doc, loadDue, nav, wait>>

Documents == {"old", "new"}

PageInit ==
  /\ loadDue \in SUBSET {"old"}
  /\ doc = [is |-> "old", marked |-> FALSE, ready |-> loadDue = {}, counting |-> FALSE, generation |-> 0]
  /\ nav = [at |-> "due", expects |-> FALSE, by |-> "none", early |-> FALSE]
  /\ wait = [at |-> "due", since |-> 0, doc |-> "old", changed |-> FALSE]

NoPage ==
  /\ loadDue = {}
  /\ doc = [is |-> "old", marked |-> FALSE, ready |-> TRUE, counting |-> FALSE, generation |-> 0]
  /\ nav = [at |-> "done", expects |-> FALSE, by |-> "none", early |-> FALSE]
  /\ wait = [at |-> "failed", since |-> 0, doc |-> "old", changed |-> FALSE]

(***************************************************************************)
(* navigate.                                                               *)
(***************************************************************************)
\* The marker is set in the old document; an error is ignored.
Marks ==
  /\ nav.at = "due"
  /\ \E set \in BOOLEAN : doc' = [doc EXCEPT !.marked = set]
  /\ nav' = [nav EXCEPT !.at = "listening"]
  /\ UNCHANGED <<loadDue, wait>>

\* The browser commits a new document, of which it told the loader.  Before
\* or after the reply to Page.navigate, as it comes.
Commits ==
  /\ nav.at \in {"listening", "polling"}
  /\ nav.at = "polling" => nav.expects
  /\ doc.is = "old"
  /\ doc' = [is |-> "new", marked |-> FALSE, ready |-> FALSE, counting |-> FALSE, generation |-> 0]
  /\ loadDue' = {"new"}
  /\ wait' = IF wait.at = "waiting" THEN [wait EXCEPT !.at = "failed"] ELSE wait
  /\ UNCHANGED nav

\* The reply: an error, a loader, or none, of a navigation inside the document.
Replies ==
  /\ nav.at = "listening"
  /\ nav' \in {[nav EXCEPT !.at = "failed"], [nav EXCEPT !.at = "polling", !.expects = TRUE]}
              \cup (IF doc.is = "old" THEN {[nav EXCEPT !.at = "polling", !.expects = FALSE]} ELSE {})
  /\ UNCHANGED <<doc, loadDue, wait>>

BecomesReady ==
  /\ ~doc.ready
  /\ doc' = [doc EXCEPT !.ready = TRUE]
  /\ UNCHANGED <<loadDue, nav, wait>>

\* Page.loadEventFired: whoever listens takes it for the end of its navigation.
LoadFires ==
  /\ doc.is \in loadDue
  /\ loadDue' = loadDue \ {doc.is}
  /\ doc' = [doc EXCEPT !.ready = TRUE]
  /\ nav' = IF nav.at \in {"listening", "polling"} THEN [nav EXCEPT !.by = "load", !.early = (doc.is = "old")] ELSE nav
  /\ UNCHANGED wait

\* The race: the load event, a poll that finds the document ready and, where a
\* new one is expected, without the marker, or the time.
ReadyForNavigation == doc.ready /\ (nav.expects => ~doc.marked)

NavigationEnds ==
  /\ nav.at = "polling"
  /\ \E by \in {"load", "poll", "time"} :
       /\ by = "load" => nav.by = "load"
       /\ by = "poll" => ReadyForNavigation
       /\ nav' = [nav EXCEPT !.at = "done", !.by = by]
  /\ UNCHANGED <<doc, loadDue, wait>>

(***************************************************************************)
(* mutationGeneration and waitForMutation.                                 *)
(***************************************************************************)
Counting == [doc EXCEPT !.counting = TRUE, !.generation = IF doc.counting THEN @ ELSE 0]

DomChanges ==
  /\ doc.generation < MaxGeneration
  /\ doc' = IF doc.counting THEN [doc EXCEPT !.generation = @ + 1] ELSE doc
  /\ wait' = IF wait.at = "waiting"
             THEN [wait EXCEPT !.at = "ready", !.since = doc'.generation, !.doc = doc.is, !.changed = FALSE]
             ELSE [wait EXCEPT !.changed = TRUE]
  /\ UNCHANGED <<loadDue, nav>>

ReadsGeneration ==
  /\ wait.at = "due"
  /\ doc' = Counting
  /\ wait' = [at |-> "ready", since |-> doc'.generation, doc |-> doc.is, changed |-> FALSE]
  /\ UNCHANGED <<loadDue, nav>>

\* A wait ends at once if the count has moved on.
\* Mutant: it waits for the next one.
WaitsAnyway ==
  /\ wait.at = "ready"
  /\ doc' = Counting
  /\ wait' = [wait EXCEPT !.at = "waiting"]
  /\ UNCHANGED <<loadDue, nav>>
WaitsForMutation ==
  /\ wait.at = "ready"
  /\ doc' = Counting
  /\ wait' = IF doc'.generation # wait.since
             THEN [wait EXCEPT !.since = doc'.generation, !.doc = doc.is, !.changed = FALSE]
             ELSE [wait EXCEPT !.at = "waiting"]
  /\ UNCHANGED <<loadDue, nav>>

\* Four seconds at most; the count is answered as it is.
WaitTimesOut ==
  /\ wait.at = "waiting"
  /\ wait' = [wait EXCEPT !.at = "ready", !.since = doc.generation]
  /\ UNCHANGED <<doc, loadDue, nav>>

\* The connection ends: what waits for a reply fails, and a navigation that has
\* had its reply is over without an error, since its polls need an open socket.
ConnectionEnds ==
  /\ \/ nav.at \in {"due", "listening", "polling"}
     \/ wait.at # "failed"
  /\ nav' = CASE nav.at \in {"due", "listening"} -> [nav EXCEPT !.at = "failed"]
              [] nav.at = "polling" -> [nav EXCEPT !.at = "done", !.by = "closed"]
              [] OTHER -> nav
  /\ wait' = [wait EXCEPT !.at = "failed"]
  /\ UNCHANGED <<doc, loadDue>>

NavStep == Marks \/ Replies \/ NavigationEnds
WaitStep == ReadsGeneration \/ WaitsForMutation \/ WaitTimesOut
PageNext == NavStep \/ WaitStep \/ ConnectionEnds \/ Commits \/ BecomesReady \/ LoadFires \/ DomChanges
PageFairness == WF_pageVars(NavStep)
PageSpec == PageInit /\ [][PageNext]_pageVars /\ PageFairness

(***************************************************************************)
(* Properties.                                                             *)
(***************************************************************************)
\* A navigation to a new document that was marked and runs out of neither time
\* nor connection ends on that document, unless the old one was still loading and its event
\* was taken for the new one's.
MarkedOrNew == doc.is = "new" \/ ~doc.marked
NavigationSound ==
  nav.at = "done" /\ nav.expects /\ nav.by \in {"load", "poll"} /\ ~nav.early => MarkedOrNew

\* Whoever waits for a mutation of a document has missed none of it.
MutationSeen == wait.at = "waiting" /\ wait.doc = doc.is => ~wait.changed

NavigationOver == nav.at \in {"done", "failed"}
NavigationIsOver == <>[]NavigationOver
=============================================================================
