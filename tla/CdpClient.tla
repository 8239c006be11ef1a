------------------------------ MODULE CdpClient ------------------------------
(***************************************************************************)
(* src/cdp.ts: the connections to browser pages.  A call lists the pages,  *)
(* takes the connection that is stored for its page, waits for one that is *)
(* being made or makes one, and runs its commands on it.  Direct pages are *)
(* WebSockets, pages of the Chrome extension a transport without a socket. *)
(* What runs between two awaits is one step; the answer to a request for   *)
(* the list of pages may be old when it arrives.                           *)
(***************************************************************************)
EXTENDS Integers, Sequences, FiniteSets

CONSTANTS Page, DirectPages,
          NoConn,      \* a connection is a position in conns
          CdpCall,
          CallKinds    \* call -> its page and what it is

ASSUME CdpAssumption ==
  /\ DirectPages \subseteq Page /\ NoConn \notin Nat
  /\ \A want \in CallKinds :
       DOMAIN want \subseteq CdpCall /\ \A c \in DOMAIN want : want[c] \in [page : Page, kind : {"page", "window"}]

VARIABLES pages,       \* page -> unborn, open or gone
          conns,       \* every connection ever made: its page, and where it is
          connected,   \* connectedTabs
          connecting,  \* connectingTabs
          backoff,     \* lastConnectFailureAt is recent
          call,        \* the calls
          disturbed    \* an entry was taken out of a map for something else than it held

cdpVars == <<pages, conns, connected, connecting, backoff, call, disturbed>>

None == [p \in Page |-> NoConn]
NewCall(want) == [page |-> want.page, kind |-> want.kind, at |-> "new", list |-> {}, conn |-> NoConn]

CdpInit ==
  /\ \E want \in CallKinds : call = [c \in DOMAIN want |-> NewCall(want[c])]
  /\ pages \in [Page -> {"unborn", "open", "gone"}]
  \* A page that nobody asks for is left out, one that is asked for comes or is there.
  /\ \A p \in Page : pages[p] = "gone" <=> \A c \in DOMAIN call : call[c].page # p
  /\ conns = <<>> /\ connected = None /\ connecting = None
  /\ backoff = FALSE /\ disturbed = FALSE

NoCdp ==
  /\ pages = [p \in Page |-> "gone"]
  /\ conns = <<>> /\ connected = None /\ connecting = None
  /\ backoff = FALSE /\ disturbed = FALSE /\ call = [c \in {} |-> 0]

IsOpen(k) == k # NoConn /\ conns[k].at = "open"
Close(ks) == [k \in DOMAIN conns |-> IF k \in ks /\ conns[k].at = "open" THEN [conns[k] EXCEPT !.at = "closed"] ELSE conns[k]]
EndCall(c, how) == [call EXCEPT ![c].at = how, ![c].list = {}, ![c].conn = NoConn]

(***************************************************************************)
(* One call.                                                               *)
(***************************************************************************)
\* cdpTabForWindow: nothing is tried for a while after a failure; a stored
\* connection that matches the window is taken at once.
TakesStored(c) ==
  /\ call[c].kind = "window" /\ call[c].at = "new"
  /\ \/ backoff /\ call' = EndCall(c, "none")
     \/ /\ ~backoff /\ IsOpen(connected[call[c].page])
        /\ call' = [call EXCEPT ![c].at = "running", ![c].conn = connected[call[c].page]]
  /\ UNCHANGED <<pages, conns, connected, connecting, backoff, disturbed>>

\* The list is made up: of a companion that is not there, it is empty.
FetchesList(c) ==
  /\ call[c].at = "new"
  /\ call[c].kind = "window" => ~backoff /\ ~IsOpen(connected[call[c].page])
  /\ \E answers \in BOOLEAN :
       /\ call[c].page \in DirectPages => answers
       /\ call' = [call EXCEPT ![c].at = "listed", ![c].list = IF answers THEN {p \in Page : pages[p] = "open"} ELSE {}]
  /\ UNCHANGED <<pages, conns, connected, connecting, backoff, disturbed>>

Rejects(c) ==
  /\ call[c].at = "new"
  /\ call' = EndCall(c, "error")
  /\ backoff' = (backoff \/ call[c].kind = "window")
  /\ UNCHANGED <<pages, conns, connected, connecting, disturbed>>

\* Direct connections whose page is not listed are closed and forgotten.
Vanished(c) == IF call[c].page \in DirectPages THEN DirectPages \ call[c].list ELSE {}

\* The page is not listed: its connection goes, too, and whoever waits for one
\* to it waits without an entry.
MissesPage(c) ==
  /\ call[c].at = "listed"
  /\ call[c].page \notin call[c].list
  /\ LET gone == Vanished(c) \cup (IF call[c].kind = "window" THEN {} ELSE {call[c].page}) IN
       /\ conns' = Close({connected[p] : p \in gone})
       /\ connected' = [p \in Page |-> IF p \in gone THEN NoConn ELSE connected[p]]
       /\ connecting' = IF call[c].kind = "window" THEN connecting ELSE [connecting EXCEPT ![call[c].page] = NoConn]
       /\ disturbed' = (disturbed \/ (connecting' # connecting))
  /\ call' = EndCall(c, "none")
  /\ UNCHANGED <<pages, backoff>>

\* Mutant: nobody else learns of the attempt.
ConnectsAlone(c) ==
  /\ call[c].at = "listed" /\ call[c].page \in call[c].list
  /\ LET p == call[c].page IN
       /\ conns' = IF IsOpen(connected[p]) THEN conns ELSE Append(conns, [page |-> p, at |-> "connecting"])
       /\ call' = [call EXCEPT ![c].list = {}, ![c].at = IF IsOpen(connected[p]) THEN "running" ELSE "waiting",
                               ![c].conn = IF IsOpen(connected[p]) THEN connected[p] ELSE Len(conns) + 1]
  /\ UNCHANGED <<pages, connected, connecting, backoff, disturbed>>

\* withCdpContextTab and cdpTabForWindow: the stored connection, the one that
\* is being made, or a new one.
FindsPage(c) ==
  /\ call[c].at = "listed"
  /\ call[c].page \in call[c].list
  /\ LET p == call[c].page
         kept == [q \in Page |-> IF q \in Vanished(c) THEN NoConn ELSE connected[q]]
         closed == Close({connected[q] : q \in Vanished(c)})
         Goes(at, k) == call' = [call EXCEPT ![c].list = {}, ![c].at = at, ![c].conn = k]
     IN /\ connected' = kept
        /\ \/ /\ IsOpen(kept[p])
              /\ Goes("running", kept[p]) /\ conns' = closed /\ UNCHANGED connecting
           \/ /\ ~IsOpen(kept[p]) /\ connecting[p] # NoConn
              /\ Goes("waiting", connecting[p]) /\ conns' = closed /\ UNCHANGED connecting
           \/ /\ ~IsOpen(kept[p]) /\ connecting[p] = NoConn
              /\ conns' = Append(closed, [page |-> p, at |-> "connecting"])
              /\ connecting' = [connecting EXCEPT ![p] = Len(conns) + 1]
              /\ Goes("waiting", Len(conns) + 1)
  /\ UNCHANGED <<pages, backoff, disturbed>>

\* An attempt ends: connected and enabled, or refused, timed out, or the page
\* is gone.  Everyone who waits for it resumes then: stores the connection and
\* clears the entry of the attempt.
AttemptEnds(k) ==
  /\ conns[k].at = "connecting"
  /\ \E at \in {"failed"} \cup (IF pages[conns[k].page] = "open" THEN {"open"} ELSE {}) :
       LET p == conns[k].page
           waiters == {c \in DOMAIN call : call[c].at = "waiting" /\ call[c].conn = k}
       IN /\ conns' = [conns EXCEPT ![k].at = at]
          /\ call' = [c \in DOMAIN call |-> IF c \notin waiters THEN call[c]
                       ELSE IF at = "open" THEN [call[c] EXCEPT !.at = "running"] ELSE [call[c] EXCEPT !.at = "error", !.conn = NoConn]]
          /\ connected' = IF at = "open" THEN [connected EXCEPT ![p] = k] ELSE connected
          /\ connecting' = [connecting EXCEPT ![p] = NoConn]
          /\ disturbed' = (disturbed \/ connecting[p] \notin {k, NoConn} \/ (at = "open" /\ IsOpen(connected[p])))
          /\ backoff' = (backoff \/ (at = "failed" /\ \E c \in waiters : call[c].kind = "window"))
  /\ UNCHANGED pages

\* The commands of a call: answered, or failed: by an error, after five
\* seconds, or with the connection, whose entry then goes.
Completes(c) ==
  /\ call[c].at = "running"
  /\ IsOpen(call[c].conn)
  /\ call' = EndCall(c, "done")
  /\ UNCHANGED <<pages, conns, connected, connecting, backoff, disturbed>>

CommandFails(c) ==
  /\ call[c].at = "running"
  /\ LET p == call[c].page IN
       IF IsOpen(call[c].conn) \/ call[c].kind = "window" THEN UNCHANGED <<connected, disturbed>>
       ELSE /\ connected' = [connected EXCEPT ![p] = NoConn]
            /\ disturbed' = (disturbed \/ IsOpen(connected[p]))
  /\ call' = EndCall(c, "error")
  /\ UNCHANGED <<pages, conns, connecting, backoff>>

(***************************************************************************)
(* The browser and the session.                                            *)
(***************************************************************************)
SocketDrops(k) ==
  /\ conns[k].at = "open" /\ conns[k].page \in DirectPages
  /\ conns' = [conns EXCEPT ![k].at = "closed"]
  /\ UNCHANGED <<pages, connected, connecting, backoff, call, disturbed>>

PageOpens(p) ==
  /\ pages[p] = "unborn"
  /\ pages' = [pages EXCEPT ![p] = "open"]
  /\ UNCHANGED <<conns, connected, connecting, backoff, call, disturbed>>

PageGoes(p) ==
  /\ pages[p] = "open"
  /\ pages' = [pages EXCEPT ![p] = "gone"]
  /\ UNCHANGED <<conns, connected, connecting, backoff, call, disturbed>>

\* closeCdpBrowser: the browser that the session launched goes with all its pages.
BrowserCloses ==
  /\ \E p \in DirectPages : pages[p] = "open"
  /\ pages' = [p \in Page |-> IF p \in DirectPages THEN "gone" ELSE pages[p]]
  /\ conns' = [k \in DOMAIN conns |-> IF conns[k].page \in DirectPages /\ conns[k].at = "open" THEN [conns[k] EXCEPT !.at = "closed"] ELSE conns[k]]
  /\ UNCHANGED <<connected, connecting, backoff, call, disturbed>>

\* disconnectCdp, at the end of a session, which does not wait for its calls.
Disconnects ==
  /\ connected # None \/ connecting # None
  /\ conns' = Close({connected[p] : p \in Page})
  /\ connected' = None /\ connecting' = None /\ backoff' = FALSE
  /\ disturbed' = (disturbed \/ \E c \in DOMAIN call : call[c].at = "waiting")
  /\ UNCHANGED <<pages, call>>

BackoffEnds ==
  /\ backoff
  /\ backoff' = FALSE
  /\ UNCHANGED <<pages, conns, connected, connecting, call, disturbed>>

CallStep(c) ==
  \/ TakesStored(c) \/ FetchesList(c) \/ Rejects(c) \/ MissesPage(c) \/ FindsPage(c)
  \/ Completes(c) \/ CommandFails(c)
CdpNext ==
  \/ \E c \in DOMAIN call : CallStep(c)
  \/ \E k \in DOMAIN conns : AttemptEnds(k) \/ SocketDrops(k)
  \/ \E p \in Page : PageOpens(p) \/ PageGoes(p)
  \/ BrowserCloses \/ Disconnects \/ BackoffEnds
\* Connections and commands have a timeout.
CdpFairness ==
  /\ \A c \in CdpCall : WF_cdpVars(c \in DOMAIN call /\ CallStep(c))
  /\ WF_cdpVars(\E k \in DOMAIN conns : AttemptEnds(k))
CdpSpec == CdpInit /\ [][CdpNext]_cdpVars /\ CdpFairness

(***************************************************************************)
(* Properties.                                                             *)
(***************************************************************************)
\* No page has two connections, and none is open that nobody stores or waits
\* for: until a disconnect, a list without the page, or a late failure takes
\* an entry away from somebody else's attempt.
OneConnection ==
  disturbed \/
    /\ \A p \in Page : Cardinality({k \in DOMAIN conns : conns[k].page = p /\ conns[k].at \in {"connecting", "open"}}) <= 1
    /\ \A k \in DOMAIN conns : conns[k].at = "open" =>
         connected[conns[k].page] = k \/ \E c \in DOMAIN call : call[c].at = "waiting" /\ call[c].conn = k

\* Every call of a page ends.
CdpOver == \A c \in DOMAIN call : call[c].at \in {"done", "none", "error"}
CdpEnds == <>[]CdpOver
=============================================================================
