------------------------------ MODULE MCBrowser ------------------------------
(***************************************************************************)
(* Instances of ChromeWorkspace, RelayHost, CdpClient, CdpPage and         *)
(* BrowserAct for TLC.                                                     *)
(* They share no state: every behaviour is one of them at work.            *)
(***************************************************************************)
EXTENDS ChromeWorkspace, RelayHost, CdpClient, CdpPage, BrowserAct, TLC

CONSTANTS w1, w2, r1, r2, r3, p1, p2, c1, c2, c3

Want(k, w) == [kind |-> k, ws |-> w, flaky |-> FALSE]
Flaky(k, w) == [Want(k, w) EXCEPT !.flaky = TRUE]
\* Two tabs of one workspace and its end; two workspaces; a companion that comes and goes.
SomeWants == {r1 :> Want("ensure", w1) @@ r2 :> Want("ensure", w1) @@ r3 :> Want("close", w1),
              r1 :> Want("ensure", w1) @@ r2 :> Want("closeTab", w1),
              r1 :> Want("ensure", w1) @@ r2 :> Want("closeTab", w2) @@ r3 :> Want("list", w1),
              r1 :> Want("ensure", w1) @@ r2 :> Want("close", w2) @@ r3 :> Want("command", w1),
              r1 :> Flaky("ensure", w1) @@ r2 :> Flaky("ensure", w2)}
\* A tab is made while another operation of its workspace, or of another one, has read the map.
Overlaps == {r1 :> Want("ensure", w1) @@ r2 :> Want("list", w1), r1 :> Want("ensure", w1) @@ r2 :> Want("ensure", w2)}

Calls(p, q, r) == c1 :> [page |-> p, kind |-> "page"] @@ c2 :> [page |-> q, kind |-> "page"] @@ c3 :> [page |-> r, kind |-> "window"]
\* Three calls of a direct page, or two of them and one of the extension's page.
SomeCalls == {Calls(p1, p1, p1), c1 :> [page |-> p1, kind |-> "window"] @@ c2 :> [page |-> p2, kind |-> "page"]}

\* A double click; a key and a press that are guarded, verified and skipped if
\* need be; a wait, a press and a text in the foreground.
Do(kind, pieces) == [kind |-> kind, pieces |-> pieces]
Ask(actions, expect, skip, foreground, guarded) ==
  [actions |-> actions, expect |-> expect, skip |-> skip, foreground |-> foreground, guarded |-> guarded]
SomeTransactions == {Ask(<<Do("node", 2)>>, FALSE, FALSE, FALSE, FALSE),
                     Ask(<<Do("input", 2), Do("node", 1)>>, TRUE, TRUE, FALSE, TRUE),
                     Ask(<<Do("wait", 0), Do("node", 1), Do("input", 1)>>, TRUE, FALSE, TRUE, FALSE)}

Alone(which) == /\ which # "chrome" => NoChrome
                /\ which # "relay" => NoRelay
                /\ which # "cdp" => NoCdp
                /\ which # "page" => NoPage
                /\ which # "act" => NoAct
BrowserInit == \/ ChromeInit /\ Alone("chrome")
               \/ RelayInit /\ Alone("relay")
               \/ CdpInit /\ Alone("cdp")
               \/ PageInit /\ Alone("page")
               \/ ActInit /\ Alone("act")
BrowserVars == <<chromeVars, relayVars, cdpVars, pageVars, actVars>>
BrowserNext == \/ ChromeNext /\ UNCHANGED <<relayVars, cdpVars, pageVars, actVars>>
               \/ RelayNext /\ UNCHANGED <<chromeVars, cdpVars, pageVars, actVars>>
               \/ CdpNext /\ UNCHANGED <<chromeVars, relayVars, pageVars, actVars>>
               \/ PageNext /\ UNCHANGED <<chromeVars, relayVars, cdpVars, actVars>>
               \/ ActNext /\ UNCHANGED <<chromeVars, relayVars, cdpVars, pageVars>>
BrowserFairness == ChromeFairness /\ RelayFairness /\ CdpFairness /\ PageFairness /\ ActFairness
BrowserSpec == BrowserInit /\ [][BrowserNext]_BrowserVars
               /\ BrowserFairness
ChromeOnly == ChromeInit /\ Alone("chrome") /\ [][BrowserNext]_BrowserVars
ActOnly == ActInit /\ Alone("act") /\ [][BrowserNext]_BrowserVars

\* Whatever is asked of the browser comes to an end: requests of the companion,
\* hosts that start, calls of pages, navigations and transactions.
EveryRequestEnds == <>[](ChromeOver /\ RelayOver /\ CdpOver /\ NavigationOver /\ ActOver)
=============================================================================
