---------------------------- MODULE MacosHelper ----------------------------
(***************************************************************************)
(* src/platform/macos/helper.ts and permissions.ts, src/permissions.ts:    *)
(* the helper daemon that every process of the machine shares, and a call  *)
(* on its way to it: the bundle is installed, the daemon is running and of *)
(* the right protocol, the user has granted what it needs, and only then   *)
(* the work itself is sent.  A process has one client, whose calls run     *)
(* concurrently and share what it believes of the daemon; the daemon       *)
(* (native/macos/bridge.swift) is external.                                *)
(***************************************************************************)
EXTENDS Integers, FiniteSets

CONSTANTS MacCall, MacClient, Crews,      \* the calls, the processes, and whose each call may be
          Kind,                           \* what the user has to grant
          MaxPolls,                       \* probes after a launch
          MaxRechecks,                    \* of the calls that the user is still asked about
          MaxUpsets                       \* daemons that die, answers that do not come, signals, switches flipped

ASSUME MacAssumption == Crews \subseteq [MacCall -> MacClient] /\ MaxPolls \in Nat \ {0}

VARIABLES bundle,    \* the helper on disk: none, one of our protocol, or of another
          daemon,    \* who serves the socket: its protocol, whose shutdown it has answered, its answer
                     \* on grants, and the calls that have not asked for its protocol since it started
          booting,   \* some started process has not yet come to the daemon's lock
          grants,    \* what the user has granted
          upsets,    \* how much has happened that no call asked for
          client,    \* per process: daemonAvailable, ensureDaemonPromise, the cached permission status
          macCall,   \* where every call is
          requests,  \* what the daemon was asked and has not done
          macHistory \* how often the work of a call ran, and what else the properties recall
macVars == <<bundle, daemon, booting, grants, upsets, client, macCall, requests, macHistory>>

Bundles == {"none", "ours", "other"}
Unasked == {"unasked"}
NoDaemon == [up |-> FALSE, ours |-> FALSE, stops |-> {}, answer |-> Unasked, unseen |-> {}]
NewDaemon == [up |-> TRUE, ours |-> TRUE, stops |-> {}, answer |-> Unasked, unseen |-> {}]
Questions == {"diag", "rediag", "pane"}
Commands == {"diag", "shutdown", "rediag", "check", "confirm", "register", "pane", "recheck", "work"}

Fresh(c, at) == [of |-> c, at |-> at, step |-> "", attempt |-> 0, next |-> "", trusts |-> FALSE, rechecks |-> 0, lacked |-> FALSE]
MacState(crew, b, d, g, u, at) ==
  /\ bundle = b /\ daemon = d /\ booting = FALSE /\ grants = g /\ upsets = u
  /\ client = [c \in MacClient |-> [avail |-> FALSE, ensure |-> "none", polls |-> 0, granted |-> FALSE]]
  /\ macCall = [j \in MacCall |-> Fresh(crew[j], at)]
  /\ requests = {}
  /\ macHistory = [ran |-> [j \in MacCall |-> 0], old |-> FALSE, slow |-> FALSE]
\* No helper yet, one on disk, a daemon of another version, or one that was
\* asked before anything was granted.
MacInit == \E crew \in Crews, b \in Bundles, g \in SUBSET Kind,
              d \in {NoDaemon, [NewDaemon EXCEPT !.ours = FALSE], [NewDaemon EXCEPT !.answer = {}]} :
             (d.up => b # "none") /\ MacState(crew, b, d, g, 0, "new")
NoMac == MacState(CHOOSE crew \in Crews : TRUE, "none", NoDaemon, {}, MaxUpsets, "failed")

\* A call that enters a stage; the stage of a command begins with ensureDaemon.
To(j, at) == IF at \in {"done", "failed"} THEN Fresh(macCall[j].of, at)
             ELSE IF at = "work" THEN [Fresh(macCall[j].of, at) EXCEPT !.step = "ensure"]
             ELSE [macCall[j] EXCEPT !.at = at, !.step = "ensure", !.attempt = 0]
Goes(j, call) == macCall' = [macCall EXCEPT ![j] = call]
\* command rejects: a restart and registerPermissions go on regardless.
Rejected(j) ==
  CASE macCall[j].at = "shutdown" -> To(j, "pause")
    [] macCall[j].at = "register" -> To(j, "ask")
    [] OTHER -> To(j, "failed")
\* daemonAvailable; restart clears it once its shutdown is over, however that went.
Avail(j, is) == client' = [client EXCEPT ![macCall[j].of].avail = is]
Restarts(j) == macCall[j].at = "shutdown"

-----------------------------------------------------------------------------
(***************************************************************************)
(* ensureDaemon: one probe, a launch and more probes, shared by the calls  *)
(* of a client.                                                            *)
(***************************************************************************)
\* What a call does when the daemon is there, or is not.
Ensured(j, up) ==
  IF ~up THEN Rejected(j)
  ELSE CASE macCall[j].at = "daemon" -> To(j, "diag")
         [] macCall[j].at = "back" -> [To(j, macCall[j].next) EXCEPT !.next = ""]
         [] OTHER -> [macCall[j] EXCEPT !.step = "dial"]

\* Nobody listens: nothing was sent, and one more attempt is safe.
Refused(j) ==
  /\ Goes(j, IF macCall[j].attempt = 0 THEN [macCall[j] EXCEPT !.step = "ensure", !.attempt = 1] ELSE Rejected(j))
  /\ Avail(j, FALSE)
\* daemonCommand: the request is written as soon as the socket connects.
Connects(j) ==
  IF daemon.up
  THEN /\ requests' = requests \cup {[by |-> j, cmd |-> macCall[j].at, heard |-> TRUE]}
       /\ Goes(j, [macCall[j] EXCEPT !.step = "wire"])
       /\ UNCHANGED client
  ELSE Refused(j) /\ UNCHANGED requests

\* daemonAvailable is believed, and the connection made on that belief in the
\* same step: in between only the belief could change.
Ensure(j) ==
  /\ macCall[j].step = "ensure" /\ macCall[j].at \in Commands \cup {"daemon", "back"}
  /\ LET c == macCall[j].of IN
     IF client[c].avail /\ macCall[j].at \in Commands THEN Connects(j)
     ELSE /\ IF client[c].avail THEN Goes(j, Ensured(j, TRUE)) ELSE Goes(j, [macCall[j] EXCEPT !.step = "waits"])
          /\ client' = IF client[c].avail \/ client[c].ensure # "none" THEN client
                       ELSE [client EXCEPT ![c].ensure = "probing", ![c].polls = 0]
          /\ UNCHANGED requests
  /\ UNCHANGED <<bundle, daemon, booting, grants, upsets, macHistory>>

\* The promise settles for all who wait.
Settles(c, up) ==
  /\ client' = [client EXCEPT ![c].ensure = "none", ![c].polls = 0, ![c].avail = up]
  /\ macCall' = [j \in MacCall |-> IF macCall[j].of = c /\ macCall[j].step = "waits" THEN Ensured(j, up) ELSE macCall[j]]

\* launchDaemon, whose failure is swallowed.
LaunchDaemon(c) == client' = [client EXCEPT ![c].ensure = "polling"] /\ booting' \in {booting, TRUE}

\* Mutant: it is probed until it is there.
ProbeForever(c) ==
  /\ client[c].ensure \in {"probing", "polling"}
  /\ \/ daemon.up /\ Settles(c, TRUE) /\ UNCHANGED booting
     \/ ~daemon.up /\ client[c].ensure = "probing" /\ LaunchDaemon(c) /\ UNCHANGED macCall
  /\ UNCHANGED <<bundle, daemon, grants, upsets, requests, macHistory>>
\* A daemon that does not answer diagnostics within a second counts as missing.
Probe(c) ==
  /\ client[c].ensure \in {"probing", "polling"}
  /\ \/ daemon.up /\ Settles(c, TRUE) /\ UNCHANGED <<booting, upsets, macHistory>>
     \/ /\ daemon.up => upsets < MaxUpsets
        /\ upsets' = IF daemon.up THEN upsets + 1 ELSE upsets
        /\ IF client[c].ensure = "probing" THEN LaunchDaemon(c) /\ UNCHANGED macCall
           ELSE /\ UNCHANGED booting
                /\ IF client[c].polls + 1 < MaxPolls
                   THEN client' = [client EXCEPT ![c].polls = @ + 1] /\ UNCHANGED macCall
                   ELSE Settles(c, FALSE)
        /\ macHistory' = [macHistory EXCEPT !.slow = @ \/ daemon.up]
  /\ UNCHANGED <<bundle, daemon, grants, requests>>

\* Who has asked some daemon for its protocol, and is not done.
HaveAsked == {j \in MacCall : macCall[j].at \notin {"new", "daemon", "diag", "done", "failed"}}
\* runServer: who finds the lock taken leaves.  Whatever bundle is on disk was
\* opened, and nobody compares its protocol before it serves.
Boots ==
  /\ booting /\ booting' = FALSE
  /\ daemon' = IF daemon.up \/ bundle = "none" THEN daemon
               ELSE IF bundle = "ours" THEN NewDaemon
               ELSE [NewDaemon EXCEPT !.ours = FALSE, !.unseen = HaveAsked]
  /\ UNCHANGED <<bundle, grants, upsets, client, macCall, requests, macHistory>>

-----------------------------------------------------------------------------
(***************************************************************************)
(* command and daemonCommand.                                              *)
(***************************************************************************)
\* The connection of a call that has waited for the daemon.
Dial(j) ==
  /\ macCall[j].step = "dial" /\ Connects(j)
  /\ UNCHANGED <<bundle, daemon, booting, grants, upsets, macHistory>>

\* What the daemon makes of a request.
Asked == IF daemon.answer = Unasked THEN grants ELSE daemon.answer
Served(r) ==
  /\ daemon' = CASE r.cmd = "shutdown" -> [daemon EXCEPT !.stops = @ \cup {r.by}]
                 [] r.cmd \in {"check", "confirm", "recheck", "register"} -> [daemon EXCEPT !.answer = Asked]
                 [] r.cmd \in {"diag", "rediag"} /\ r.heard -> [daemon EXCEPT !.unseen = @ \ {r.by}]
                 [] OTHER -> daemon
  /\ macHistory' = IF r.cmd # "work" THEN macHistory
                   ELSE [macHistory EXCEPT !.ran[r.by] = @ + 1,
                                               !.old = @ \/ (~daemon.ours /\ r.by \notin daemon.unseen)]

\* What its answer means to the call, in ensureProtocol, ensureMacosReady and
\* ensurePermissions: a complete earlier answer on grants is believed for two
\* seconds, and without an interactive session nobody can be asked.
MustRestart(j, at) == [To(j, "shutdown") EXCEPT !.next = at]
Trusted(j) == {[To(j, "check") EXCEPT !.trusts = FALSE]} \cup (IF macCall[j].trusts THEN {To(j, "work")} ELSE {})
Judged(j, otherwise) == IF Asked = Kind THEN {To(j, "work")} ELSE {To(j, at) : at \in otherwise}
Answered(j) ==
  CASE macCall[j].at = "diag" -> IF daemon.ours THEN Trusted(j) ELSE {MustRestart(j, "rediag")}
    [] macCall[j].at = "rediag" -> IF daemon.ours THEN Trusted(j) ELSE {To(j, "failed")}
    [] macCall[j].at = "shutdown" -> {To(j, "pause")}
    [] macCall[j].at = "check" -> Judged(j, {"confirm"})
    [] macCall[j].at = "confirm" -> Judged(j, {"register", "failed"})
    [] macCall[j].at = "recheck" -> Judged(j, {"ask"})
    [] macCall[j].at \in {"register", "pane"} -> {To(j, "ask")}
    [] macCall[j].at = "work" -> {To(j, "done")}
\* ensureReady of bridge.ts keeps a complete answer; the tool begins.
Learns(j, call) ==
  client' = [client EXCEPT ![macCall[j].of].avail = @ /\ ~Restarts(j) /\ (macCall[j].at = "rediag" => daemon.ours),
                           ![macCall[j].of].granted = @ \/ (call.at = "work")]

\* The request is done; its answer is a result or an error.  (One that comes too
\* late is a Breaks before it.)
Serve(r) ==
  /\ r \in requests /\ requests' = requests \ {r}
  /\ Served(r)
  /\ \/ r.heard /\ \E call \in Answered(r.by) : Goes(r.by, call) /\ Learns(r.by, call)
     \/ r.heard /\ r.cmd \notin {"diag", "rediag", "shutdown"} /\ Goes(r.by, Rejected(r.by)) /\ UNCHANGED client
     \/ ~r.heard /\ UNCHANGED <<macCall, client>>
  /\ UNCHANGED <<bundle, booting, grants, upsets>>

\* A timeout or a broken socket: the request may have been sent, so there is no
\* second attempt, and the daemon may still come to it (which matters of those
\* that change something).
Unheard(j) == {[r EXCEPT !.heard = FALSE] : r \in {x \in requests : x.by = j /\ x.cmd \notin Questions}}
              \cup {r \in requests : r.by # j}
Waiting(j) == \E r \in requests : r.by = j /\ r.heard
\* Mutant: an attempt that broke after it was sent is repeated as well.
BreaksAgain(j) ==
  /\ macCall[j].step = "wire" /\ (Waiting(j) => upsets < MaxUpsets)
  /\ upsets' = IF Waiting(j) THEN upsets + 1 ELSE upsets
  /\ Refused(j)
  /\ requests' = Unheard(j)
  /\ UNCHANGED <<bundle, daemon, booting, grants, macHistory>>
Breaks(j) ==
  /\ macCall[j].step = "wire" /\ (Waiting(j) => upsets < MaxUpsets)
  /\ upsets' = IF Waiting(j) THEN upsets + 1 ELSE upsets
  /\ Goes(j, Rejected(j)) /\ Avail(j, FALSE)
  /\ requests' = Unheard(j)
  /\ macHistory' = [macHistory EXCEPT !.slow = @ \/ macCall[j].at = "shutdown"]
  /\ UNCHANGED <<bundle, daemon, booting, grants>>

\* The signal of a call: whatever it waits for, it is over.
AbortMac(j) ==
  /\ macCall[j].at \notin {"new", "done", "failed"}
  /\ upsets < MaxUpsets /\ upsets' = upsets + 1
  /\ Goes(j, To(j, "failed")) /\ requests' = Unheard(j)
  /\ UNCHANGED <<bundle, daemon, booting, grants, client, macHistory>>

\* The daemon exits 0.2 s after the answer to a shutdown, or dies unasked.
DaemonEnds ==
  /\ daemon.up
  /\ \/ daemon.stops # {} /\ UNCHANGED upsets
     \/ upsets < MaxUpsets /\ upsets' = upsets + 1
  /\ daemon' = NoDaemon /\ requests' = {}
  /\ UNCHANGED <<bundle, grants, booting, client, macCall, macHistory>>

-----------------------------------------------------------------------------
(***************************************************************************)
(* ensureMacosReady and ensurePermissions.                                 *)
(***************************************************************************)
\* ensureInstalled: what is on disk is not compared with anything.
EnsureInstalled(j) ==
  /\ macCall[j].at = "new"
  /\ \/ /\ bundle' = IF bundle = "none" THEN "ours" ELSE bundle
        /\ Goes(j, [To(j, "daemon") EXCEPT !.trusts = client[macCall[j].of].granted])
     \/ bundle = "none" /\ UNCHANGED bundle /\ Goes(j, To(j, "failed"))
  /\ UNCHANGED <<daemon, booting, grants, upsets, client, requests, macHistory>>

\* 400 ms, by which time the daemon that answered this call's shutdown has gone.
Pause(j) ==
  /\ macCall[j].at = "pause" /\ j \notin daemon.stops
  /\ Goes(j, To(j, "back"))
  /\ UNCHANGED <<bundle, daemon, booting, grants, upsets, client, requests, macHistory>>
\* A restart clears daemonAvailable when its shutdown is over: see Serve and Breaks.

\* Mutant: the running daemon is asked again.
ChooseSame(j) ==
  /\ macCall[j].at = "ask" /\ \A i \in MacCall : macCall[i].rechecks < MaxRechecks
  /\ Goes(j, [To(j, "recheck") EXCEPT !.rechecks = @ + 1, !.lacked = grants # Kind])
  /\ UNCHANGED <<bundle, daemon, booting, grants, upsets, client, requests, macHistory>>
\* Open a pane, cancel, or recheck behind a restart.
Choose(j) ==
  /\ macCall[j].at = "ask"
  /\ \/ Goes(j, To(j, "pane"))
     \/ Goes(j, To(j, "failed"))
     \/ /\ \A i \in MacCall : macCall[i].rechecks < MaxRechecks
        /\ Goes(j, [MustRestart(j, "recheck") EXCEPT !.rechecks = @ + 1, !.lacked = grants # Kind])
  /\ UNCHANGED <<bundle, daemon, booting, grants, upsets, client, requests, macHistory>>

\* The user flips a switch in System Settings.
Switch(k) ==
  /\ upsets < MaxUpsets /\ upsets' = upsets + 1
  /\ grants' = IF k \in grants THEN grants \ {k} ELSE grants \cup {k}
  /\ macCall' = [j \in MacCall |-> [macCall[j] EXCEPT !.lacked = @ \/ (macCall[j].rechecks > 0 /\ grants' # Kind)]]
  /\ UNCHANGED <<bundle, daemon, booting, client, requests, macHistory>>

\* A program of this or of another version puts its own bundle in the place, and
\* may start it.
Elsewhere ==
  /\ upsets < MaxUpsets /\ upsets' = upsets + 1
  /\ bundle' \in {"ours", "other"} \ {bundle} /\ booting' \in {booting, TRUE}
  /\ UNCHANGED <<daemon, grants, client, macCall, requests, macHistory>>

MacStep(j) ==
  \/ Ensure(j) \/ Dial(j) \/ Breaks(j)
  \/ EnsureInstalled(j) \/ Pause(j)
MacNext ==
  \/ \E j \in MacCall : MacStep(j) \/ AbortMac(j) \/ Choose(j)
  \/ \E c \in MacClient : Probe(c)
  \/ Boots \/ DaemonEnds \/ Elsewhere
  \/ \E r \in requests : Serve(r)
  \/ \E k \in Kind : Switch(k)
\* Timers fire, processes start or exit, and a request is answered or times out
\* (the bound on time-outs leaves only the answer); what the user does is left open.
MacFairness ==
  /\ \A j \in MacCall : WF_macVars(MacStep(j))
  /\ \A c \in MacClient : WF_macVars(Probe(c))
  /\ \A j \in MacCall : WF_macVars(\E r \in requests : r.by = j /\ Serve(r))
  /\ WF_macVars(Boots) /\ WF_macVars(daemon.stops # {} /\ DaemonEnds)
MacSpec == MacInit /\ [][MacNext]_macVars /\ MacFairness

(***************************************************************************)
(* Properties.                                                             *)
(***************************************************************************)
\* The work of a call reaches a daemon at most once, however connections fail
\* and daemons come and go under calls that restart them; and the daemon that
\* does it is of our protocol, unless it started after the call had asked for
\* that: a relaunch opens whatever is on disk, and nothing is asked again.
WorkRunsOnce == (\A j \in MacCall : macHistory.ran[j] <= 1) /\ ~macHistory.old

\* A user who has granted everything, and then asks for a recheck, is not told
\* that something is missing: the answer of a daemon that was asked before is
\* not heard again, unless a shutdown or a probe went unanswered.
RecheckSeesGrant ==
  \A j \in MacCall : macCall[j].at = "ask" /\ macCall[j].rechecks > 0 =>
                       macCall[j].lacked \/ macHistory.slow

\* Every call is over, or in the hands of the user who chooses and opens panes.
MacOver == \A j \in MacCall : macCall[j].at \in {"done", "failed", "ask", "pane"}
=============================================================================
