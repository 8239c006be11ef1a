---------------------------- MODULE Browser_proofs ----------------------------
(***************************************************************************)
(* Theorems about the parts that reach a browser: RelayHost, CdpPage,      *)
(* CdpClient, ChromeWorkspace and BrowserAct, for every set of hosts,      *)
(* pages, calls, workspaces and requests.                                  *)
(***************************************************************************)
EXTENDS RelayHost, CdpPage, CdpClient, ChromeWorkspace, BrowserAct, FiniteSetTheorems, SequenceTheorems, TLAPS

--------------------------------------------------------------------------------
(* RelayHost: at most one host holds the relay.                              *)

Places == {"new", "created", "looking", "clearing", "locked", "serving", "gone"}
Locks == [by : Host \cup {NoHost, Ghost}, pid : BOOLEAN]
HostStates == [at : Places, attempt : Nat, reads : Nat, saw : Locks]
Holding == {"created", "locked", "serving"}

RelayTypeOK == lock \in Locks /\ stolen \in BOOLEAN /\ host \in [Host -> HostStates]

\* Whoever holds the relay created the lock that is there.
HolderOwnsLock == \A h \in Host : host[h].at \in Holding => lock.by = h

\* A pid is judged after its process died, and none comes back.
JudgedIsDead == \A h \in Host : host[h].at = "clearing" /\ host[h].saw.pid => ~Alive(host[h].saw.by)

RelayInv == RelayTypeOK /\ JudgedIsDead /\ (stolen \/ HolderOwnsLock)

\* One step of a host changes its own record.
LEMMA HostMoves ==
  ASSUME NEW r \in HostStates, NEW at \in Places
  PROVE  /\ [r EXCEPT !.at = at] \in HostStates
         /\ [r EXCEPT !.at = at].at = at /\ [r EXCEPT !.at = at].saw = r.saw
BY DEF HostStates

\* The dead stay dead while one host moves on, and what a host does that judges
\* nothing leaves every judgement right.
LEMMA JudgementsStay ==
  ASSUME RelayTypeOK, JudgedIsDead, NEW h \in Host, NEW q \in HostStates,
         host[h].at # "gone", host' = [host EXCEPT ![h] = q],
         q.at = "clearing" /\ q.saw.pid => ~Alive(q.saw.by)
  PROVE  JudgedIsDead'
<1>1. \A x : Alive(x)' => Alive(x)
  BY DEF Alive, RelayTypeOK
<1>2. QED BY <1>1 DEF JudgedIsDead, RelayTypeOK

LEMMA RelayStart == RelayInit => RelayInv
<1> SUFFICES ASSUME RelayInit PROVE RelayInv
  OBVIOUS
<1> DEFINE q == [at |-> "new", attempt |-> 1, reads |-> 0, saw |-> NoLock]
<1>0. NoLock \in Locks /\ [by : {Ghost}, pid : BOOLEAN] \subseteq Locks
  BY DEF NoLock, Locks
<1>1. NoLock \in Locks /\ lock \in Locks
  BY <1>0 DEF RelayInit
<1>2. q \in HostStates /\ q.at = "new"
  BY <1>1 DEF HostStates, Places
<1>3. host = [h \in Host |-> q] /\ stolen = FALSE
  BY DEF RelayInit
<1> HIDE DEF q
<1>4. QED BY <1>1, <1>2, <1>3 DEF RelayInv, RelayTypeOK, HolderOwnsLock, JudgedIsDead, Holding

LEMMA RelayStep == RelayInv /\ [RelayNext]_relayVars => RelayInv'
<1> SUFFICES ASSUME RelayInv, [RelayNext]_relayVars PROVE RelayInv'
  OBVIOUS
<1> USE DEF RelayInv, RelayTypeOK
<1>0. NoLock \in Locks /\ NoLock.by = NoHost /\ NoHost \notin Host
  BY RelayAssumption DEF NoLock, Locks
<1>1. CASE UNCHANGED <<lock, host, stolen>>
  BY <1>1 DEF HolderOwnsLock, JudgedIsDead, Alive
\* A host moves on, with the lock as it is or created by it.
<1>2. ASSUME NEW h \in Host, NEW at \in Places, At(h, at), at # "clearing", host[h].at # "gone",
             lock' \in Locks, stolen' = stolen,
             at \in Holding => lock'.by = h,
             lock'.by # lock.by => lock = NoLock
      PROVE  RelayInv'
  <2> DEFINE q == [host[h] EXCEPT !.at = at]
  <2>1. host[h] \in HostStates
    OBVIOUS
  <2>2. q \in HostStates /\ q.at = at
    BY <2>1, HostMoves
  <2>3. host' = [host EXCEPT ![h] = q]
    BY <1>2 DEF At
  <2> HIDE DEF q
  <2>4. JudgedIsDead'
    BY <1>2, <2>2, <2>3, JudgementsStay
  <2>5. stolen' \/ HolderOwnsLock'
    BY <1>0, <1>2, <2>2, <2>3 DEF HolderOwnsLock
  <2>6. QED BY <1>2, <2>2, <2>3, <2>4, <2>5
<1>3. ASSUME NEW h \in Host, OpensLock(h) PROVE RelayInv'
  <2>1. CASE lock = NoLock
    <3>1. lock' = [by |-> h, pid |-> FALSE] /\ At(h, "created") /\ stolen' = stolen /\ host[h].at = "new"
      BY <1>3, <2>1 DEF OpensLock
    <3>2. lock' \in Locks /\ lock'.by = h
      BY <3>1 DEF Locks
    <3>3. "created" \in Places
      BY DEF Places
    <3>4. QED BY <1>2, <2>1, <3>1, <3>2, <3>3
  <2>2. CASE lock # NoLock
    <3>1. lock' = lock /\ At(h, "looking") /\ stolen' = stolen /\ host[h].at = "new"
      BY <1>3, <2>2 DEF OpensLock
    <3>2. "looking" \in Places /\ "looking" \notin Holding
      BY DEF Places, Holding
    <3>3. QED BY <1>2, <3>1, <3>2
  <2>3. QED BY <2>1, <2>2
\* What it holds already, it goes on holding.
<1>4. ASSUME NEW h \in Host, NEW at \in {"locked", "serving"}, At(h, at), host[h].at \in Holding,
             lock' \in Locks, lock'.by = lock.by, stolen' = stolen
      PROVE  RelayInv'
  <2> DEFINE q == [host[h] EXCEPT !.at = at]
  <2>1. host[h] \in HostStates /\ at \in Places /\ at # "clearing" /\ host[h].at # "gone"
    BY <1>4 DEF Places, Holding
  <2>2. q \in HostStates /\ q.at = at
    BY <2>1, HostMoves
  <2>3. host' = [host EXCEPT ![h] = q]
    BY <1>4 DEF At
  <2> HIDE DEF q
  <2>4. JudgedIsDead'
    BY <2>1, <2>2, <2>3, JudgementsStay
  <2>5. stolen' \/ HolderOwnsLock'
    BY <1>4, <2>2, <2>3 DEF HolderOwnsLock
  <2>6. QED BY <1>4, <2>2, <2>3, <2>4, <2>5
<1>5. ASSUME NEW h \in Host, WritesPid(h) PROVE RelayInv'
  <2>1. lock' \in Locks /\ lock'.by = lock.by
    BY <1>5 DEF WritesPid, Locks
  <2>2. At(h, "locked") /\ host[h].at \in Holding /\ stolen' = stolen
    BY <1>5 DEF WritesPid, Holding
  <2>3. QED BY <1>4, <2>1, <2>2
<1>6. ASSUME NEW h \in Host, Listens(h) PROVE RelayInv'
  BY <1>4, <1>6 DEF Listens, Holding
<1>7. ASSUME NEW h \in Host, JudgesOwner(h) PROVE RelayInv'
  <2> DEFINE r == host[h]
             dead == [r EXCEPT !.at = IF Alive(lock.by) THEN "gone" ELSE "clearing", !.reads = 0, !.saw = lock]
             again == [r EXCEPT !.reads = r.reads + 1]
             unwritten == [r EXCEPT !.at = "clearing", !.reads = 0, !.saw = lock]
  <2>1. r \in HostStates /\ r.at = "looking" /\ lock \in Locks
    BY <1>7 DEF JudgesOwner
  <2>2. /\ UNCHANGED <<lock, stolen>>
        /\ host' = [host EXCEPT ![h] = IF lock.pid THEN dead ELSE IF r.reads + 1 < ReadAttempts THEN again ELSE unwritten]
    BY <1>7 DEF JudgesOwner
  <2> HIDE DEF r
  <2>3. /\ dead \in HostStates /\ dead.at \notin Holding /\ dead.saw = lock
        /\ dead.at = "clearing" => ~Alive(lock.by)
    BY <2>1 DEF HostStates, Places, Holding
  <2>4. again \in HostStates /\ again.at = "looking"
    BY <2>1 DEF HostStates, Places
  <2>5. unwritten \in HostStates /\ unwritten.at = "clearing" /\ unwritten.saw = lock
    BY <2>1 DEF HostStates, Places
  <2> HIDE DEF dead, again, unwritten
  <2>6. PICK q \in HostStates :
          /\ host' = [host EXCEPT ![h] = q] /\ q.at \notin Holding
          /\ q.at = "clearing" /\ q.saw.pid => ~Alive(q.saw.by)
    BY <2>2, <2>3, <2>4, <2>5 DEF Holding
  <2>7. JudgedIsDead'
    BY <2>1, <2>6, JudgementsStay DEF r
  <2>8. stolen' \/ HolderOwnsLock'
    BY <2>2, <2>6 DEF HolderOwnsLock
  <2>9. QED BY <2>2, <2>6, <2>7, <2>8
\* The lock goes: nobody that is alive had it, or it is stolen.
<1>8. ASSUME NEW h \in Host, NEW q \in HostStates, host' = [host EXCEPT ![h] = q], host[h].at # "gone",
             q.at \in {"new", "gone"}, lock' = NoLock, stolen' \in BOOLEAN, stolen => stolen',
             ~stolen' => \A k \in Host \ {h} : host[k].at \in Holding => lock.by # k
      PROVE  RelayInv'
  <2>1. JudgedIsDead'
    BY <1>8, JudgementsStay
  <2>2. stolen' \/ HolderOwnsLock'
    BY <1>8 DEF HolderOwnsLock, Holding
  <2>3. QED BY <1>0, <1>8, <2>1, <2>2
<1>9. ASSUME NEW h \in Host, ClearsLock(h) PROVE RelayInv'
  <2> DEFINE r == host[h]
             next == [r EXCEPT !.at = "new", !.attempt = r.attempt + 1, !.saw = NoLock]
             last == [r EXCEPT !.at = "gone", !.saw = NoLock]
  <2>1. r \in HostStates /\ r.at = "clearing" /\ lock' = NoLock
    BY <1>9 DEF ClearsLock
  <2>2. host' = [host EXCEPT ![h] = IF r.attempt < Attempts THEN next ELSE last]
    BY <1>9 DEF ClearsLock
  <2>3. stolen' = (stolen \/ (Alive(lock.by) /\ ~(host[h].saw.pid /\ host[h].saw.by = lock.by)))
    BY <1>9 DEF ClearsLock
  <2>4. ~stolen' => ~Alive(lock.by)
    BY <2>1, <2>3 DEF JudgedIsDead
  <2>5. \A k \in Host : host[k].at \in Holding => Alive(k)
    BY DEF Alive, Holding
  <2> HIDE DEF r
  <2>6. next \in HostStates /\ next.at = "new" /\ last \in HostStates /\ last.at = "gone"
    <3> DEFINE n == r.attempt + 1
    <3>1. n \in Nat
      BY <2>1 DEF HostStates
    <3> HIDE DEF n
    <3>2. \A m \in Nat : /\ [r EXCEPT !.at = "new", !.attempt = m, !.saw = NoLock] \in HostStates
                        /\ [r EXCEPT !.at = "new", !.attempt = m, !.saw = NoLock].at = "new"
      BY <1>0, <2>1 DEF HostStates, Places
    <3>3. last \in HostStates /\ last.at = "gone"
      BY <1>0, <2>1 DEF HostStates, Places
    <3>4. QED BY <3>1, <3>2, <3>3 DEF n
  <2> HIDE DEF next, last
  <2>7. PICK q \in HostStates : host' = [host EXCEPT ![h] = q] /\ q.at \in {"new", "gone"}
    BY <2>2, <2>6
  <2>8. stolen' \in BOOLEAN /\ (stolen => stolen')
    BY <2>3
  <2>9. host[h].at # "gone"
    BY <2>1 DEF r
  <2>10. QED BY <1>8, <2>1, <2>4, <2>5, <2>7, <2>8, <2>9
<1>10. ASSUME NEW h \in Host, Shuts(h) PROVE RelayInv'
  <2> DEFINE q == [host[h] EXCEPT !.at = "gone"]
  <2>1. host[h] \in HostStates /\ "gone" \in Places
    BY DEF Places
  <2>2. q \in HostStates /\ q.at = "gone"
    BY <2>1, HostMoves
  <2>3. host' = [host EXCEPT ![h] = q] /\ lock' = NoLock /\ host[h].at = "serving"
    BY <1>10 DEF Shuts, At
  <2>4. stolen' = (stolen \/ (lock.by # h /\ Alive(lock.by)))
    BY <1>10 DEF Shuts
  <2>5. ~stolen' => \A k \in Host \ {h} : host[k].at \in Holding => lock.by # k
    BY <2>4 DEF Alive, Holding
  <2>6. stolen' \in BOOLEAN /\ (stolen => stolen')
    BY <2>4
  <2> HIDE DEF q
  <2>7. QED BY <1>8, <2>2, <2>3, <2>5, <2>6
<1>11. ASSUME NEW h \in Host, DiesUnasked(h) PROVE RelayInv'
  <2>1. At(h, "gone") /\ UNCHANGED <<lock, stolen>> /\ host[h].at # "gone"
    BY <1>11 DEF DiesUnasked, Alive
  <2>2. "gone" \in Places /\ "gone" \notin Holding
    BY DEF Places, Holding
  <2>3. QED BY <1>2, <2>1, <2>2
<1>12. ASSUME NEW c \in Client, ConnStep(c) \/ \E h \in Host : Accepts(h, c) PROVE RelayInv'
  BY <1>1, <1>12 DEF ConnStep, Forwards, Responds, Hangs, Accepts
<1>13. CASE UNCHANGED relayVars
  BY <1>1, <1>13 DEF relayVars
<1>14. QED BY <1>3, <1>5, <1>6, <1>7, <1>9, <1>10, <1>11, <1>12, <1>13 DEF RelayNext, HostStep

\* However many hosts Chrome starts, and wherever each of them is killed: while
\* no live lock has been cleared by a host that judged another, one at most
\* holds the relay.
THEOREM OneHostHolds == RelaySpec => []RelayExclusive
<1>1. RelayInv => RelayExclusive
  <2> SUFFICES ASSUME RelayInv, ~stolen PROVE RelayExclusive
    BY DEF RelayExclusive
  <2> DEFINE S == {h \in Host : host[h].at \in {"created", "locked", "serving"}}
  <2>1. \A h, k \in S : h = k
    BY DEF RelayInv, HolderOwnsLock, Holding
  <2> HIDE DEF S
  <2>2. S = {} \/ \E h : S = {h}
    BY <2>1
  <2>3. Cardinality(S) = 0 \/ Cardinality(S) = 1
    BY <2>2, FS_EmptySet, FS_Singleton, Zenon
  <2>4. QED BY <2>3 DEF RelayExclusive, S
<1>2. QED BY <1>1, RelayStart, RelayStep, PTL DEF RelaySpec

--------------------------------------------------------------------------------
(* CdpPage: a wait misses no mutation, and a navigation ends where it says.   *)

Docs == [is : Documents, marked : BOOLEAN, ready : BOOLEAN, counting : BOOLEAN, generation : Nat]
Navs == [at : {"due", "listening", "polling", "done", "failed"}, expects : BOOLEAN,
         by : {"none", "load", "poll", "time", "closed"}, early : BOOLEAN]
Waits == [at : {"due", "ready", "waiting", "failed"}, since : Nat, doc : Documents, changed : BOOLEAN]

PageTypeOK == doc \in Docs /\ nav \in Navs /\ wait \in Waits

\* A count is compared with a later count of the same document, which counts
\* since then; nobody has read a document that is not there yet.
WaitInv ==
  /\ doc.is = "old" => wait.doc = "old"
  /\ wait.at = "waiting" => doc.counting
  /\ wait.at \in {"ready", "waiting"} /\ wait.doc = doc.is =>
       /\ doc.counting /\ wait.since <= doc.generation
       /\ wait.changed => wait.since < doc.generation /\ wait.at = "ready"

\* What ended a navigation was the new document's, unless its event came early.
NavInv ==
  /\ nav.by = "load" /\ ~nav.early => doc.is = "new"
  /\ nav.at # "done" => nav.by \in {"none", "load"}
  /\ nav.at = "done" /\ nav.expects /\ nav.by = "poll" => ~doc.marked

PageInv == PageTypeOK /\ WaitInv /\ NavInv

LEMMA PageStart == PageInit => PageInv
<1> SUFFICES ASSUME PageInit PROVE PageInv
  OBVIOUS
<1>1. PageTypeOK
  BY DEF PageInit, PageTypeOK, Docs, Navs, Waits, Documents
<1>2. QED BY <1>1 DEF PageInit, PageInv, WaitInv, NavInv

\* The three records, as the steps assign to them.
LEMMA PageRecords ==
  ASSUME PageTypeOK, [PageNext]_pageVars
  PROVE  PageTypeOK'
<1> USE DEF PageTypeOK
<1>1. CASE Marks
  BY <1>1 DEF Marks, Docs, Navs
<1>2. CASE Replies
  BY <1>2 DEF Replies, Navs
<1>3. CASE NavigationEnds
  BY <1>3 DEF NavigationEnds, Navs
<1>4. CASE Commits
  BY <1>4 DEF Commits, Docs, Waits, Documents
<1>5. CASE BecomesReady \/ LoadFires
  BY <1>5 DEF BecomesReady, LoadFires, Docs, Navs
<1>6. Counting \in Docs /\ doc.is \in Documents /\ Counting.generation \in Nat
  BY DEF Counting, Docs
<1>7. CASE ReadsGeneration
  BY <1>6, <1>7 DEF ReadsGeneration, Waits
<1>8. CASE WaitsForMutation
  BY <1>6, <1>8 DEF WaitsForMutation, Waits
<1>9. CASE WaitTimesOut
  BY <1>9 DEF WaitTimesOut, Waits, Docs
<1>10. CASE DomChanges
  <2>1. doc' \in Docs /\ doc'.generation \in Nat
    BY <1>10 DEF DomChanges, Docs
  <2>2. wait' \in Waits
    BY <1>6, <1>10, <2>1 DEF DomChanges, Waits
  <2>3. QED BY <1>10, <2>1, <2>2 DEF DomChanges
<1>11. CASE ConnectionEnds
  BY <1>11 DEF ConnectionEnds, Navs, Waits
<1>12. QED BY <1>1, <1>2, <1>3, <1>4, <1>5, <1>7, <1>8, <1>9, <1>10, <1>11 DEF PageNext, NavStep, WaitStep, pageVars

LEMMA WaitStepped ==
  ASSUME PageTypeOK, PageTypeOK', WaitInv, [PageNext]_pageVars
  PROVE  WaitInv'
<1> USE DEF PageTypeOK, WaitInv, Docs, Waits, Documents
<1>1. CASE Marks \/ Replies \/ NavigationEnds \/ BecomesReady \/ LoadFires
  <2>1. /\ doc'.is = doc.is /\ doc'.counting = doc.counting /\ doc'.generation = doc.generation
        /\ wait' = wait
    BY <1>1 DEF Marks, Replies, NavigationEnds, BecomesReady, LoadFires
  <2>2. QED BY <2>1
<1>2. CASE Commits
  BY <1>2 DEF Commits
<1>3. Counting.is = doc.is /\ Counting.counting /\ (doc.counting => Counting.generation = doc.generation)
  BY DEF Counting
<1>4. CASE ReadsGeneration
  BY <1>3, <1>4 DEF ReadsGeneration
<1>5. CASE WaitsForMutation
  <2>1. doc' = Counting /\ wait.at = "ready"
    BY <1>5 DEF WaitsForMutation
  <2>2. CASE doc'.generation # wait.since
    BY <1>3, <1>5, <2>1, <2>2 DEF WaitsForMutation
  <2>3. CASE doc'.generation = wait.since
    <3>1. wait'.at = "waiting" /\ wait'.since = wait.since /\ wait'.doc = wait.doc /\ wait'.changed = wait.changed
      BY <1>5, <2>3 DEF WaitsForMutation
    <3>2. QED BY <1>3, <2>1, <2>3, <3>1
  <2>4. QED BY <2>2, <2>3
<1>6. CASE WaitTimesOut
  BY <1>6 DEF WaitTimesOut
<1>7. CASE DomChanges
  BY <1>7 DEF DomChanges
<1>8. CASE ConnectionEnds
  BY <1>8 DEF ConnectionEnds
<1>9. CASE UNCHANGED pageVars
  BY <1>9 DEF pageVars
<1>10. QED BY <1>1, <1>2, <1>4, <1>5, <1>6, <1>7, <1>8, <1>9 DEF PageNext, NavStep, WaitStep

LEMMA NavStepped ==
  ASSUME PageTypeOK, PageTypeOK', NavInv, [PageNext]_pageVars
  PROVE  NavInv'
<1> USE DEF PageTypeOK, NavInv, Docs, Navs, Documents
<1>1. CASE Marks
  BY <1>1 DEF Marks
<1>2. CASE Replies
  BY <1>2 DEF Replies
<1>3. CASE NavigationEnds
  BY <1>3 DEF NavigationEnds, ReadyForNavigation
<1>4. CASE Commits
  BY <1>4 DEF Commits
<1>5. CASE BecomesReady
  BY <1>5 DEF BecomesReady
<1>6. CASE LoadFires
  BY <1>6 DEF LoadFires
<1>7. CASE ReadsGeneration \/ WaitsForMutation \/ WaitTimesOut \/ DomChanges
  <2>1. doc'.is = doc.is /\ doc'.marked = doc.marked /\ nav' = nav
    BY <1>7 DEF ReadsGeneration, WaitsForMutation, WaitTimesOut, DomChanges, Counting
  <2>2. QED BY <2>1
<1>8. CASE ConnectionEnds
  BY <1>8 DEF ConnectionEnds
<1>9. CASE UNCHANGED pageVars
  BY <1>9 DEF pageVars
<1>10. QED BY <1>1, <1>2, <1>3, <1>4, <1>5, <1>6, <1>7, <1>8, <1>9 DEF PageNext, NavStep, WaitStep

LEMMA PageInvariant == PageSpec => []PageInv
<1>1. PageInv /\ [PageNext]_pageVars => PageInv'
  BY PageRecords, WaitStepped, NavStepped DEF PageInv
<1>2. QED BY <1>1, PageStart, PTL DEF PageSpec

\* A wait that goes on has no change behind it, however the document was
\* replaced, mutated or waited on before.
THEOREM NoMutationMissed == PageSpec => []MutationSeen
<1>1. PageInv => MutationSeen
  BY DEF PageInv, PageTypeOK, Docs, Waits, WaitInv, MutationSeen
<1>2. QED BY <1>1, PageInvariant, PTL

\* A navigation that ends by an event or a poll has left the old document.
THEOREM NavigationLands == PageSpec => []NavigationSound
<1>1. PageInv => NavigationSound
  BY DEF PageInv, PageTypeOK, Navs, NavInv, NavigationSound, MarkedOrNew
<1>2. QED BY <1>1, PageInvariant, PTL

--------------------------------------------------------------------------------
(* CdpClient: no page has two connections.                                   *)

Links == [page : Page, at : {"connecting", "open", "closed", "failed"}]
CallPlaces == {"new", "listed", "waiting", "running", "done", "none", "error"}
CallStates == [page : Page, kind : {"page", "window"}, at : CallPlaces, list : SUBSET Page, conn : Nat \cup {NoConn}]

CdpTypeOK ==
  /\ conns \in Seq(Links) /\ disturbed \in BOOLEAN
  /\ connected \in [Page -> Nat \cup {NoConn}] /\ connecting \in [Page -> Nat \cup {NoConn}]
  /\ call \in [DOMAIN call -> CallStates]

\* An entry of a page is a connection to that page.
EntriesOK ==
  \A p \in Page :
    /\ connected[p] # NoConn => connected[p] \in DOMAIN conns /\ conns[connected[p]].page = p
    /\ connecting[p] # NoConn => connecting[p] \in DOMAIN conns /\ conns[connecting[p]].page = p

\* Somebody waits for every attempt, so that a disconnect that takes its entry
\* away disturbs him.
AttemptsAwaited ==
  \A k \in DOMAIN conns : conns[k].at = "connecting" =>
    \E c \in DOMAIN call : call[c].at = "waiting" /\ call[c].conn = k

\* Every connection that is made or open is the one of its page, and a page that
\* has an open one has no attempt.
ConnectionsStored ==
  \A k \in DOMAIN conns :
    /\ conns[k].at = "connecting" => connecting[conns[k].page] = k
    /\ conns[k].at = "open" => connected[conns[k].page] = k
    /\ conns[k].at = "open" => \A l \in DOMAIN conns : conns[l].at = "connecting" => conns[l].page # conns[k].page

CdpInv == CdpTypeOK /\ EntriesOK /\ AttemptsAwaited /\ (disturbed \/ ConnectionsStored)

\* Some connections are closed, and none is made or opened by that.
LEMMA Closed ==
  ASSUME conns \in Seq(Links), NEW ks
  PROVE  /\ Close(ks) \in Seq(Links) /\ Len(Close(ks)) = Len(conns) /\ DOMAIN Close(ks) = DOMAIN conns
         /\ \A k \in DOMAIN conns :
              /\ Close(ks)[k].page = conns[k].page
              /\ Close(ks)[k].at = "connecting" <=> conns[k].at = "connecting"
              /\ Close(ks)[k].at = "open" <=> conns[k].at = "open" /\ k \notin ks
<1>1. Len(conns) \in Nat /\ DOMAIN conns = 1 .. Len(conns)
  OBVIOUS
<1>2. ASSUME NEW k \in DOMAIN conns
      PROVE  /\ Close(ks)[k] \in Links /\ Close(ks)[k].page = conns[k].page
             /\ Close(ks)[k].at = "connecting" <=> conns[k].at = "connecting"
             /\ Close(ks)[k].at = "open" <=> conns[k].at = "open" /\ k \notin ks
  <2> DEFINE r == conns[k]
  <2>1. r \in Links /\ Close(ks)[k] = IF k \in ks /\ r.at = "open" THEN [r EXCEPT !.at = "closed"] ELSE r
    BY <1>1, <1>2 DEF Close
  <2> HIDE DEF r
  <2>2. [r EXCEPT !.at = "closed"] \in Links /\ [r EXCEPT !.at = "closed"].page = r.page /\ [r EXCEPT !.at = "closed"].at = "closed"
    BY <2>1 DEF Links
  <2>3. QED BY <2>1, <2>2 DEF r
<1>3. Close(ks) \in [1 .. Len(conns) -> Links]
  <2>1. Close(ks) = [k \in 1 .. Len(conns) |-> Close(ks)[k]]
    BY <1>1 DEF Close
  <2>2. QED BY <1>1, <1>2, <2>1
<1>4. Close(ks) \in Seq(Links) /\ Len(Close(ks)) = Len(conns)
  BY <1>1, <1>3, SeqDef
<1>5. QED BY <1>1, <1>2, <1>3, <1>4

\* A call ends.
LEMMA CallEnded ==
  ASSUME call \in [DOMAIN call -> CallStates], NEW c \in DOMAIN call, NEW how \in {"done", "none", "error"}
  PROVE  \E q \in CallStates : EndCall(c, how) = [call EXCEPT ![c] = q]
<1> DEFINE r == call[c]
           q == [r EXCEPT !.at = how, !.list = {}, !.conn = NoConn]
<1>1. r \in CallStates
  OBVIOUS
<1>2. EndCall(c, how) = [call EXCEPT ![c] = q]
  BY DEF EndCall
<1> HIDE DEF r
<1>3. q \in CallStates
  BY <1>1 DEF CallStates, CallPlaces
<1>4. QED BY <1>2, <1>3

LEMMA CdpStart == CdpInit => CdpInv
<1> SUFFICES ASSUME CdpInit PROVE CdpInv
  OBVIOUS
<1>1. PICK want \in CallKinds : call = [c \in DOMAIN want |-> NewCall(want[c])]
  BY DEF CdpInit
<1>2. \A c \in DOMAIN want : NewCall(want[c]) \in CallStates
  BY CdpAssumption DEF NewCall, CallStates, CallPlaces
<1>3. call \in [DOMAIN call -> CallStates]
  BY <1>1, <1>2
<1>4. conns = <<>> /\ connected = None /\ connecting = None /\ disturbed = FALSE
  BY DEF CdpInit
<1>5. conns \in Seq(Links) /\ DOMAIN conns = {}
  BY <1>4
<1>6. connected \in [Page -> Nat \cup {NoConn}] /\ \A p \in Page : connected[p] = NoConn /\ connecting[p] = NoConn
  BY <1>4 DEF None
<1>7. connecting \in [Page -> Nat \cup {NoConn}]
  BY <1>4 DEF None
<1>8. CdpTypeOK
  BY <1>3, <1>4, <1>5, <1>6, <1>7 DEF CdpTypeOK
<1>9. EntriesOK /\ AttemptsAwaited /\ ConnectionsStored
  BY <1>5, <1>6 DEF EntriesOK, AttemptsAwaited, ConnectionsStored
<1>10. QED BY <1>8, <1>9 DEF CdpInv

\* A call moves on that waits for no attempt, and may begin to.
LEMMA CallMoves ==
  ASSUME call \in [DOMAIN call -> CallStates], AttemptsAwaited,
         NEW c \in DOMAIN call, NEW q \in CallStates, call' = [call EXCEPT ![c] = q], call[c].at # "waiting",
         DOMAIN conns \subseteq DOMAIN conns',
         \A k \in DOMAIN conns' : conns'[k].at = "connecting" =>
           (k \in DOMAIN conns /\ conns[k].at = "connecting") \/ (q.at = "waiting" /\ q.conn = k)
  PROVE  call' \in [DOMAIN call' -> CallStates] /\ AttemptsAwaited'
<1>1. DOMAIN call' = DOMAIN call /\ call' \in [DOMAIN call' -> CallStates]
  OBVIOUS
<1>2. call'[c] = q /\ \A d \in DOMAIN call \ {c} : call'[d] = call[d]
  OBVIOUS
<1>3. QED BY <1>1, <1>2 DEF AttemptsAwaited

LEMMA CdpStep == CdpInv /\ [CdpNext]_cdpVars => CdpInv'
<1> SUFFICES ASSUME CdpInv, [CdpNext]_cdpVars PROVE CdpInv'
  OBVIOUS
<1>0. /\ conns \in Seq(Links) /\ disturbed \in BOOLEAN
      /\ connected \in [Page -> Nat \cup {NoConn}] /\ connecting \in [Page -> Nat \cup {NoConn}]
      /\ EntriesOK /\ AttemptsAwaited /\ (disturbed \/ ConnectionsStored)
  BY DEF CdpInv, CdpTypeOK
<1>a. call \in [DOMAIN call -> CallStates] /\ \A c \in DOMAIN call : call[c] \in CallStates /\ call[c].page \in Page
  BY DEF CdpInv, CdpTypeOK, CallStates
<1>b. /\ DOMAIN conns = 1 .. Len(conns) /\ Len(conns) \in Nat
      /\ \A k \in DOMAIN conns : conns[k] \in Links /\ conns[k].page \in Page /\ k \in Nat
  <2>1. DOMAIN conns = 1 .. Len(conns) /\ Len(conns) \in Nat
    BY <1>0
  <2>2. \A k \in 1 .. Len(conns) : conns[k] \in Links
    BY <1>0, ElementOfSeq
  <2>3. \A l \in Links : l.page \in Page
    BY DEF Links
  <2>4. QED BY <2>1, <2>2, <2>3
<1> USE <1>0, <1>a, <1>b
\* What is to be shown of a step.
<1>q. ASSUME conns' \in Seq(Links), disturbed' \in BOOLEAN,
             connected' \in [Page -> Nat \cup {NoConn}], connecting' \in [Page -> Nat \cup {NoConn}],
             call' \in [DOMAIN call' -> CallStates], EntriesOK', AttemptsAwaited', disturbed' \/ ConnectionsStored'
      PROVE  CdpInv'
  BY <1>q DEF CdpInv, CdpTypeOK
<1>1. CASE UNCHANGED <<conns, connected, connecting, call, disturbed>>
  <2>1. EntriesOK' /\ AttemptsAwaited'
    BY <1>1 DEF EntriesOK, AttemptsAwaited
  <2>2. disturbed' \/ ConnectionsStored'
    BY <1>1 DEF ConnectionsStored
  <2>3. QED BY <1>1, <1>q, <2>1, <2>2
<1>3. ASSUME NEW c \in DOMAIN call, NEW q \in CallStates, call' = [call EXCEPT ![c] = q], call[c].at # "waiting",
             UNCHANGED <<conns, connected, connecting, disturbed>>
      PROVE  CdpInv'
  <2>1. call' \in [DOMAIN call' -> CallStates] /\ AttemptsAwaited'
    BY CallMoves, <1>3
  <2>2. EntriesOK'
    BY <1>3 DEF EntriesOK
  <2>3. disturbed' \/ ConnectionsStored'
    BY <1>3 DEF ConnectionsStored
  <2>4. QED BY <1>3, <1>q, <2>1, <2>2, <2>3
<1>4. ASSUME NEW c \in DOMAIN call, TakesStored(c) \/ FetchesList(c) \/ Rejects(c) \/ Completes(c)
      PROVE  CdpInv'
  <2> DEFINE r == call[c]
  <2>1. r \in CallStates /\ r.page \in Page
    BY DEF CallStates
  <2>2. \A k \in Nat : [r EXCEPT !.at = "running", !.conn = k] \in CallStates
    <3> HIDE DEF r
    <3>1. QED BY <2>1 DEF CallStates, CallPlaces
  <2>3. \A L \in SUBSET Page : [r EXCEPT !.at = "listed", !.list = L] \in CallStates
    <3> HIDE DEF r
    <3>1. QED BY <2>1 DEF CallStates, CallPlaces
  <2>4. \E q \in CallStates : call' = [call EXCEPT ![c] = q]
    <3>1. CASE TakesStored(c)
      BY <2>1, <2>2, <3>1, CallEnded DEF TakesStored, IsOpen
    <3>2. CASE FetchesList(c)
      <4>1. PICK L \in SUBSET Page : call' = [call EXCEPT ![c].at = "listed", ![c].list = L]
        BY <3>2 DEF FetchesList
      <4>2. QED BY <2>3, <4>1
    <3>3. CASE Rejects(c) \/ Completes(c)
      BY <3>3, CallEnded DEF Rejects, Completes
    <3>4. QED BY <1>4, <3>1, <3>2, <3>3
  <2>5. call[c].at # "waiting" /\ UNCHANGED <<conns, connected, connecting, disturbed>>
    BY <1>4 DEF TakesStored, FetchesList, Rejects, Completes
  <2>6. QED BY <1>3, <2>4, <2>5
<1>5. ASSUME NEW c \in DOMAIN call, MissesPage(c) PROVE CdpInv'
  <2> DEFINE gone == Vanished(c) \cup (IF call[c].kind = "window" THEN {} ELSE {call[c].page})
             ks == {connected[p] : p \in gone}
  <2>1. /\ gone \in SUBSET Page /\ conns' = Close(ks)
        /\ connected' = [p \in Page |-> IF p \in gone THEN NoConn ELSE connected[p]]
    <3>1. Vanished(c) \in SUBSET Page
      BY CdpAssumption DEF Vanished
    <3>2. QED BY <1>5, <3>1 DEF MissesPage
  <2>2. \/ connecting' = connecting
        \/ connecting' = [connecting EXCEPT ![call[c].page] = NoConn]
    BY <1>5 DEF MissesPage
  <2>3. disturbed' = (disturbed \/ (connecting' # connecting)) /\ call[c].at = "listed"
    BY <1>5 DEF MissesPage
  <2>4. PICK q \in CallStates : call' = [call EXCEPT ![c] = q]
    BY <1>5, CallEnded DEF MissesPage
  <2> HIDE DEF gone
  <2>5. /\ conns' \in Seq(Links) /\ DOMAIN conns' = DOMAIN conns
        /\ \A k \in DOMAIN conns :
              /\ conns'[k].page = conns[k].page
              /\ conns'[k].at = "connecting" <=> conns[k].at = "connecting"
              /\ conns'[k].at = "open" <=> conns[k].at = "open" /\ k \notin ks
    BY <2>1, Closed
  <2>6. AttemptsAwaited' /\ call' \in [DOMAIN call' -> CallStates]
    BY CallMoves, <2>3, <2>4, <2>5
  <2>7. connected' \in [Page -> Nat \cup {NoConn}] /\ connecting' \in [Page -> Nat \cup {NoConn}]
    BY <2>1, <2>2
  <2>8. EntriesOK'
    <3> SUFFICES ASSUME NEW p \in Page
                 PROVE  /\ connected'[p] # NoConn => connected'[p] \in DOMAIN conns' /\ conns'[connected'[p]].page = p
                        /\ connecting'[p] # NoConn => connecting'[p] \in DOMAIN conns' /\ conns'[connecting'[p]].page = p
      BY DEF EntriesOK
    <3>1. connected'[p] \in {NoConn, connected[p]} /\ connecting'[p] \in {NoConn, connecting[p]}
      BY <2>1, <2>2
    <3>2. QED BY <2>5, <3>1 DEF EntriesOK
  <2>9. disturbed' \/ ConnectionsStored'
    <3> SUFFICES ASSUME ~disturbed' PROVE ConnectionsStored'
      OBVIOUS
    <3>1. connecting' = connecting /\ ConnectionsStored
      BY <2>3
    <3>2. ASSUME NEW k \in DOMAIN conns, conns'[k].at = "open"
          PROVE  conns[k].at = "open" /\ connected'[conns[k].page] = k
      <4>1. conns[k].at = "open" /\ k \notin ks /\ connected[conns[k].page] = k
        BY <2>5, <3>1, <3>2 DEF ConnectionsStored
      <4>2. conns[k].page \notin gone
        BY <4>1
      <4>3. QED BY <2>1, <4>1, <4>2
    <3>3. QED BY <2>5, <3>1, <3>2 DEF ConnectionsStored
  <2>10. QED BY <1>q, <2>3, <2>5, <2>6, <2>7, <2>8, <2>9
\* The stored connections are those of the map, the others are closed, and the
\* page has neither an open one nor an attempt: it gets one.
<1>7. ASSUME NEW c \in DOMAIN call, FindsPage(c) PROVE CdpInv'
  <2> DEFINE p == call[c].page
             gone == Vanished(c)
             ks == {connected[q] : q \in gone}
             N == Len(conns) + 1
  <2>1. p \in Page /\ p \notin gone /\ gone \in SUBSET Page /\ call[c].at = "listed"
    BY <1>7, CdpAssumption DEF FindsPage, Vanished, CallStates
  <2>2. connected' = [q \in Page |-> IF q \in gone THEN NoConn ELSE connected[q]] /\ disturbed' = disturbed
    BY <1>7 DEF FindsPage
  <2> DEFINE kept == [q \in Page |-> IF q \in gone THEN NoConn ELSE connected[q]]
             MovesOn(at, n) == call' = [call EXCEPT ![c].list = {}, ![c].at = at, ![c].conn = n]
  <2>0. \/ IsOpen(kept[p]) /\ MovesOn("running", kept[p]) /\ conns' = Close(ks) /\ connecting' = connecting
        \/ connecting[p] # NoConn /\ MovesOn("waiting", connecting[p]) /\ conns' = Close(ks) /\ connecting' = connecting
        \/ /\ ~IsOpen(kept[p]) /\ connecting[p] = NoConn
           /\ conns' = Append(Close(ks), [page |-> p, at |-> "connecting"])
           /\ connecting' = [connecting EXCEPT ![p] = N]
           /\ MovesOn("waiting", N)
    BY <1>7 DEF FindsPage
  <2>a. kept[p] = connected[p] /\ N \in Nat
    BY <2>1
  <2>b. IsOpen(kept[p]) => connected[p] \in Nat
    BY <2>1, <2>a DEF IsOpen
  <2>c. connecting[p] # NoConn => connecting[p] \in Nat
    BY <2>1
  <2> HIDE DEF kept, ks, N, p
  <2>3. PICK at \in {"running", "waiting"}, n \in Nat :
          /\ call' = [call EXCEPT ![c].list = {}, ![c].at = at, ![c].conn = n]
          /\ \/ conns' = Close(ks) /\ connecting' = connecting
             \/ /\ ~IsOpen(connected[p]) /\ connecting[p] = NoConn
                /\ conns' = Append(Close(ks), [page |-> p, at |-> "connecting"])
                /\ connecting' = [connecting EXCEPT ![p] = N]
                /\ at = "waiting" /\ n = N
    <3>1. CASE IsOpen(kept[p]) /\ MovesOn("running", kept[p]) /\ conns' = Close(ks) /\ connecting' = connecting
      BY <2>a, <2>b, <3>1
    <3>2. CASE connecting[p] # NoConn /\ MovesOn("waiting", connecting[p]) /\ conns' = Close(ks) /\ connecting' = connecting
      BY <2>c, <3>2
    <3>3. CASE /\ ~IsOpen(kept[p]) /\ connecting[p] = NoConn
               /\ conns' = Append(Close(ks), [page |-> p, at |-> "connecting"])
               /\ connecting' = [connecting EXCEPT ![p] = N]
               /\ MovesOn("waiting", N)
      BY <2>a, <3>3
    <3>4. QED BY <2>0, <3>1, <3>2, <3>3
  <2> DEFINE r == call[c]
             q == [r EXCEPT !.list = {}, !.at = at, !.conn = n]
  <2>4. q \in CallStates /\ q.at = at /\ q.conn = n
    <3>1. r \in CallStates
      OBVIOUS
    <3> HIDE DEF r
    <3>2. QED BY <3>1 DEF CallStates, CallPlaces
  <2>5. call' = [call EXCEPT ![c] = q]
    BY <2>3
  <2> HIDE DEF q
  <2> DEFINE cs == Close(ks)
  <2>6. /\ cs \in Seq(Links) /\ Len(cs) = Len(conns) /\ DOMAIN cs = DOMAIN conns
        /\ \A k \in DOMAIN conns :
              /\ cs[k].page = conns[k].page
              /\ cs[k].at = "connecting" <=> conns[k].at = "connecting"
              /\ cs[k].at = "open" <=> conns[k].at = "open" /\ k \notin ks
    BY Closed
  <2>7. CASE conns' = cs /\ connecting' = connecting
    <3> HIDE DEF cs, p
    <3>1. AttemptsAwaited' /\ call' \in [DOMAIN call' -> CallStates]
      BY CallMoves, <2>1, <2>4, <2>5, <2>6, <2>7
    <3>2. EntriesOK'
      BY <2>2, <2>6, <2>7 DEF EntriesOK
    <3>3. disturbed' \/ ConnectionsStored'
      <4> SUFFICES ASSUME ~disturbed' PROVE ConnectionsStored'
        OBVIOUS
      <4>1. ConnectionsStored
        BY <2>2
      <4>2. ASSUME NEW k \in DOMAIN conns, cs[k].at = "open"
            PROVE  conns[k].at = "open" /\ connected'[conns[k].page] = k
        <5>1. conns[k].at = "open" /\ k \notin ks /\ connected[conns[k].page] = k
          BY <2>6, <4>1, <4>2 DEF ConnectionsStored
        <5>2. conns[k].page \notin gone
          BY <5>1 DEF ks
        <5>3. QED BY <2>2, <5>1, <5>2
      <4>3. QED BY <2>6, <2>7, <4>1, <4>2 DEF ConnectionsStored
    <3>4. QED BY <1>q, <2>2, <2>6, <2>7, <3>1, <3>2, <3>3
  <2>8. CASE /\ ~IsOpen(connected[p]) /\ connecting[p] = NoConn
             /\ conns' = Append(cs, [page |-> p, at |-> "connecting"])
             /\ connecting' = [connecting EXCEPT ![p] = N]
             /\ at = "waiting" /\ n = N
    <3> HIDE DEF cs, p
    <3> DEFINE new == [page |-> p, at |-> "connecting"]
    <3>1. new \in Links /\ new.page = p /\ new.at = "connecting"
      BY <2>1 DEF Links
    <3>2. conns' = Append(cs, new)
      BY <2>8
    <3> HIDE DEF new
    <3>3. /\ conns' \in Seq(Links) /\ N \in Nat /\ DOMAIN conns' = DOMAIN conns \cup {N} /\ N \notin DOMAIN conns
          /\ conns'[N] = new /\ \A k \in DOMAIN conns : conns'[k] = cs[k]
      BY <2>6, <3>1, <3>2 DEF N
    <3>4. AttemptsAwaited' /\ call' \in [DOMAIN call' -> CallStates]
      <4>1. \A k \in DOMAIN conns' : conns'[k].at = "connecting" =>
              (k \in DOMAIN conns /\ conns[k].at = "connecting") \/ (q.at = "waiting" /\ q.conn = k)
        BY <2>4, <2>6, <2>8, <3>3
      <4>2. QED BY CallMoves, <2>1, <2>4, <2>5, <3>3, <4>1
    <3>5. EntriesOK'
      <4> SUFFICES ASSUME NEW x \in Page
                   PROVE  /\ connected'[x] # NoConn => connected'[x] \in DOMAIN conns' /\ conns'[connected'[x]].page = x
                          /\ connecting'[x] # NoConn => connecting'[x] \in DOMAIN conns' /\ conns'[connecting'[x]].page = x
        BY DEF EntriesOK
      <4>1. connected'[x] \in {NoConn, connected[x]} /\ connecting'[x] = IF x = p THEN N ELSE connecting[x]
        BY <2>1, <2>2, <2>8
      <4>2. QED BY <2>6, <3>1, <3>3, <4>1 DEF EntriesOK
    <3>6. disturbed' \/ ConnectionsStored'
      <4> SUFFICES ASSUME ~disturbed' PROVE ConnectionsStored'
        OBVIOUS
      <4>1. ConnectionsStored
        BY <2>2
      <4>2. ASSUME NEW k \in DOMAIN conns, conns[k].at = "connecting" PROVE conns[k].page # p
        BY <2>8, <4>1, <4>2, CdpAssumption DEF ConnectionsStored
      <4>3. ASSUME NEW k \in DOMAIN conns, cs[k].at = "open"
            PROVE  conns[k].at = "open" /\ conns[k].page # p /\ connected'[conns[k].page] = k
        <5>1. conns[k].at = "open" /\ k \notin ks /\ connected[conns[k].page] = k /\ conns[k].page \in Page
          BY <2>6, <4>1, <4>3 DEF ConnectionsStored
        <5>2. conns[k].page \notin gone
          BY <5>1 DEF ks
        <5>3. conns[k].page # p
          BY <2>8, <5>1, CdpAssumption DEF IsOpen
        <5>4. QED BY <2>2, <5>1, <5>2, <5>3
      <4>4. ASSUME NEW k \in DOMAIN conns, cs[k].at = "connecting" PROVE connecting'[conns[k].page] = k
        BY <2>6, <2>8, <4>1, <4>2, <4>4 DEF ConnectionsStored
      <4>5. connecting'[p] = N
        BY <2>1, <2>8
      <4>6. QED BY <2>6, <3>1, <3>3, <4>1, <4>2, <4>3, <4>4, <4>5 DEF ConnectionsStored
    <3>7. connecting' \in [Page -> Nat \cup {NoConn}] /\ connected' \in [Page -> Nat \cup {NoConn}]
      BY <2>2, <2>8, <3>3
    <3>8. QED BY <1>q, <2>2, <3>3, <3>4, <3>5, <3>6, <3>7
  <2>9. QED BY <2>3, <2>7, <2>8
\* The attempt is over: its waiters go on, its page has its connection.
<1>8. ASSUME NEW k \in DOMAIN conns, AttemptEnds(k) PROVE CdpInv'
  <2> DEFINE p == conns[k].page
             r == conns[k]
  <2>1. PICK at \in {"failed", "open"} :
          /\ conns' = [conns EXCEPT ![k].at = at]
          /\ call' = [c \in DOMAIN call |-> IF ~(call[c].at = "waiting" /\ call[c].conn = k) THEN call[c]
                        ELSE IF at = "open" THEN [call[c] EXCEPT !.at = "running"] ELSE [call[c] EXCEPT !.at = "error", !.conn = NoConn]]
          /\ connected' = IF at = "open" THEN [connected EXCEPT ![p] = k] ELSE connected
          /\ connecting' = [connecting EXCEPT ![p] = NoConn]
          /\ disturbed' = (disturbed \/ connecting[p] \notin {k, NoConn} \/ (at = "open" /\ IsOpen(connected[p])))
    BY <1>8 DEF AttemptEnds
  <2>2. [r EXCEPT !.at = at] \in Links /\ [r EXCEPT !.at = at].page = p /\ [r EXCEPT !.at = at].at = at
    <3>1. r \in Links
      OBVIOUS
    <3> HIDE DEF r
    <3>2. [r EXCEPT !.at = at] \in Links /\ [r EXCEPT !.at = at].page = r.page /\ [r EXCEPT !.at = at].at = at
      BY <3>1 DEF Links
    <3>3. QED BY <3>2 DEF r
  <2>3. /\ conns' \in Seq(Links) /\ DOMAIN conns' = DOMAIN conns
        /\ conns'[k].page = p /\ conns'[k].at = at
        /\ \A l \in DOMAIN conns \ {k} : conns'[l] = conns[l]
    <3> DEFINE q == [r EXCEPT !.at = at]
    <3>1. conns' = [conns EXCEPT ![k] = q] /\ q \in Links /\ q.page = p /\ q.at = at
      BY <2>1, <2>2
    <3> HIDE DEF q, p
    <3>2. conns' \in Seq(Links) /\ Len(conns') = Len(conns)
      BY <3>1, ExceptSeq
    <3>3. QED BY <3>1, <3>2
  <2>4. /\ DOMAIN call' = DOMAIN call /\ call' \in [DOMAIN call' -> CallStates]
        /\ \A c \in DOMAIN call : ~(call[c].at = "waiting" /\ call[c].conn = k) => call'[c] = call[c]
    <3>1. ASSUME NEW c \in DOMAIN call
          PROVE  [call[c] EXCEPT !.at = "running"] \in CallStates /\ [call[c] EXCEPT !.at = "error", !.conn = NoConn] \in CallStates
      <4> DEFINE x == call[c]
      <4>1. x \in CallStates
        OBVIOUS
      <4> HIDE DEF x
      <4>2. [x EXCEPT !.at = "running"] \in CallStates /\ [x EXCEPT !.at = "error", !.conn = NoConn] \in CallStates
        BY <4>1 DEF CallStates, CallPlaces
      <4>3. QED BY <4>2 DEF x
    <3>2. \A c \in DOMAIN call : call'[c] \in CallStates
      BY <2>1, <3>1
    <3>3. QED BY <2>1, <3>2
  <2>5. p \in Page /\ conns[k].at = "connecting" /\ k \in Nat
    BY <1>8 DEF AttemptEnds
  <2> HIDE DEF p
  <2>6. AttemptsAwaited'
    BY <2>3, <2>4 DEF AttemptsAwaited
  <2>7. EntriesOK'
    <3> SUFFICES ASSUME NEW x \in Page
                 PROVE  /\ connected'[x] # NoConn => connected'[x] \in DOMAIN conns' /\ conns'[connected'[x]].page = x
                        /\ connecting'[x] # NoConn => connecting'[x] \in DOMAIN conns' /\ conns'[connecting'[x]].page = x
      BY DEF EntriesOK
    <3>1. /\ connected'[x] = connected[x] \/ (x = p /\ connected'[x] = k)
          /\ connecting'[x] \in {NoConn, connecting[x]}
      BY <2>1
    <3>2. \A l \in DOMAIN conns : conns'[l].page = conns[l].page
      BY <2>3 DEF p
    <3>3. QED BY <2>3, <3>1, <3>2 DEF EntriesOK
  <2>8. disturbed' \/ ConnectionsStored'
    <3> SUFFICES ASSUME ~disturbed' PROVE ConnectionsStored'
      OBVIOUS
    <3>1. ConnectionsStored /\ ~(at = "open" /\ IsOpen(connected[p]))
      BY <2>1
    <3>2. ASSUME NEW l \in DOMAIN conns, l # k, conns[l].at = "connecting" PROVE conns[l].page # p
      BY <2>5, <3>1, <3>2 DEF ConnectionsStored, p
    <3>3. ASSUME NEW l \in DOMAIN conns, conns[l].at = "open", at = "open" PROVE conns[l].page # p
      BY <3>1, <3>3, CdpAssumption DEF ConnectionsStored, IsOpen
    <3>4. ASSUME NEW l \in DOMAIN conns, conns'[l].at = "connecting" PROVE connecting'[conns'[l].page] = l
      BY <2>1, <2>3, <3>1, <3>2, <3>4 DEF ConnectionsStored
    <3>5. ASSUME NEW l \in DOMAIN conns, conns'[l].at = "open" PROVE connected'[conns'[l].page] = l
      BY <2>1, <2>3, <2>5, <3>1, <3>3, <3>5 DEF ConnectionsStored
    <3>6. QED BY <2>3, <3>1, <3>2, <3>4, <3>5 DEF ConnectionsStored
  <2>9. QED BY <1>q, <2>1, <2>3, <2>4, <2>5, <2>6, <2>7, <2>8
<1>9. ASSUME NEW c \in DOMAIN call, CommandFails(c) PROVE CdpInv'
  <2>1. PICK q \in CallStates : call' = [call EXCEPT ![c] = q]
    BY <1>9, CallEnded DEF CommandFails
  <2>2. conns' = conns /\ connecting' = connecting /\ call[c].at # "waiting"
    BY <1>9 DEF CommandFails
  <2>3. \/ connected' = connected /\ disturbed' = disturbed
        \/ /\ connected' = [connected EXCEPT ![call[c].page] = NoConn]
           /\ disturbed' = (disturbed \/ IsOpen(connected[call[c].page]))
    BY <1>9 DEF CommandFails
  <2>4. AttemptsAwaited' /\ call' \in [DOMAIN call' -> CallStates]
    BY CallMoves, <2>1, <2>2
  <2>5. EntriesOK'
    BY <2>2, <2>3 DEF EntriesOK
  <2>6. disturbed' \/ ConnectionsStored'
    <3> SUFFICES ASSUME ~disturbed' PROVE ConnectionsStored'
      OBVIOUS
    <3>1. ConnectionsStored
      BY <2>3
    <3>2. ASSUME NEW k \in DOMAIN conns, conns[k].at = "open" PROVE connected'[conns[k].page] = k
      <4>1. connected[conns[k].page] = k /\ IsOpen(k)
        BY <3>1, <3>2, CdpAssumption DEF ConnectionsStored, IsOpen
      <4>2. QED BY <2>3, <4>1
    <3>3. QED BY <2>2, <3>1, <3>2 DEF ConnectionsStored
  <2>7. QED BY <1>q, <2>2, <2>3, <2>4, <2>5, <2>6
\* Connections close whose entries stay.
<1>10. ASSUME conns' \in Seq(Links), DOMAIN conns' = DOMAIN conns, UNCHANGED <<connected, connecting, call, disturbed>>,
              \A k \in DOMAIN conns :
                /\ conns'[k].page = conns[k].page
                /\ conns'[k].at = "connecting" <=> conns[k].at = "connecting"
                /\ conns'[k].at = "open" => conns[k].at = "open"
       PROVE  CdpInv'
  <2>1. EntriesOK' /\ AttemptsAwaited'
    BY <1>10 DEF EntriesOK, AttemptsAwaited
  <2>2. disturbed' \/ ConnectionsStored'
    BY <1>10 DEF ConnectionsStored
  <2>3. QED BY <1>10, <1>q, <2>1, <2>2
<1>11. ASSUME NEW r \in Links, r.at = "open"
       PROVE  [r EXCEPT !.at = "closed"] \in Links /\ [r EXCEPT !.at = "closed"].page = r.page /\ [r EXCEPT !.at = "closed"].at = "closed"
  BY DEF Links
<1>12. ASSUME NEW k \in DOMAIN conns, SocketDrops(k) PROVE CdpInv'
  <2> DEFINE q == [conns[k] EXCEPT !.at = "closed"]
  <2>1. q \in Links /\ q.page = conns[k].page /\ q.at = "closed"
    BY <1>11, <1>12 DEF SocketDrops
  <2>2. conns' = [conns EXCEPT ![k] = q] /\ conns[k].at = "open" /\ UNCHANGED <<connected, connecting, call, disturbed>>
    BY <1>12 DEF SocketDrops
  <2> HIDE DEF q
  <2>3. QED BY <1>0, <1>10, <2>1, <2>2
<1>13. CASE BrowserCloses
  <2>1. /\ conns' = [k \in DOMAIN conns |-> IF conns[k].page \in DirectPages /\ conns[k].at = "open" THEN [conns[k] EXCEPT !.at = "closed"] ELSE conns[k]]
        /\ UNCHANGED <<connected, connecting, call, disturbed>>
    BY <1>13 DEF BrowserCloses
  <2>2. \A k \in DOMAIN conns :
          /\ conns'[k] \in Links /\ conns'[k].page = conns[k].page
          /\ conns'[k].at = "connecting" <=> conns[k].at = "connecting"
          /\ conns'[k].at = "open" => conns[k].at = "open"
    BY <1>11, <2>1
  <2>3. conns' \in [1 .. Len(conns) -> Links]
    BY <1>0, <2>1, <2>2
  <2>4. conns' \in Seq(Links) /\ DOMAIN conns' = DOMAIN conns
    BY <1>0, <2>3, SeqDef
  <2>5. QED BY <1>10, <2>1, <2>2, <2>4
<1>14. CASE Disconnects
  <2> DEFINE ks == {connected[p] : p \in Page}
  <2>1. /\ conns' = Close(ks) /\ connected' = None /\ connecting' = None /\ call' = call
        /\ disturbed' = (disturbed \/ \E c \in DOMAIN call : call[c].at = "waiting")
    BY <1>14 DEF Disconnects
  <2>2. /\ conns' \in Seq(Links) /\ DOMAIN conns' = DOMAIN conns
        /\ \A k \in DOMAIN conns :
              /\ conns'[k].page = conns[k].page
              /\ conns'[k].at = "connecting" <=> conns[k].at = "connecting"
              /\ conns'[k].at = "open" <=> conns[k].at = "open" /\ k \notin ks
    BY <2>1, Closed
  <2>3. AttemptsAwaited' /\ EntriesOK'
    <3>1. \A p \in Page : connected'[p] = NoConn /\ connecting'[p] = NoConn
      BY <2>1 DEF None
    <3>2. AttemptsAwaited'
      BY <2>1, <2>2 DEF AttemptsAwaited
    <3>3. QED BY <3>1, <3>2 DEF EntriesOK
  <2>4. disturbed' \/ ConnectionsStored'
    <3> SUFFICES ASSUME ~disturbed', NEW k \in DOMAIN conns
                 PROVE  conns'[k].at # "connecting" /\ conns'[k].at # "open"
      BY <2>2 DEF ConnectionsStored
    <3>1. ConnectionsStored /\ conns[k].at # "connecting"
      BY <2>1 DEF AttemptsAwaited
    <3>2. conns[k].at = "open" => k \in ks
      BY <3>1 DEF ConnectionsStored
    <3>3. QED BY <2>2, <3>1, <3>2
  <2>5. QED BY <1>q, <2>1, <2>2, <2>3, <2>4 DEF None
<1>15. ASSUME NEW p \in Page, PageOpens(p) \/ PageGoes(p) PROVE CdpInv'
  BY <1>1, <1>15 DEF PageOpens, PageGoes
<1>16. CASE BackoffEnds \/ UNCHANGED cdpVars
  BY <1>1, <1>16 DEF BackoffEnds, cdpVars
<1>17. QED BY <1>4, <1>5, <1>7, <1>8, <1>9, <1>12, <1>13, <1>14, <1>15, <1>16 DEF CdpNext, CallStep

\* Calls that list, wait for and make connections at the same time share one per
\* page: until an entry is taken from another's attempt, no page is connected to
\* twice and no open connection is lost from the map.
THEOREM OneConnectionPerPage == CdpSpec => []OneConnection
<1>1. CdpInv => OneConnection
  <2> SUFFICES ASSUME CdpInv, ~disturbed PROVE OneConnection
    BY DEF OneConnection
  <2>1. ASSUME NEW p \in Page
        PROVE  Cardinality({k \in DOMAIN conns : conns[k].page = p /\ conns[k].at \in {"connecting", "open"}}) <= 1
    <3> DEFINE S == {k \in DOMAIN conns : conns[k].page = p /\ conns[k].at \in {"connecting", "open"}}
    <3>1. \A h, k \in S : h = k
      BY DEF CdpInv, ConnectionsStored
    <3> HIDE DEF S
    <3>2. S = {} \/ \E h : S = {h}
      BY <3>1
    <3>3. Cardinality(S) = 0 \/ Cardinality(S) = 1
      BY <3>2, FS_EmptySet, FS_Singleton, Zenon
    <3>4. QED BY <3>3 DEF S
  <2>2. QED BY <2>1 DEF CdpInv, ConnectionsStored, OneConnection
<1>2. QED BY <1>1, CdpStart, CdpStep, PTL DEF CdpSpec

--------------------------------------------------------------------------------
(* ChromeWorkspace: a request makes one tab, a workspace has its own tabs.    *)

Clients == {"unsent", "sent", "answered", "refused", "failed", "uncertain"}
WorkerPlaces == {"none", "queued", "start", "read", "create", "group", "save", "prune", "act", "finish", "done", "error"}
Maps == [Workspace -> Record]
Tabs == [at : {"unborn", "open", "gone"}, group : Tab \cup {NoTab}, for : Workspace \cup {NoTab}]
Listeners == [at : {"none", "heard", "queued", "save", "done"}, ws : Workspace \cup {NoTab}, read : Maps]
Requests ==
  [kind : Kinds, ws : Workspace, flaky : BOOLEAN, client : Clients, tries : Nat, at : WorkerPlaces, read : Maps,
   tab : Tab \cup {NoTab}, group : Tab \cup {NoTab}, chosen : SUBSET Tab, managed : Nat]

\* What was made, and for whom; nothing is made twice.
Made == {m \in Tab \X Workspace : tabs[m[1]].at # "unborn" /\ tabs[m[1]].for = m[2]}

\* A map, wherever a copy of it is, has only what was made for its workspaces.
MapOK(map, made) == map \in Maps /\ \A w \in Workspace : \A t \in map[w].owned : <<t, w>> \in made

\* A request whose bytes never left has begun nothing, and no other one falls
\* back on a managed browser.
RequestOK(x, made) ==
  /\ x \in Requests /\ MapOK(x.read, made)
  /\ \A t \in x.chosen : <<t, x.ws>> \in made
  /\ x.at = "group" => <<x.tab, x.ws>> \in made
  /\ x.client \in {"unsent", "failed"} => x.at = "none" /\ x.tab = NoTab
  /\ x.client = "failed" \/ x.managed = 0
  /\ x.managed <= 1

ListenerOK(l, made) == l \in Listeners /\ MapOK(l.read, made) /\ (l.at \in {"queued", "save"} => l.ws \in Workspace)

ChromeInv ==
  /\ tabs \in [Tab -> Tabs] /\ MapOK(stored, Made)
  /\ req \in [DOMAIN req -> Requests] /\ \A r \in DOMAIN req : RequestOK(req[r], Made)
  /\ listener \in [Tab -> Listeners] /\ \A t \in Tab : ListenerOK(listener[t], Made)

\* What was made stays made.
LEMMA MadeGrows ==
  ASSUME NEW made, NEW more, made \subseteq more
  PROVE  /\ \A m : MapOK(m, made) => MapOK(m, more)
         /\ \A x : RequestOK(x, made) => RequestOK(x, more)
         /\ \A l : ListenerOK(l, made) => ListenerOK(l, more)
<1>1. \A m : MapOK(m, made) => MapOK(m, more)
  BY DEF MapOK
<1>2. QED BY <1>1 DEF RequestOK, ListenerOK

\* A map with another record of one workspace.
LEMMA MapChanges ==
  ASSUME NEW made, NEW m, MapOK(m, made), NEW w \in Workspace, NEW y \in Record, \A t \in y.owned : <<t, w>> \in made
  PROVE  MapOK([m EXCEPT ![w] = y], made)
BY DEF MapOK, Maps

\* A request, a listener or a map is all that a step replaces.
LEMMA RequestMoves ==
  ASSUME ChromeInv, tabs' \in [Tab -> Tabs], Made \subseteq Made', MapOK(stored', Made'),
         listener' \in [Tab -> Listeners], \A t \in Tab : ListenerOK(listener'[t], Made'),
         NEW r \in DOMAIN req, NEW q, req' = [req EXCEPT ![r] = q], RequestOK(q, Made')
  PROVE  ChromeInv'
<1>1. \A x \in DOMAIN req : RequestOK(req[x], Made')
  BY MadeGrows DEF ChromeInv
<1>2. DOMAIN req' = DOMAIN req /\ req'[r] = q /\ \A x \in DOMAIN req \ {r} : req'[x] = req[x]
  BY DEF ChromeInv
<1>3. \A x \in DOMAIN req' : RequestOK(req'[x], Made')
  BY <1>1, <1>2
<1>4. req' \in [DOMAIN req' -> Requests]
  BY <1>2 DEF RequestOK, ChromeInv
<1>5. QED BY <1>3, <1>4 DEF ChromeInv

LEMMA RequestOnly ==
  ASSUME ChromeInv, UNCHANGED <<tabs, stored, listener>>,
         NEW r \in DOMAIN req, NEW q, req' = [req EXCEPT ![r] = q], RequestOK(q, Made)
  PROVE  ChromeInv'
<1>1. Made' = Made
  BY DEF Made
<1>2. QED BY <1>1, RequestMoves DEF ChromeInv

\* The end of a request.
LEMMA RequestOver ==
  ASSUME NEW r \in DOMAIN req, RequestOK(req[r], Made), req[r].at # "none", NEW at \in WorkerPlaces \ {"group", "none"}
  PROVE  \E q : To(r, at) = [req EXCEPT ![r] = q] /\ RequestOK(q, Made)
<1> DEFINE x == req[r]
           q == [x EXCEPT !.at = at, !.read = NoMap, !.group = NoTab, !.chosen = {}]
<1>1. To(r, at) = [req EXCEPT ![r] = q]
  BY DEF To
<1>2. RequestOK(x, Made) /\ x \in Requests /\ x.at # "none"
  BY DEF RequestOK
<1>3. NoMap \in Maps /\ MapOK(NoMap, Made)
  BY DEF NoMap, NoRecord, Record, Maps, MapOK
<1> HIDE DEF x
<1>4. /\ q \in Requests /\ q.at = at /\ q.read = NoMap /\ q.chosen = {}
      /\ q.client = x.client /\ q.managed = x.managed /\ q.tab = x.tab
  BY <1>2, <1>3 DEF Requests
<1> HIDE DEF q
<1>5. RequestOK(q, Made)
  BY <1>2, <1>3, <1>4 DEF RequestOK
<1>6. QED BY <1>1, <1>5

LEMMA ChromeStart == ChromeInit => ChromeInv
<1> SUFFICES ASSUME ChromeInit PROVE ChromeInv
  OBVIOUS
<1> DEFINE m == [w \in Workspace |-> NoRecord]
<1>1. m \in Maps /\ \A made : MapOK(m, made)
  BY DEF NoRecord, Record, Maps, MapOK
<1>2. stored = m /\ listener = [t \in Tab |-> [at |-> "none", ws |-> NoTab, read |-> m]]
  BY DEF ChromeInit
<1>3. PICK want \in Wants : req = [r \in DOMAIN want |-> NewRequest(want[r])]
  BY DEF ChromeInit
<1>4. \A r \in DOMAIN want : want[r] \in [kind : Kinds, ws : Workspace, flaky : BOOLEAN]
  BY ChromeAssumption
<1>5. ASSUME NEW r \in DOMAIN want PROVE RequestOK(NewRequest(want[r]), Made)
  <2> DEFINE v == want[r]
             q == NewRequest(v)
  <2>1. v.kind \in Kinds /\ v.ws \in Workspace /\ v.flaky \in BOOLEAN
    BY <1>4
  <2> HIDE DEF v
  <2>2. q = [kind |-> v.kind, ws |-> v.ws, flaky |-> v.flaky, client |-> "unsent", tries |-> 0, at |-> "none", read |-> m,
             tab |-> NoTab, group |-> NoTab, chosen |-> {}, managed |-> 0]
    BY DEF NewRequest
  <2> HIDE DEF q, m
  <2>3. /\ q \in Requests /\ q.at = "none" /\ q.read = m /\ q.chosen = {}
        /\ q.client = "unsent" /\ q.managed = 0 /\ q.tab = NoTab
    BY <1>1, <2>1, <2>2 DEF Requests, Clients, WorkerPlaces
  <2>4. RequestOK(q, Made)
    BY <1>1, <2>3 DEF RequestOK
  <2>5. QED BY <2>4 DEF q, v
<1>6. req \in [DOMAIN req -> Requests] /\ \A r \in DOMAIN req : RequestOK(req[r], Made)
  <2>1. \A r \in DOMAIN want : NewRequest(want[r]) \in Requests
    BY <1>5 DEF RequestOK
  <2>2. QED BY <1>3, <1>5, <2>1
<1>7. tabs \in [Tab -> Tabs]
  BY DEF ChromeInit, Tabs
<1> HIDE DEF m
<1> DEFINE l == [at |-> "none", ws |-> NoTab, read |-> m]
<1>8. l \in Listeners /\ l.at = "none" /\ l.read = m /\ listener = [t \in Tab |-> l]
  BY <1>1, <1>2 DEF Listeners
<1> HIDE DEF l
<1>9. listener \in [Tab -> Listeners] /\ \A t \in Tab : ListenerOK(listener[t], Made)
  BY <1>1, <1>8 DEF ListenerOK
<1>10. QED BY <1>1, <1>2, <1>6, <1>7, <1>9 DEF ChromeInv

\* A worker takes a request that has begun a step on: another place, another map,
\* another choice.
LEMMA RequestGoes ==
  ASSUME NEW made, NEW x, RequestOK(x, made), x.client \notin {"unsent", "failed"}, NEW q \in Requests,
         q.client = x.client, q.managed = x.managed, q.ws = x.ws,
         MapOK(q.read, made), \A t \in q.chosen : <<t, x.ws>> \in made,
         q.at = "group" => <<q.tab, x.ws>> \in made
  PROVE  RequestOK(q, made)
BY DEF RequestOK

\* Records of a workspace that list no tab the old one did not list.
LEMMA RecordShrinks ==
  ASSUME NEW made, NEW m, MapOK(m, made), NEW w \in Workspace, NEW y \in Record, y.owned \subseteq m[w].owned
  PROVE  MapOK([m EXCEPT ![w] = y], made)
<1>1. \A t \in y.owned : <<t, w>> \in made
  BY DEF MapOK
<1>2. QED BY <1>1, MapChanges

LEMMA Refreshes == ASSUME NEW y \in Record PROVE Refreshed(y) \in Record /\ Refreshed(y).owned = y.owned
BY DEF Refreshed, Record

\* Tabs that go away are still made, and their listeners hear of it.
LEMMA TabsGoAway ==
  ASSUME ChromeInv, NEW gone, \A t \in gone : tabs[t].at = "open", GoAway(gone)
  PROVE  /\ tabs' \in [Tab -> Tabs] /\ Made \subseteq Made'
         /\ listener' \in [Tab -> Listeners] /\ \A t \in Tab : ListenerOK(listener'[t], Made')
<1>1. ASSUME NEW t \in Tab PROVE /\ tabs'[t] \in Tabs /\ tabs'[t].for = tabs[t].for /\ (tabs[t].at # "unborn" => tabs'[t].at # "unborn")
                                 /\ listener'[t] \in Listeners /\ ListenerOK(listener'[t], Made)
  <2> DEFINE y == tabs[t]
             l == listener[t]
  <2>1. y \in Tabs /\ l \in Listeners /\ ListenerOK(l, Made)
    BY DEF ChromeInv
  <2>2. tabs'[t] = IF t \in gone THEN [y EXCEPT !.at = "gone", !.group = NoTab] ELSE y
    BY DEF GoAway
  <2>3. listener'[t] = IF t \in gone THEN [l EXCEPT !.at = "heard"] ELSE l
    BY DEF GoAway
  <2> HIDE DEF y, l
  <2>4. tabs'[t] \in Tabs /\ tabs'[t].for = y.for /\ (y.at # "unborn" => tabs'[t].at # "unborn")
    BY <2>1, <2>2 DEF Tabs
  <2>5. listener'[t] \in Listeners /\ ListenerOK(listener'[t], Made)
    <3> DEFINE p == [l EXCEPT !.at = "heard"]
    <3>1. p \in Listeners /\ p.at = "heard" /\ p.read = l.read
      BY <2>1 DEF Listeners
    <3> HIDE DEF p
    <3>2. ListenerOK(p, Made)
      BY <2>1, <3>1 DEF ListenerOK
    <3>3. QED BY <2>1, <2>3, <3>1, <3>2 DEF p
  <2>6. QED BY <2>4, <2>5 DEF y
<1>2. tabs' \in [Tab -> Tabs] /\ listener' \in [Tab -> Listeners]
  BY <1>1 DEF GoAway
<1>3. Made \subseteq Made'
  BY <1>1 DEF Made
<1>4. QED BY <1>1, <1>2, <1>3, MadeGrows

\* A tab moves to another group, or to none.
LEMMA TabRegrouped ==
  ASSUME ChromeInv, NEW t \in Tab, NEW g \in Tab \cup {NoTab}, tabs' = [tabs EXCEPT ![t].group = g]
  PROVE  tabs' \in [Tab -> Tabs] /\ Made' = Made
<1> DEFINE y == tabs[t]
           z == [y EXCEPT !.group = g]
<1>1. tabs \in [Tab -> Tabs] /\ y \in Tabs /\ tabs' = [tabs EXCEPT ![t] = z]
  BY DEF ChromeInv
<1> HIDE DEF y
<1>2. z \in Tabs /\ z.at = y.at /\ z.for = y.for
  BY <1>1 DEF Tabs
<1> HIDE DEF z
<1>3. tabs' \in [Tab -> Tabs] /\ \A u \in Tab : tabs'[u].at = tabs[u].at /\ tabs'[u].for = tabs[u].for
  BY <1>1, <1>2 DEF y
<1>4. QED BY <1>3 DEF Made

\* The client's own side of a failure.
LEMMA ClientFailing ==
  ASSUME ChromeInv, NEW r \in DOMAIN req, NEW how, ClientFails(r, how), UNCHANGED <<tabs, stored, listener>>,
         \/ req[r].client = "unsent" /\ how = "failed"
         \/ req[r].client = "sent" /\ how \in {"uncertain", "refused"}
  PROVE  ChromeInv'
<1> DEFINE x == req[r]
<1>1. PICK there \in BOOLEAN :
        req' = [req EXCEPT ![r].client = how, ![r].managed = IF FallsBack(r) /\ there THEN @ + 1 ELSE @]
  BY DEF ClientFails
<1> DEFINE n == IF FallsBack(r) /\ there THEN x.managed + 1 ELSE x.managed
           q == [x EXCEPT !.client = how, !.managed = n]
<1>2. req' = [req EXCEPT ![r] = q]
  BY <1>1
<1>3. x \in Requests /\ RequestOK(x, Made) /\ (FallsBack(r) => x.client = "unsent")
  BY DEF ChromeInv, FallsBack, RequestSent
<1>4. x.client \in {"unsent", "sent"} /\ (x.client = "unsent" <=> how = "failed") /\ how \in Clients
  BY DEF Clients
<1> HIDE DEF x
<1>5. n \in Nat /\ n <= 1 /\ (how = "failed" \/ n = 0)
  BY <1>3, <1>4 DEF RequestOK, Requests
<1> HIDE DEF n
<1>6. /\ q \in Requests /\ q.client = how /\ q.managed = n /\ q.ws = x.ws /\ q.at = x.at /\ q.tab = x.tab
      /\ q.read = x.read /\ q.chosen = x.chosen
  BY <1>3, <1>4, <1>5 DEF Requests
<1> HIDE DEF q
<1>7. RequestOK(q, Made)
  BY <1>3, <1>4, <1>5, <1>6 DEF RequestOK
<1>8. QED BY <1>2, <1>7, RequestOnly

LEMMA ChromeStep == ChromeInv /\ [ChromeNext]_chromeVars => ChromeInv'
<1> SUFFICES ASSUME ChromeInv, [ChromeNext]_chromeVars PROVE ChromeInv'
  OBVIOUS
<1>1. CASE UNCHANGED chromeVars
  BY <1>1 DEF ChromeInv, Made, chromeVars
<1>2. CASE UserActs
  <2>1. PICK t \in Tab :
          /\ tabs[t].at = "open"
          /\ \/ GoAway({t}) /\ UNCHANGED renamed
             \/ tabs[t].group # NoTab /\ tabs' = [tabs EXCEPT ![t].group = NoTab] /\ UNCHANGED <<renamed, listener>>
             \/ GroupExists(t) /\ renamed' = renamed \cup {t} /\ UNCHANGED <<tabs, listener>>
    BY <1>2 DEF UserActs
  <2>2. UNCHANGED <<stored, req>>
    BY <1>2 DEF UserActs
  <2>3. /\ tabs' \in [Tab -> Tabs] /\ Made \subseteq Made'
        /\ listener' \in [Tab -> Listeners] /\ \A u \in Tab : ListenerOK(listener'[u], Made')
    <3>1. CASE GoAway({t})
      BY <2>1, <3>1, TabsGoAway
    <3>2. CASE tabs' = [tabs EXCEPT ![t].group = NoTab] /\ UNCHANGED listener
      BY <3>2, TabRegrouped DEF ChromeInv
    <3>3. CASE UNCHANGED <<tabs, listener>>
      BY <3>3 DEF ChromeInv, Made
    <3>4. QED BY <2>1, <3>1, <3>2, <3>3
  <2>4. MapOK(stored', Made') /\ \A r \in DOMAIN req : RequestOK(req[r], Made')
    BY <2>2, <2>3, MadeGrows DEF ChromeInv
  <2>5. QED BY <2>2, <2>3, <2>4 DEF ChromeInv
<1>3. ASSUME NEW r \in DOMAIN req, ClientStep(r) PROVE ChromeInv'
  <2> DEFINE x == req[r]
  <2>0. x \in Requests /\ RequestOK(x, Made)
    BY DEF ChromeInv
  <2>1. CASE Connects(r)
    <3>1. PICK target \in Tab \cup {NoTab} :
            req' = [req EXCEPT ![r].client = "sent", ![r].tab = target, ![r].at = IF Mutates(r) THEN "queued" ELSE "start"]
      BY <2>1 DEF Connects
    <3> DEFINE at == IF Mutates(r) THEN "queued" ELSE "start"
               q == [x EXCEPT !.client = "sent", !.tab = target, !.at = at]
    <3>2. req' = [req EXCEPT ![r] = q] /\ x.client = "unsent" /\ UNCHANGED <<tabs, stored, listener>>
      BY <2>1, <3>1 DEF Connects
    <3> HIDE DEF x
    <3>3. /\ q \in Requests /\ q.client = "sent" /\ q.tab = target /\ q.at \in {"queued", "start"} /\ q.ws = x.ws
          /\ q.read = x.read /\ q.chosen = x.chosen /\ q.managed = x.managed
      BY <2>0 DEF Requests, Clients, WorkerPlaces
    <3> HIDE DEF q
    <3>4. RequestOK(q, Made)
      BY <2>0, <3>2, <3>3 DEF RequestOK
    <3>5. QED BY <3>2, <3>4, RequestOnly
  <2>2. CASE ConnectFails(r)
    <3>1. CASE req[r].tries < PreconnectRetries
      <4> DEFINE q == [x EXCEPT !.tries = x.tries + 1]
      <4>1. req' = [req EXCEPT ![r] = q] /\ UNCHANGED <<tabs, stored, listener>>
        BY <2>2, <3>1 DEF ConnectFails
      <4> HIDE DEF x
      <4>2. /\ q \in Requests /\ q.client = x.client /\ q.tab = x.tab /\ q.at = x.at /\ q.ws = x.ws
            /\ q.read = x.read /\ q.chosen = x.chosen /\ q.managed = x.managed
        BY <2>0 DEF Requests
      <4> HIDE DEF q
      <4>3. RequestOK(q, Made)
        BY <2>0, <4>2 DEF RequestOK
      <4>4. QED BY <4>1, <4>3, RequestOnly
    <3>2. CASE ~(req[r].tries < PreconnectRetries)
      BY <2>2, <3>2, ClientFailing DEF ConnectFails
    <3>3. QED BY <3>1, <3>2
  <2>3. CASE GivesUp(r)
    BY <2>3, ClientFailing DEF GivesUp, RequestSent
  <2>4. CASE Answered(r)
    <3>1. CASE req[r].at = "done"
      <4> DEFINE q == [x EXCEPT !.client = "answered"]
      <4>1. req' = [req EXCEPT ![r] = q] /\ x.client = "sent" /\ UNCHANGED <<tabs, stored, listener>>
        BY <2>4, <3>1 DEF Answered
      <4> HIDE DEF x
      <4>2. /\ q \in Requests /\ q.client = "answered" /\ q.tab = x.tab /\ q.at = x.at /\ q.ws = x.ws
            /\ q.read = x.read /\ q.chosen = x.chosen /\ q.managed = x.managed
        BY <2>0 DEF Requests, Clients
      <4> HIDE DEF q
      <4>3. RequestOK(q, Made)
        BY <2>0, <4>1, <4>2 DEF RequestOK
      <4>4. QED BY <4>1, <4>3, RequestOnly
    <3>2. CASE req[r].at # "done"
      BY <2>4, <3>2, ClientFailing DEF Answered
    <3>3. QED BY <3>1, <3>2
  <2>5. QED BY <1>3, <2>1, <2>2, <2>3, <2>4 DEF ClientStep
<1>4. ASSUME NEW r \in DOMAIN req, WorkerStep(r) PROVE ChromeInv'
  <2> DEFINE x == req[r]
             w == x.ws
  <2>0. x \in Requests /\ RequestOK(x, Made) /\ w \in Workspace
    BY DEF ChromeInv, Requests
  <2>a. x.at # "none" => x.client \notin {"unsent", "failed"}
    BY <2>0 DEF RequestOK
  <2>b. MapOK(x.read, Made) /\ Mine(r) = x.read[w] /\ Mine(r) \in Record
    BY <2>0 DEF RequestOK, MapOK, Maps, Mine
  \* A step that ends the request, and changes no tab and no stored record.
  <2>c. ASSUME NEW at \in WorkerPlaces \ {"group", "none"}, req' = To(r, at), x.at # "none", UNCHANGED <<tabs, stored, listener>>
        PROVE  ChromeInv'
    <3>1. PICK q : To(r, at) = [req EXCEPT ![r] = q] /\ RequestOK(q, Made)
      BY <2>0, <2>c, RequestOver
    <3>2. QED BY <2>c, <3>1, RequestOnly
  <2>d. ASSUME Throws(r), x.at # "none", UNCHANGED <<tabs, stored, listener>> PROVE ChromeInv'
    BY <2>c, <2>d DEF Throws, WorkerPlaces
  \* One that takes it to a new place with another map and another choice.
  <2>e. ASSUME NEW q, q \in Requests, q.client = x.client, q.managed = x.managed, q.ws = x.ws, x.at # "none",
               MapOK(q.read, Made), \A t \in q.chosen : <<t, x.ws>> \in Made, q.at # "group",
               req' = [req EXCEPT ![r] = q], UNCHANGED <<tabs, stored, listener>>
        PROVE  ChromeInv'
    <3>1. RequestOK(q, Made)
      BY <2>0, <2>a, <2>e, RequestGoes
    <3>2. QED BY <2>e, <3>1, RequestOnly
  \* A map with another record of its workspace.
  <2>f. ASSUME NEW y \in Record, \A t \in y.owned : <<t, w>> \in Made
        PROVE  MapOK([x.read EXCEPT ![w] = y], Made) /\ [x.read EXCEPT ![w] = y] \in Maps
    <3> HIDE DEF x, w
    <3>1. MapOK([x.read EXCEPT ![w] = y], Made)
      BY <2>0, <2>b, <2>f, MapChanges
    <3>2. QED BY <3>1 DEF MapOK
  <2>g. ASSUME NEW y \in Record, y.owned \subseteq x.read[w].owned
        PROVE  MapOK([x.read EXCEPT ![w] = y], Made) /\ [x.read EXCEPT ![w] = y] \in Maps
    BY <2>0, <2>b, <2>f, <2>g DEF MapOK
  <2>1. CASE ReadsMap(r)
    <3> DEFINE q == [x EXCEPT !.at = "read", !.read = stored]
    <3>1. req' = [req EXCEPT ![r] = q] /\ x.at \in {"queued", "start"} /\ UNCHANGED <<tabs, stored, listener>>
      BY <2>1 DEF ReadsMap
    <3>2. stored \in Maps /\ MapOK(stored, Made)
      BY DEF ChromeInv, MapOK
    <3> HIDE DEF x
    <3>3. /\ q \in Requests /\ q.client = x.client /\ q.managed = x.managed /\ q.ws = x.ws /\ q.read = stored
          /\ q.chosen = x.chosen /\ q.at = "read"
      BY <2>0, <3>2 DEF Requests, WorkerPlaces
    <3> HIDE DEF q
    <3>4. \A t \in q.chosen : <<t, x.ws>> \in Made
      BY <2>0, <3>3 DEF RequestOK
    <3>5. QED BY <2>e, <3>1, <3>2, <3>3, <3>4
  <2>2. CASE FindsGroup(r)
    <3> DEFINE m == [x.read EXCEPT ![w] = Refreshed(x.read[w])]
               g == ExistingGroup(Mine(r))
               q == [x EXCEPT !.at = "create", !.group = g, !.read = m]
    <3>1. req' = [req EXCEPT ![r] = q] /\ x.at = "read" /\ UNCHANGED <<tabs, stored, listener>>
      BY <2>2 DEF FindsGroup
    <3>2. MapOK(m, Made) /\ m \in Maps
      BY <2>b, <2>g, Refreshes
    <3>3. g \in Tab \cup {NoTab}
      BY <2>b DEF ExistingGroup, Record
    <3> HIDE DEF x, m, g
    <3>4. /\ q \in Requests /\ q.client = x.client /\ q.managed = x.managed /\ q.ws = x.ws /\ q.read = m
          /\ q.chosen = x.chosen /\ q.at = "create"
      BY <2>0, <3>2, <3>3 DEF Requests, WorkerPlaces
    <3> HIDE DEF q
    <3>5. \A t \in q.chosen : <<t, x.ws>> \in Made
      BY <2>0, <3>4 DEF RequestOK
    <3>6. QED BY <2>e, <3>1, <3>2, <3>4, <3>5
  <2>3. CASE CreatesTab(r)
    <3>1. PICK t \in Tab : /\ tabs[t].at = "unborn"
                           /\ tabs' = [tabs EXCEPT ![t] = [at |-> "open", group |-> NoTab, for |-> req[r].ws]]
                           /\ req' = [req EXCEPT ![r].at = "group", ![r].tab = t]
      BY <2>3 DEF CreatesTab
    <3> DEFINE y == [at |-> "open", group |-> NoTab, for |-> w]
               q == [x EXCEPT !.at = "group", !.tab = t]
    <3>2. req' = [req EXCEPT ![r] = q] /\ x.at = "create" /\ UNCHANGED <<stored, listener>> /\ tabs' = [tabs EXCEPT ![t] = y]
      BY <2>3, <3>1 DEF CreatesTab
    <3> HIDE DEF x
    <3>3. y \in Tabs /\ y.at = "open" /\ y.for = w
      BY <2>0 DEF Tabs
    <3>4. /\ q \in Requests /\ q.client = x.client /\ q.managed = x.managed /\ q.ws = w /\ q.read = x.read
          /\ q.chosen = x.chosen /\ q.at = "group" /\ q.tab = t
      BY <2>0 DEF Requests, WorkerPlaces
    <3> HIDE DEF q, y, w
    <3>5. tabs' \in [Tab -> Tabs]
      BY <3>2, <3>3 DEF ChromeInv
    <3>6. tabs'[t] = y /\ \A u \in Tab \ {t} : tabs'[u] = tabs[u]
      BY <3>2 DEF ChromeInv
    <3>7. Made \subseteq Made' /\ <<t, w>> \in Made'
      BY <2>0, <3>1, <3>3, <3>6 DEF Made
    <3>8. RequestOK(q, Made')
      <4>1. RequestOK(x, Made')
        BY <2>0, <3>7, MadeGrows
      <4>2. MapOK(x.read, Made') /\ (\A u \in x.chosen : <<u, x.ws>> \in Made') /\ x.ws = w
        BY <4>1 DEF RequestOK, w
      <4>3. QED BY <2>a, <3>2, <3>4, <3>7, <4>1, <4>2, RequestGoes
    <3>9. MapOK(stored', Made') /\ listener' \in [Tab -> Listeners] /\ \A u \in Tab : ListenerOK(listener'[u], Made')
      BY <3>2, <3>7, MadeGrows DEF ChromeInv
    <3>10. QED BY <3>2, <3>5, <3>7, <3>8, <3>9, RequestMoves
  <2>4. CASE GroupsTab(r)
    <3> DEFINE t == x.tab
               g == IF x.group = NoTab THEN t ELSE x.group
               y == [group |-> g, owned |-> x.read[w].owned \cup {t}]
               m == [x.read EXCEPT ![w] = y]
               q == [x EXCEPT !.at = "save", !.read = m]
    <3>1. x.at = "group" /\ UNCHANGED <<stored, listener>>
      BY <2>4 DEF GroupsTab
    <3>2. <<t, w>> \in Made /\ t \in Tab
      BY <2>0, <3>1 DEF RequestOK, Made
    <3>3. CASE Throws(r) /\ UNCHANGED tabs
      BY <2>d, <3>1, <3>3
    <3>4. CASE /\ tabs' = [tabs EXCEPT ![t].group = g]
               /\ req' = [req EXCEPT ![r].at = "save", ![r].read[req[r].ws] = [group |-> g, owned |-> @.owned \cup {t}]]
      <4>1. req' = [req EXCEPT ![r] = q]
        BY <3>4
      <4>2. g \in Tab
        BY <2>0, <3>2 DEF Requests
      <4>3. tabs' \in [Tab -> Tabs] /\ Made' = Made
        BY <3>2, <3>4, <4>2, TabRegrouped
      <4>4. y \in Record /\ \A u \in y.owned : <<u, w>> \in Made
        BY <2>0, <2>b, <3>2, <4>2 DEF Record, MapOK
      <4>5. MapOK(m, Made) /\ m \in Maps
        BY <2>f, <4>4
      <4> HIDE DEF x, m
      <4>6. /\ q \in Requests /\ q.client = x.client /\ q.managed = x.managed /\ q.ws = x.ws /\ q.read = m
            /\ q.chosen = x.chosen /\ q.at = "save"
        BY <2>0, <4>5 DEF Requests, WorkerPlaces
      <4> HIDE DEF q
      <4>7. \A u \in q.chosen : <<u, x.ws>> \in Made
        BY <2>0, <4>6 DEF RequestOK
      <4>8. RequestOK(q, Made')
        BY <2>0, <2>a, <3>1, <4>3, <4>5, <4>6, <4>7, RequestGoes
      <4>9. MapOK(stored', Made') /\ listener' \in [Tab -> Listeners] /\ \A u \in Tab : ListenerOK(listener'[u], Made')
        BY <3>1, <4>3 DEF ChromeInv
      <4>10. QED BY <4>1, <4>3, <4>8, <4>9, RequestMoves
    <3>5. QED BY <2>4, <3>3, <3>4 DEF GroupsTab
  <2>5. CASE Lists(r)
    <3> DEFINE kept == Refreshed(Mine(r))
               y == [kept EXCEPT !.owned = kept.owned \cap InGroup(kept.group)]
               m == [x.read EXCEPT ![w] = y]
               q == [x EXCEPT !.at = "save", !.read = m]
    <3>1. req' = [req EXCEPT ![r] = q] /\ x.at = "read" /\ UNCHANGED <<tabs, stored, listener>>
      BY <2>5 DEF Lists
    <3>2. kept \in Record /\ kept.owned = x.read[w].owned
      BY <2>b, Refreshes
    <3>3. y \in Record /\ y.owned \subseteq x.read[w].owned
      BY <3>2 DEF Record
    <3>4. MapOK(m, Made) /\ m \in Maps
      BY <2>g, <3>3
    <3> HIDE DEF x, m
    <3>5. /\ q \in Requests /\ q.client = x.client /\ q.managed = x.managed /\ q.ws = x.ws /\ q.read = m
          /\ q.chosen = x.chosen /\ q.at = "save"
      BY <2>0, <3>4 DEF Requests, WorkerPlaces
    <3> HIDE DEF q
    <3>6. \A t \in q.chosen : <<t, x.ws>> \in Made
      BY <2>0, <3>5 DEF RequestOK
    <3>7. QED BY <2>e, <3>1, <3>4, <3>5, <3>6
  <2>6. CASE ChecksTab(r)
    <3> DEFINE t == x.tab
    <3>1. x.at = "read" /\ UNCHANGED <<tabs, stored, listener>>
      BY <2>6 DEF ChecksTab
    <3>2. CASE Throws(r)
      BY <2>d, <3>1, <3>2
    <3>3. CASE req' = [req EXCEPT ![r].at = "prune", ![r].read[req[r].ws].owned = @ \ {t}]
      <4> DEFINE z == x.read[w]
                 y == [z EXCEPT !.owned = z.owned \ {t}]
                 m == [x.read EXCEPT ![w] = y]
                 q == [x EXCEPT !.at = "prune", !.read = m]
      <4>1. req' = [req EXCEPT ![r] = q]
        BY <3>3
      <4>2. y \in Record /\ y.owned \subseteq x.read[w].owned
        BY <2>b DEF Record
      <4>3. MapOK(m, Made) /\ m \in Maps
        BY <2>g, <4>2
      <4> HIDE DEF x, m
      <4>4. /\ q \in Requests /\ q.client = x.client /\ q.managed = x.managed /\ q.ws = x.ws /\ q.read = m
            /\ q.chosen = x.chosen /\ q.at = "prune"
        BY <2>0, <4>3 DEF Requests, WorkerPlaces
      <4> HIDE DEF q
      <4>5. \A u \in q.chosen : <<u, x.ws>> \in Made
        BY <2>0, <4>4 DEF RequestOK
      <4>6. QED BY <2>e, <3>1, <4>1, <4>3, <4>4, <4>5
    <3>4. CASE t \in Mine(r).owned /\ req' = [req EXCEPT ![r].at = "act", ![r].chosen = {t}]
      <4> DEFINE q == [x EXCEPT !.at = "act", !.chosen = {t}]
      <4>1. req' = [req EXCEPT ![r] = q]
        BY <3>4
      <4>2. <<t, w>> \in Made /\ t \in Tab
        BY <2>0, <2>b, <3>4 DEF MapOK, Made
      <4> HIDE DEF x
      <4>3. /\ q \in Requests /\ q.client = x.client /\ q.managed = x.managed /\ q.ws = x.ws /\ q.read = x.read
            /\ q.chosen = {t} /\ q.at = "act"
        BY <2>0, <4>2 DEF Requests, WorkerPlaces
      <4> HIDE DEF q
      <4>4. QED BY <2>e, <2>b, <3>1, <4>1, <4>2, <4>3
    <3>5. QED BY <2>6, <3>2, <3>3, <3>4 DEF ChecksTab
  <2>7. CASE CollectsTabs(r)
    <3> DEFINE c == Mine(r).owned \cap InGroup(Mine(r).group)
               m == [x.read EXCEPT ![w] = NoRecord]
               q == [x EXCEPT !.at = "act", !.chosen = c, !.read = m]
    <3>1. req' = [req EXCEPT ![r] = q] /\ x.at = "read" /\ UNCHANGED <<tabs, stored, listener>>
      BY <2>7 DEF CollectsTabs
    <3>2. c \subseteq Tab /\ \A t \in c : <<t, w>> \in Made
      BY <2>0, <2>b DEF MapOK, Record
    <3>3. MapOK(m, Made) /\ m \in Maps
      BY <2>g DEF NoRecord, Record
    <3> HIDE DEF x, m, c
    <3>4. /\ q \in Requests /\ q.client = x.client /\ q.managed = x.managed /\ q.ws = x.ws /\ q.read = m
          /\ q.chosen = c /\ q.at = "act"
      BY <2>0, <3>2, <3>3 DEF Requests, WorkerPlaces
    <3> HIDE DEF q
    <3>5. QED BY <2>e, <3>1, <3>2, <3>3, <3>4
  <2>8. CASE RemovesTabs(r)
    <3> DEFINE gone == {t \in x.chosen : tabs[t].at = "open"}
    <3>1. x.at = "act" /\ UNCHANGED stored
      BY <2>8 DEF RemovesTabs
    <3>2. CASE Throws(r) /\ UNCHANGED <<tabs, listener>>
      BY <2>d, <3>1, <3>2
    <3>3. CASE GoAway(gone) /\ req' = [req EXCEPT ![r].at = "save", ![r].read[req[r].ws].owned = @ \ req[r].chosen]
      <4> DEFINE z == x.read[w]
                 y == [z EXCEPT !.owned = z.owned \ x.chosen]
                 m == [x.read EXCEPT ![w] = y]
                 q == [x EXCEPT !.at = "save", !.read = m]
      <4>1. req' = [req EXCEPT ![r] = q]
        BY <3>3
      <4>2. y \in Record /\ y.owned \subseteq x.read[w].owned
        BY <2>b DEF Record
      <4>3. MapOK(m, Made) /\ m \in Maps
        BY <2>g, <4>2
      <4>4. /\ tabs' \in [Tab -> Tabs] /\ Made \subseteq Made'
            /\ listener' \in [Tab -> Listeners] /\ \A t \in Tab : ListenerOK(listener'[t], Made')
        <5>1. \A t \in gone : tabs[t].at = "open"
          OBVIOUS
        <5> HIDE DEF gone
        <5>2. QED BY <3>3, <5>1, TabsGoAway
      <4> HIDE DEF x, m, gone
      <4>5. /\ q \in Requests /\ q.client = x.client /\ q.managed = x.managed /\ q.ws = x.ws /\ q.read = m
            /\ q.chosen = x.chosen /\ q.at = "save"
        BY <2>0, <4>3 DEF Requests, WorkerPlaces
      <4> HIDE DEF q
      <4>6. \A u \in q.chosen : <<u, x.ws>> \in Made
        BY <2>0, <4>5 DEF RequestOK
      <4>7. RequestOK(q, Made)
        BY <2>0, <2>a, <3>1, <4>3, <4>5, <4>6, RequestGoes
      <4>8. RequestOK(q, Made') /\ MapOK(stored', Made')
        BY <3>1, <4>4, <4>7, MadeGrows DEF ChromeInv
      <4>9. QED BY <4>1, <4>4, <4>8, RequestMoves
    <3>4. QED BY <2>8, <3>2, <3>3 DEF RemovesTabs
  <2>9. CASE Commands(r)
    BY <2>9, <2>c DEF Commands, WorkerPlaces
  <2>10. CASE SavesMap(r)
    <3>1. x.at \in {"save", "prune"} /\ stored' = x.read /\ UNCHANGED <<tabs, listener>>
      BY <2>10 DEF SavesMap
    <3>2. PICK at \in WorkerPlaces \ {"group", "none"} : req' = To(r, at)
      BY <2>10 DEF SavesMap, WorkerPlaces
    <3>3. PICK q : To(r, at) = [req EXCEPT ![r] = q] /\ RequestOK(q, Made)
      BY <2>0, <3>1, RequestOver
    <3>4. Made' = Made
      BY <3>1 DEF Made
    <3>5. MapOK(stored', Made') /\ listener' \in [Tab -> Listeners] /\ (\A u \in Tab : ListenerOK(listener'[u], Made'))
          /\ tabs' \in [Tab -> Tabs] /\ RequestOK(q, Made')
      BY <2>b, <3>1, <3>3, <3>4 DEF ChromeInv
    <3>6. req' = [req EXCEPT ![r] = q]
      BY <3>2, <3>3
    <3>7. QED BY <3>4, <3>5, <3>6, RequestMoves
  <2>11. CASE FinishesTab(r)
    BY <2>11, <2>c DEF FinishesTab, WorkerPlaces
  <2>12. QED BY <1>4, <2>1, <2>2, <2>3, <2>4, <2>5, <2>6, <2>7, <2>8, <2>9, <2>10, <2>11 DEF WorkerStep
<1>5. ASSUME NEW t \in Tab, ListenerStep(t) PROVE ChromeInv'
  <2> DEFINE l == listener[t]
  <2>0. l \in Listeners /\ ListenerOK(l, Made) /\ listener \in [Tab -> Listeners] /\ MapOK(stored, Made) /\ stored \in Maps
    BY DEF ChromeInv, MapOK
  <2>a. UNCHANGED <<tabs, req>> /\ Made' = Made
    BY <1>5 DEF ListenerStep, ListenerReads, ListenerRuns, ListenerSaves, Made
  <2>b. ASSUME NEW p \in Listeners, listener' = [listener EXCEPT ![t] = p], ListenerOK(p, Made), MapOK(stored', Made)
        PROVE  ChromeInv'
    <3>1. listener' \in [Tab -> Listeners] /\ \A u \in Tab : ListenerOK(listener'[u], Made')
      BY <2>0, <2>a, <2>b DEF ChromeInv
    <3>2. QED BY <2>a, <2>b, <3>1 DEF ChromeInv
  <2>1. CASE ListenerReads(t)
    <3>1. UNCHANGED stored
      BY <2>1 DEF ListenerReads
    <3>2. CASE listener' = [listener EXCEPT ![t].at = "done"]
      <4> DEFINE p == [l EXCEPT !.at = "done"]
      <4>1. listener' = [listener EXCEPT ![t] = p]
        BY <3>2
      <4> HIDE DEF l
      <4>2. p \in Listeners /\ p.at = "done" /\ p.read = l.read
        BY <2>0 DEF Listeners
      <4> HIDE DEF p
      <4>3. ListenerOK(p, Made)
        BY <2>0, <4>2 DEF ListenerOK
      <4>4. QED BY <2>0, <2>b, <3>1, <4>1, <4>2, <4>3
    <3>3. ASSUME NEW w \in Workspace, listener' = [listener EXCEPT ![t].at = "queued", ![t].ws = w] PROVE ChromeInv'
      <4> DEFINE p == [l EXCEPT !.at = "queued", !.ws = w]
      <4>1. listener' = [listener EXCEPT ![t] = p]
        BY <3>3
      <4> HIDE DEF l
      <4>2. p \in Listeners /\ p.at = "queued" /\ p.read = l.read /\ p.ws = w
        BY <2>0 DEF Listeners
      <4> HIDE DEF p
      <4>3. ListenerOK(p, Made)
        BY <2>0, <4>2 DEF ListenerOK
      <4>4. QED BY <2>0, <2>b, <3>1, <4>1, <4>2, <4>3
    <3>4. QED BY <2>1, <3>2, <3>3 DEF ListenerReads
  <2>2. CASE ListenerRuns(t)
    <3> DEFINE p == [l EXCEPT !.at = "save", !.read = stored]
    <3>1. listener' = [listener EXCEPT ![t] = p] /\ UNCHANGED stored /\ l.at = "queued"
      BY <2>2 DEF ListenerRuns
    <3> HIDE DEF l
    <3>2. p \in Listeners /\ p.at = "save" /\ p.read = stored /\ p.ws = l.ws
      BY <2>0 DEF Listeners
    <3> HIDE DEF p
    <3>3. ListenerOK(p, Made)
      BY <2>0, <3>1, <3>2 DEF ListenerOK
    <3>4. QED BY <2>0, <2>b, <3>1, <3>2, <3>3
  <2>3. CASE ListenerSaves(t)
    <3> DEFINE w == l.ws
               z == l.read[w]
               y == [z EXCEPT !.owned = z.owned \ {t}]
               m == [l.read EXCEPT ![w] = y]
               p == [l EXCEPT !.at = "done", !.read = NoMap]
    <3>1. listener' = [listener EXCEPT ![t] = p] /\ stored' = m /\ l.at = "save"
      BY <2>3 DEF ListenerSaves
    <3>2. w \in Workspace /\ MapOK(l.read, Made) /\ z \in Record
      BY <2>0, <3>1 DEF ListenerOK, MapOK, Maps
    <3>3. y \in Record /\ y.owned \subseteq l.read[w].owned
      BY <3>2 DEF Record
    <3>4. MapOK(m, Made)
      BY <3>2, <3>3, RecordShrinks
    <3>5. NoMap \in Maps /\ MapOK(NoMap, Made)
      BY DEF NoMap, NoRecord, Record, Maps, MapOK
    <3> HIDE DEF l, m
    <3>6. p \in Listeners /\ p.at = "done" /\ p.read = NoMap
      BY <2>0, <3>5 DEF Listeners
    <3> HIDE DEF p
    <3>7. ListenerOK(p, Made)
      BY <3>5, <3>6 DEF ListenerOK
    <3>8. QED BY <2>b, <3>1, <3>4, <3>6, <3>7
  <2>4. QED BY <1>5, <2>1, <2>2, <2>3 DEF ListenerStep
<1>6. QED BY <1>1, <1>2, <1>3, <1>4, <1>5 DEF ChromeNext

LEMMA ChromeInvariant == ChromeSpec => []ChromeInv
BY ChromeStart, ChromeStep, PTL DEF ChromeSpec

\* OneTabPerRequest: a request for a page makes at most one tab, in the
\* companion or in a managed browser, however its connection fails
\* (createCdpPageContext, ensureTab).
THEOREM RequestsMakeOneTab == ChromeSpec => []OneTabPerRequest
<1>1. ChromeInv => OneTabPerRequest
  <2> SUFFICES ASSUME ChromeInv, NEW r \in DOMAIN req
               PROVE  req[r].managed + (IF req[r].tab = NoTab THEN 0 ELSE 1) <= 1
    BY DEF OneTabPerRequest
  <2>1. RequestOK(req[r], Made) /\ req[r] \in Requests
    BY DEF ChromeInv
  <2>2. QED BY <2>1 DEF RequestOK, Requests
<1>2. QED BY <1>1, ChromeInvariant, PTL

\* Confined: no workspace records, closes or commands a tab that was not made
\* for it, although every operation saves the whole map of all workspaces.
THEOREM WorkspacesConfined == ChromeSpec => []Confined
<1>1. ChromeInv => Confined
  BY DEF ChromeInv, Confined, MapOK, Maps, RequestOK, Made
<1>2. QED BY <1>1, ChromeInvariant, PTL

--------------------------------------------------------------------------------
(* ChromeWorkspace: what was reported is kept, in a lane that is not shared.  *)

\* Where a request carries a copy of the map; all of it is in its lane.
MapPlaces == {"read", "create", "group", "save", "prune", "act"}
OneLane(lane) == \A r \in DOMAIN req : req[r].ws = lane /\ Mutates(r)

\* Who carries a copy of the map is the head of the lane, and tabs are made for
\* the lane, each by one request and before anybody hears of its end.
LaneOK(lane) ==
  /\ queue \in [Workspace -> Seq(Request \cup Tab)]
  /\ \A r \in DOMAIN req :
       /\ r \in Request /\ req[r].at # "start"
       /\ req[r].at \in MapPlaces => Runs(r, lane)
       /\ req[r].at \in {"create", "group"} => req[r].kind = "ensure"
       /\ req[r].kind = "ensure" /\ req[r].at \in {"group", "save", "finish", "done"} => req[r].tab \in Tab
       /\ req[r].kind = "ensure" /\ req[r].tab # NoTab => tabs[req[r].tab].at # "unborn"
  /\ \A r, q \in DOMAIN req : req[r].kind = "ensure" /\ req[q].kind = "ensure" /\ req[r].tab = req[q].tab => r = q \/ req[r].tab = NoTab
  /\ \A t \in Tab :
       /\ tabs[t].at # "unborn" => tabs[t].for = lane
       /\ listener[t].at # "none" => tabs[t].at = "gone"
       /\ listener[t].at \in {"queued", "save"} => listener[t].ws = lane
       /\ listener[t].at = "save" => Runs(t, lane)

\* The tabs that were reported, or are about to be, and are still in a group.
Settles(x, t, y) == x.kind = "ensure" /\ x.at \in {"finish", "done"} /\ x.tab = t /\ y.at = "open" /\ y.group # NoTab
SettledTabs == {t \in Tab : \E r \in DOMAIN req : Settles(req[r], t, tabs[t])}

\* A record keeps them if it lists them and has their group.
Keeps(record, settled, all) == \A t \in settled : t \in record.owned /\ all[t].group = record.group

RequestKeeps(x, lane, settled, all) ==
  /\ x.at \in MapPlaces => Keeps(x.read[lane], settled, all)
  /\ x.at \in {"create", "group"} => \A t \in settled : all[t].group = x.group
  /\ x.kind = "ensure" /\ x.at = "save" /\ all[x.tab].at = "open" /\ all[x.tab].group # NoTab =>
       x.tab \in x.read[lane].owned /\ all[x.tab].group = x.read[lane].group

TrackOK(lane) ==
  /\ Keeps(stored[lane], SettledTabs, tabs)
  /\ \A r \in DOMAIN req : RequestKeeps(req[r], lane, SettledTabs, tabs)
  /\ \A t \in Tab : listener[t].at = "save" => Keeps(listener[t].read[lane], SettledTabs, tabs)

Quiet == renamed = {} /\ \A r \in DOMAIN req : req[r].kind = "close" => req[r].at = "none"

LaneInv(lane) == OneLane(lane) => LaneOK(lane) /\ (Quiet => TrackOK(lane))

LEMMA OneLaneStays ==
  ASSUME ChromeInv, NEW lane, NEW r \in DOMAIN req, NEW q, req' = [req EXCEPT ![r] = q], q.kind = req[r].kind, q.ws = req[r].ws
  PROVE  OneLane(lane)' => OneLane(lane)
<1>1. DOMAIN req' = DOMAIN req /\ \A x \in DOMAIN req : req'[x].kind = req[x].kind /\ req'[x].ws = req[x].ws
  BY DEF ChromeInv
<1>2. QED BY <1>1 DEF OneLane, Mutates

\* What a request may do to its lane, to the tabs and to their listeners.
QueueGoes(lane, r, q) ==
  \/ queue' = queue /\ (q.at \in MapPlaces => Runs(r, lane))
  \/ queue' = [queue EXCEPT ![lane] = Append(@, r)] /\ q.at \notin MapPlaces
  \/ queue' = [queue EXCEPT ![lane] = Tail(@)] /\ req[r].at \in MapPlaces /\ q.at \notin MapPlaces
TabsGo(lane) ==
  \A t \in Tab : /\ tabs[t].at # "unborn" => tabs'[t].at # "unborn"
                 /\ tabs'[t].at # "unborn" => tabs'[t].for = lane
                 /\ tabs[t].at = "gone" => tabs'[t].at = "gone"
                 /\ listener'[t] = listener[t] \/ (listener'[t].at = "heard" /\ tabs'[t].at = "gone")
TabGoes(r, q) ==
  q.kind = "ensure" => /\ q.at \in {"group", "save", "finish", "done"} => q.tab \in Tab
                       /\ q.tab # NoTab => tabs'[q.tab].at # "unborn"
                       /\ q.tab = req[r].tab \/ q.tab = NoTab \/ tabs[q.tab].at = "unborn"

\* Head and tail of a lane.
LEMMA LaneGrows ==
  ASSUME NEW S, NEW s \in Seq(S), NEW e \in S
  PROVE  Append(s, e) \in Seq(S) /\ Append(s, e) # <<>> /\ (s # <<>> => Head(Append(s, e)) = Head(s))
<1>1. PICK u : u = Append(s, e)
  OBVIOUS
<1>2. u \in Seq(S) /\ Len(u) = Len(s) + 1 /\ (\A i \in 1 .. Len(s) : u[i] = s[i]) /\ Len(s) \in Nat
  BY <1>1
<1>3. s # <<>> => 1 \in 1 .. Len(s) /\ Head(s) = s[1]
  BY <1>2
<1>4. u # <<>> /\ Head(u) = u[1]
  BY <1>2
<1>5. QED BY <1>1, <1>2, <1>3, <1>4

LEMMA LaneMoves ==
  ASSUME ChromeInv, NEW lane \in Workspace, LaneOK(lane), NEW r \in DOMAIN req, NEW q, req' = [req EXCEPT ![r] = q],
         q.kind = req[r].kind, q.at # "start", q.at \in {"create", "group"} => q.kind = "ensure",
         QueueGoes(lane, r, q), TabsGo(lane), TabGoes(r, q)
  PROVE  LaneOK(lane)'
<1>1. DOMAIN req' = DOMAIN req /\ req'[r] = q /\ \A x \in DOMAIN req \ {r} : req'[x] = req[x]
  BY DEF ChromeInv
<1>2. \A x \in DOMAIN req : req[x].tab \in Tab \cup {NoTab}
  BY DEF ChromeInv, Requests
<1>3. /\ queue \in [Workspace -> Seq(Request \cup Tab)]
      /\ \A x \in DOMAIN req : x \in Request
      /\ \A x \in DOMAIN req : req[x].at \in MapPlaces => Runs(x, lane)
      /\ \A t \in Tab : listener[t].at = "save" => Runs(t, lane)
  BY DEF LaneOK
<1>4. \A x \in Request : \A t \in Tab : x # t
  BY ChromeAssumption
\* Nobody else carries a map when the head leaves.
<1>5. /\ queue' \in [Workspace -> Seq(Request \cup Tab)]
      /\ \A x \in DOMAIN req : req'[x].at \in MapPlaces => Runs(x, lane)'
      /\ \A t \in Tab : listener[t].at = "save" => Runs(t, lane)'
  <2>1. CASE queue' = queue /\ (q.at \in MapPlaces => Runs(r, lane))
    <3>1. \A x : Runs(x, lane)' <=> Runs(x, lane)
      BY <2>1 DEF Runs
    <3>2. QED BY <1>1, <1>3, <2>1, <3>1
  <2>2. CASE queue' = [queue EXCEPT ![lane] = Append(@, r)] /\ q.at \notin MapPlaces
    <3>1. PICK s : s = queue[lane]
      OBVIOUS
    <3>2. s \in Seq(Request \cup Tab) /\ r \in Request \cup Tab
      BY <1>3, <3>1
    <3>3. PICK u : u = Append(s, r)
      OBVIOUS
    <3>4. PICK S : S = Request \cup Tab
      OBVIOUS
    <3>5. u \in Seq(S) /\ u # <<>> /\ (s # <<>> => Head(u) = Head(s))
      BY <3>2, <3>3, <3>4, LaneGrows
    <3>6. queue' = [queue EXCEPT ![lane] = u]
      BY <2>2, <3>1, <3>3
    <3>7. queue' \in [Workspace -> Seq(Request \cup Tab)] /\ queue'[lane] = u
      BY <1>3, <3>4, <3>5, <3>6
    <3>8. \A x : Runs(x, lane) => Runs(x, lane)'
      BY <3>1, <3>5, <3>7 DEF Runs
    <3>9. QED BY <1>1, <1>3, <2>2, <3>7, <3>8
  <2>3. CASE queue' = [queue EXCEPT ![lane] = Tail(@)] /\ req[r].at \in MapPlaces /\ q.at \notin MapPlaces
    <3>1. queue[lane] # <<>> /\ Head(queue[lane]) = r
      BY <1>3, <2>3 DEF Runs
    <3>2. \A x \in DOMAIN req \ {r} : req[x].at \notin MapPlaces
      BY <1>3, <3>1 DEF Runs
    <3>3. \A t \in Tab : listener[t].at # "save"
      BY <1>3, <1>4, <3>1 DEF Runs
    <3>4. queue' \in [Workspace -> Seq(Request \cup Tab)]
      <4>1. PICK s : s = queue[lane]
        OBVIOUS
      <4>2. s \in Seq(Request \cup Tab) /\ s # <<>>
        BY <1>3, <3>1, <4>1
      <4>3. Tail(s) \in Seq(Request \cup Tab)
        BY <4>2
      <4>4. QED BY <1>3, <2>3, <4>1, <4>3
    <3>5. QED BY <1>1, <2>3, <3>2, <3>3, <3>4
  <2>4. QED BY <2>1, <2>2, <2>3 DEF QueueGoes
<1>6. \A x \in DOMAIN req' :
        /\ x \in Request /\ req'[x].at # "start"
        /\ req'[x].at \in MapPlaces => Runs(x, lane)'
        /\ req'[x].at \in {"create", "group"} => req'[x].kind = "ensure"
        /\ req'[x].kind = "ensure" /\ req'[x].at \in {"group", "save", "finish", "done"} => req'[x].tab \in Tab
        /\ req'[x].kind = "ensure" /\ req'[x].tab # NoTab => tabs'[req'[x].tab].at # "unborn"
  <2> SUFFICES ASSUME NEW x \in DOMAIN req
               PROVE  /\ x \in Request /\ req'[x].at # "start"
                      /\ req'[x].at \in MapPlaces => Runs(x, lane)'
                      /\ req'[x].at \in {"create", "group"} => req'[x].kind = "ensure"
                      /\ req'[x].kind = "ensure" /\ req'[x].at \in {"group", "save", "finish", "done"} => req'[x].tab \in Tab
                      /\ req'[x].kind = "ensure" /\ req'[x].tab # NoTab => tabs'[req'[x].tab].at # "unborn"
    BY <1>1
  <2>1. CASE x = r
    BY <1>1, <1>3, <1>5, <2>1 DEF TabGoes
  <2>2. CASE x # r
    <3>1. req'[x] = req[x]
      BY <1>1, <2>2
    <3>2. req[x].kind = "ensure" /\ req[x].tab # NoTab => tabs'[req[x].tab].at # "unborn"
      BY <1>2 DEF LaneOK, TabsGo
    <3>3. QED BY <1>3, <1>5, <3>1, <3>2 DEF LaneOK
  <2>3. QED BY <2>1, <2>2
<1>7. \A x, z \in DOMAIN req' :
        req'[x].kind = "ensure" /\ req'[z].kind = "ensure" /\ req'[x].tab = req'[z].tab => x = z \/ req'[x].tab = NoTab
  <2>1. ASSUME NEW x \in DOMAIN req, x # r, req[x].kind = "ensure", q.kind = "ensure", req[x].tab = q.tab PROVE q.tab = NoTab
    <3>1. req[x].tab # NoTab => tabs[req[x].tab].at # "unborn"
      BY <2>1 DEF LaneOK
    <3>2. q.tab = req[r].tab => q.tab = NoTab
      BY <2>1 DEF LaneOK
    <3>3. QED BY <2>1, <3>1, <3>2 DEF TabGoes
  <2>2. \A x, z \in DOMAIN req : req[x].kind = "ensure" /\ req[z].kind = "ensure" /\ req[x].tab = req[z].tab => x = z \/ req[x].tab = NoTab
    BY DEF LaneOK
  <2>3. QED BY <1>1, <2>1, <2>2
<1>8. \A t \in Tab :
        /\ tabs'[t].at # "unborn" => tabs'[t].for = lane
        /\ listener'[t].at # "none" => tabs'[t].at = "gone"
        /\ listener'[t].at \in {"queued", "save"} => listener'[t].ws = lane
        /\ listener'[t].at = "save" => Runs(t, lane)'
  BY <1>5 DEF LaneOK, TabsGo
<1>9. QED BY <1>5, <1>6, <1>7, <1>8 DEF LaneOK

\* A tab that is open in a group after the step was so before it.
TabsSettle(t) == tabs'[t].at = "open" /\ tabs'[t].group # NoTab => tabs'[t] = tabs[t]

LEMMA TrackMoves ==
  ASSUME ChromeInv, NEW lane \in Workspace, LaneOK(lane), TrackOK(lane), NEW r \in DOMAIN req, NEW q, req' = [req EXCEPT ![r] = q],
         stored' = stored,
         SettledTabs' \subseteq SettledTabs, \A t \in SettledTabs' : tabs'[t].group = tabs[t].group,
         (\A t \in Tab : TabsSettle(t)) \/ req[r].at \in MapPlaces,
         \A t \in Tab : listener'[t] = listener[t] \/ listener'[t].at = "heard",
         RequestKeeps(q, lane, SettledTabs', tabs') 
  PROVE  TrackOK(lane)'
<1>1. DOMAIN req' = DOMAIN req /\ req'[r] = q /\ \A x \in DOMAIN req \ {r} : req'[x] = req[x]
  BY DEF ChromeInv
<1>2. PICK S, all, S2, all2 : S = SettledTabs /\ all = tabs /\ S2 = SettledTabs' /\ all2 = tabs'
  OBVIOUS
<1>3. S2 \subseteq S /\ \A t \in S2 : all2[t].group = all[t].group
  BY <1>2
<1>4. \A y : Keeps(y, S, all) => Keeps(y, S2, all2)
  BY <1>3 DEF Keeps
<1>5. Keeps(stored[lane], SettledTabs, tabs)'
  <2>1. Keeps(stored[lane], S2, all2)
    BY <1>2, <1>4 DEF TrackOK
  <2>2. QED BY <1>2, <2>1
<1>6. \A x \in DOMAIN req' : RequestKeeps(req'[x], lane, S2, all2)
  <2>1. RequestKeeps(q, lane, S2, all2)
    BY <1>2
  <2>2. ASSUME NEW x \in DOMAIN req, x # r PROVE RequestKeeps(req[x], lane, S2, all2)
    <3>1. RequestKeeps(req[x], lane, S, all)
      BY <1>2 DEF TrackOK
    <3>2. CASE req[x].at \in MapPlaces
      <4>1. ~(req[r].at \in MapPlaces)
        BY <2>2, <3>2 DEF LaneOK, Runs
      <4>2. \A t \in Tab : all2[t].at = "open" /\ all2[t].group # NoTab => all2[t] = all[t]
        BY <1>2, <4>1 DEF TabsSettle
      <4>3. req[x].kind = "ensure" /\ req[x].at = "save" => req[x].tab \in Tab
        BY DEF LaneOK
      <4>4. QED BY <1>3, <1>4, <3>1, <4>2, <4>3 DEF RequestKeeps
    <3>3. CASE req[x].at \notin MapPlaces
      BY <3>3 DEF RequestKeeps, MapPlaces
    <3>4. QED BY <3>2, <3>3
  <2>3. QED BY <1>1, <2>1, <2>2
<1>7. \A t \in Tab : (listener[t].at = "save" => Keeps(listener[t].read[lane], SettledTabs, tabs))'
  <2>1. ASSUME NEW t \in Tab, listener'[t].at = "save" PROVE Keeps(listener'[t].read[lane], S2, all2)
    <3>1. listener'[t] = listener[t]
      BY <2>1
    <3>2. Keeps(listener[t].read[lane], S, all)
      BY <1>2, <2>1, <3>1 DEF TrackOK
    <3>3. QED BY <1>4, <3>1, <3>2
  <2>2. QED BY <1>2, <2>1
<1>8. QED BY <1>2, <1>5, <1>6, <1>7 DEF TrackOK

\* When all is quiet after a step of a request, it was before.
LEMMA QuietBefore ==
  ASSUME ChromeInv, NEW r \in DOMAIN req, NEW q, req' = [req EXCEPT ![r] = q], q.kind = req[r].kind, q.at = "none" => req[r].at = "none",
         renamed' = renamed, Quiet'
  PROVE  Quiet /\ (q.kind = "close" => q.at = "none")
<1>1. DOMAIN req' = DOMAIN req /\ req'[r] = q /\ \A x \in DOMAIN req \ {r} : req'[x] = req[x]
  BY DEF ChromeInv
<1>2. QED BY <1>1 DEF Quiet

\* A request that ends nothing and settles nothing, and no tab changes: another
\* map in its hands, or another place.
LEMMA LaneOnly ==
  ASSUME ChromeInv, NEW lane \in Workspace, LaneInv(lane), OneLane(lane), NEW r \in DOMAIN req, NEW q, req' = [req EXCEPT ![r] = q],
         UNCHANGED <<tabs, stored, renamed, listener>>,
         q.kind = req[r].kind, q.at # "start", q.at = "none" => req[r].at = "none",
         q.at \in {"create", "group"} => q.kind = "ensure",
         q.kind = "ensure" => q.tab = req[r].tab, q.at \in {"finish", "done"} => q.at = req[r].at \/ req[r].at = "finish" \/ q.kind # "ensure",
         q.at \notin {"group", "save"} \/ q.kind # "ensure" \/ q.at = req[r].at,
         QueueGoes(lane, r, q),
         Quiet /\ TrackOK(lane) /\ (q.kind = "close" => q.at = "none") => RequestKeeps(q, lane, SettledTabs, tabs)
  PROVE  LaneInv(lane)'
<1>1. LaneOK(lane)
  BY DEF LaneInv
<1>2. DOMAIN req' = DOMAIN req /\ req'[r] = q /\ \A x \in DOMAIN req \ {r} : req'[x] = req[x]
  BY DEF ChromeInv
<1>3. TabsGo(lane)
  BY <1>1 DEF LaneOK, TabsGo
<1>4. TabGoes(r, q)
  BY <1>1 DEF LaneOK, TabGoes
<1>5. LaneOK(lane)'
  BY <1>1, <1>3, <1>4, LaneMoves
<1>6. SettledTabs' \subseteq SettledTabs
  <2>1. ASSUME NEW t \in Tab, NEW x \in DOMAIN req, Settles(req'[x], t, tabs[t]) PROVE Settles(req[x], t, tabs[t])
    BY <1>2, <2>1 DEF Settles
  <2>2. QED BY <1>2, <2>1 DEF SettledTabs
<1>7. Quiet' => TrackOK(lane)'
  <2> SUFFICES ASSUME Quiet' PROVE TrackOK(lane)'
    OBVIOUS
  <2>1. Quiet /\ (q.kind = "close" => q.at = "none")
    BY QuietBefore
  <2>2. TrackOK(lane)
    BY <2>1 DEF LaneInv
  <2>3. RequestKeeps(q, lane, SettledTabs, tabs)
    BY <2>1, <2>2
  <2>4. PICK S, S2 : S = SettledTabs /\ S2 = SettledTabs'
    OBVIOUS
  <2>5. RequestKeeps(q, lane, S2, tabs)
    BY <1>6, <2>3, <2>4 DEF RequestKeeps, Keeps
  <2>6. RequestKeeps(q, lane, SettledTabs', tabs')
    BY <2>4, <2>5
  <2>7. \A t \in Tab : TabsSettle(t)
    BY DEF TabsSettle
  <2>8. QED BY <1>1, <1>6, <2>2, <2>6, <2>7, TrackMoves
<1>8. QED BY <1>5, <1>7 DEF LaneInv

\* What is true of a request whose lane is the only one.
LEMMA InLane ==
  ASSUME ChromeInv, NEW lane \in Workspace, LaneInv(lane), OneLane(lane), NEW r \in DOMAIN req
  PROVE  /\ req[r].ws = lane /\ Mutates(r) /\ req[r].kind \in {"ensure", "close", "closeTab"} /\ LaneOK(lane)
         /\ req[r].at \in MapPlaces => Runs(r, lane)
         /\ Mine(r) = req[r].read[lane] /\ Mine(r) \in Record /\ stored[lane] \in Record
         /\ req[r] \in Requests /\ req[r].at # "start" /\ req[r].read \in Maps
<1>1. req[r] \in Requests /\ RequestOK(req[r], Made) /\ stored \in Maps
  BY DEF ChromeInv, MapOK
<1>2. req[r].ws = lane /\ Mutates(r) /\ LaneOK(lane)
  BY DEF OneLane, LaneInv
<1>3. req[r].read \in Maps
  BY <1>1 DEF RequestOK, MapOK
<1>4. QED BY <1>1, <1>2, <1>3 DEF Mutates, LaneOK, Mine, Maps

\* A request that throws, in its lane or behind it.
LEMMA LaneOver ==
  ASSUME ChromeInv, NEW lane \in Workspace, LaneInv(lane), OneLane(lane), NEW r \in DOMAIN req,
         UNCHANGED <<tabs, stored, renamed, listener>>,
         \/ req[r].at \in MapPlaces /\ Throws(r)
         \/ req[r].at = "finish" /\ queue' = queue /\ \E at \in {"done", "error"} : req' = To(r, at)
  PROVE  LaneInv(lane)'
<1> DEFINE x == req[r]
<1>1. PICK at \in {"done", "error"} : req' = To(r, at) /\ (at = "done" => x.at = "finish")
  BY DEF Throws
<1> DEFINE q == [x EXCEPT !.at = at, !.read = NoMap, !.group = NoTab, !.chosen = {}]
<1>2. req' = [req EXCEPT ![r] = q]
  BY <1>1 DEF To
<1>3. x \in Requests /\ x.ws = lane /\ Mutates(r)
  BY InLane
<1>4. x.at \in MapPlaces \/ x.at = "finish"
  OBVIOUS
<1>5. queue' = queue \/ (queue' = [queue EXCEPT ![lane] = Tail(@)] /\ x.at \in MapPlaces)
  BY <1>3 DEF Throws, LeavesQueue, Leaves
<1> HIDE DEF x
<1>6. q.kind = x.kind /\ q.tab = x.tab /\ q.at = at
  BY <1>3 DEF Requests
<1> HIDE DEF q
<1>7. QueueGoes(lane, r, q)
  BY <1>1, <1>5, <1>6 DEF QueueGoes, MapPlaces, x
<1>8. RequestKeeps(q, lane, SettledTabs, tabs)
  BY <1>1, <1>6 DEF RequestKeeps, MapPlaces
<1>9. QED BY <1>1, <1>2, <1>6, <1>7, <1>8, LaneOnly DEF x

LEMMA LaneReads ==
  ASSUME ChromeInv, NEW lane \in Workspace, LaneInv(lane), OneLane(lane), NEW r \in DOMAIN req, ReadsMap(r)
  PROVE  LaneInv(lane)'
<1> DEFINE x == req[r]
           q == [x EXCEPT !.at = "read", !.read = stored]
<1>1. /\ req' = [req EXCEPT ![r] = q] /\ UNCHANGED <<stored, tabs, renamed, queue, listener>>
      /\ x.at \in {"queued", "start"} /\ (x.at = "queued" => Runs(r, x.ws))
  BY DEF ReadsMap
<1>2. x \in Requests /\ x.ws = lane /\ x.at = "queued"
  BY <1>1, InLane
<1> HIDE DEF x
<1>3. q.kind = x.kind /\ q.tab = x.tab /\ q.at = "read" /\ q.read = stored
  BY <1>2 DEF Requests
<1> HIDE DEF q
<1>4. QueueGoes(lane, r, q)
  BY <1>1, <1>2 DEF QueueGoes
<1>5. TrackOK(lane) => RequestKeeps(q, lane, SettledTabs, tabs)
  BY <1>3 DEF RequestKeeps, TrackOK
<1>6. QED BY <1>1, <1>3, <1>4, <1>5, LaneOnly DEF x

\* What is settled keeps its group alive, so the group goes on.
LEMMA LaneFinds ==
  ASSUME ChromeInv, NEW lane \in Workspace, LaneInv(lane), OneLane(lane), NEW r \in DOMAIN req, FindsGroup(r)
  PROVE  LaneInv(lane)'
<1> DEFINE x == req[r]
           y == Refreshed(x.read[lane])
           g == ExistingGroup(x.read[lane])
           m == [x.read EXCEPT ![lane] = y]
           q == [x EXCEPT !.at = "create", !.group = g, !.read = m]
<1>1. x \in Requests /\ x.ws = lane /\ Runs(r, lane) /\ x.at = "read" /\ x.kind = "ensure" /\ x.read \in Maps /\ Mine(r) = x.read[lane]
  BY InLane DEF FindsGroup, MapPlaces
<1>2. req' = [req EXCEPT ![r] = q] /\ UNCHANGED <<stored, tabs, renamed, queue, listener>>
  BY <1>1 DEF FindsGroup
<1>3. m[lane] = y
  BY <1>1 DEF Maps
<1>4. PICK z : z = x.read[lane]
  OBVIOUS
<1>5. ASSUME Quiet, TrackOK(lane), NEW t \in SettledTabs
      PROVE  t \in z.owned /\ tabs[t].group = z.group /\ y = z /\ g = z.group
  <2>1. Keeps(z, SettledTabs, tabs)
    BY <1>1, <1>4, <1>5 DEF TrackOK, RequestKeeps, MapPlaces
  <2>2. t \in z.owned /\ tabs[t].group = z.group
    BY <2>1 DEF Keeps
  <2>3. t \in Tab /\ tabs[t].at = "open" /\ tabs[t].group # NoTab
    BY DEF SettledTabs, Settles
  <2>4. GroupExists(z.group)
    BY <2>2, <2>3 DEF GroupExists, InGroup
  <2>5. renamed = {}
    BY <1>5 DEF Quiet
  <2>6. QED BY <1>4, <2>2, <2>4, <2>5 DEF Refreshed, ExistingGroup
<1> HIDE DEF x, m, g, y
<1>6. q.kind = x.kind /\ q.tab = x.tab /\ q.at = "create" /\ q.read = m /\ q.group = g
  BY <1>1 DEF Requests
<1> HIDE DEF q
<1>7. QueueGoes(lane, r, q)
  BY <1>1, <1>2 DEF QueueGoes
<1>8. Quiet /\ TrackOK(lane) => RequestKeeps(q, lane, SettledTabs, tabs)
  BY <1>3, <1>5, <1>6 DEF RequestKeeps, Keeps
<1>9. QED BY <1>1, <1>2, <1>6, <1>7, <1>8, LaneOnly DEF x

LEMMA LaneChecks ==
  ASSUME ChromeInv, NEW lane \in Workspace, LaneInv(lane), OneLane(lane), NEW r \in DOMAIN req, ChecksTab(r)
  PROVE  LaneInv(lane)'
<1> DEFINE x == req[r]
           t == x.tab
           z == x.read[lane]
<1>1. /\ x \in Requests /\ x.ws = lane /\ Runs(r, lane) /\ x.at = "read" /\ x.kind = "closeTab" /\ x.read \in Maps
      /\ z \in Record /\ Mine(r) = z
  BY InLane DEF ChecksTab, MapPlaces
<1>2. UNCHANGED <<stored, tabs, renamed, listener>>
  BY DEF ChecksTab
<1>3. CASE Throws(r)
  BY <1>1, <1>2, <1>3, LaneOver DEF MapPlaces
<1>4. CASE /\ tabs[t].group # z.group /\ UNCHANGED queue
           /\ req' = [req EXCEPT ![r].at = "prune", ![r].read[req[r].ws].owned = @ \ {t}]
  <2> DEFINE y == [z EXCEPT !.owned = z.owned \ {t}]
             m == [x.read EXCEPT ![lane] = y]
             q == [x EXCEPT !.at = "prune", !.read = m]
  <2>1. req' = [req EXCEPT ![r] = q]
    BY <1>1, <1>4
  <2>2. m[lane] = y /\ y.group = z.group /\ y.owned = z.owned \ {t}
    BY <1>1 DEF Maps, Record
  <2>3. Keeps(z, SettledTabs, tabs) => Keeps(y, SettledTabs, tabs)
    BY <1>4, <2>2 DEF Keeps
  <2> HIDE DEF x, y, z, m
  <2>4. q.kind = x.kind /\ q.tab = x.tab /\ q.at = "prune" /\ q.read = m
    BY <1>1 DEF Requests
  <2> HIDE DEF q
  <2>5. QueueGoes(lane, r, q)
    BY <1>1, <1>4 DEF QueueGoes
  <2>6. TrackOK(lane) => RequestKeeps(q, lane, SettledTabs, tabs)
    <3>1. TrackOK(lane) => Keeps(z, SettledTabs, tabs)
      BY <1>1 DEF TrackOK, RequestKeeps, MapPlaces, x, z
    <3>2. QED BY <2>2, <2>3, <2>4, <3>1 DEF RequestKeeps
  <2>7. QED BY <1>1, <1>2, <2>1, <2>4, <2>5, <2>6, LaneOnly DEF x
<1>5. CASE req' = [req EXCEPT ![r].at = "act", ![r].chosen = {t}] /\ UNCHANGED queue
  <2> DEFINE q == [x EXCEPT !.at = "act", !.chosen = {t}]
  <2>1. req' = [req EXCEPT ![r] = q]
    BY <1>5
  <2> HIDE DEF x
  <2>2. q.kind = x.kind /\ q.tab = x.tab /\ q.at = "act" /\ q.read = x.read
    BY <1>1 DEF Requests
  <2> HIDE DEF q
  <2>3. QueueGoes(lane, r, q)
    BY <1>1, <1>5 DEF QueueGoes
  <2>4. TrackOK(lane) => RequestKeeps(q, lane, SettledTabs, tabs)
    <3>1. TrackOK(lane) => Keeps(x.read[lane], SettledTabs, tabs)
      BY <1>1 DEF TrackOK, RequestKeeps, MapPlaces, x
    <3>2. QED BY <2>2, <3>1 DEF RequestKeeps
  <2>5. QED BY <1>1, <1>2, <2>1, <2>2, <2>3, <2>4, LaneOnly DEF x
<1>6. QED BY <1>1, <1>3, <1>4, <1>5 DEF ChecksTab

\* The end of a workspace: nothing is promised from here on.
LEMMA LaneCollects ==
  ASSUME ChromeInv, NEW lane \in Workspace, LaneInv(lane), OneLane(lane), NEW r \in DOMAIN req, CollectsTabs(r)
  PROVE  LaneInv(lane)'
<1> DEFINE x == req[r]
           c == Mine(r).owned \cap InGroup(Mine(r).group)
           m == [x.read EXCEPT ![lane] = NoRecord]
           q == [x EXCEPT !.at = "act", !.chosen = c, !.read = m]
<1>1. x \in Requests /\ x.ws = lane /\ Runs(r, lane) /\ x.at = "read" /\ x.kind = "close"
  BY InLane DEF CollectsTabs, MapPlaces
<1>2. req' = [req EXCEPT ![r] = q] /\ UNCHANGED <<stored, tabs, renamed, queue, listener>>
  BY <1>1 DEF CollectsTabs
<1> HIDE DEF x, c, m
<1>3. q.kind = x.kind /\ q.tab = x.tab /\ q.at = "act"
  BY <1>1 DEF Requests
<1> HIDE DEF q
<1>4. QueueGoes(lane, r, q)
  BY <1>1, <1>2 DEF QueueGoes
<1>5. QED BY <1>1, <1>2, <1>3, <1>4, LaneOnly DEF x

\* The client moves: the request is written, or its end is told.
LEMMA LaneClient ==
  ASSUME ChromeInv, NEW lane \in Workspace, LaneInv(lane), OneLane(lane), NEW r \in DOMAIN req, ClientStep(r)
  PROVE  LaneInv(lane)'
<1> DEFINE x == req[r]
<1>1. x \in Requests /\ x.ws = lane /\ Mutates(r) /\ (x.at \in MapPlaces => Runs(r, lane)) /\ x.at # "start" /\ LaneOK(lane)
  BY InLane
<1>2. UNCHANGED <<stored, tabs, renamed, listener>>
  BY DEF ClientStep, Connects, ConnectFails, GivesUp, Answered
<1>3. CASE Connects(r)
  <2>1. PICK target : /\ x.kind = "ensure" => target = NoTab
                      /\ req' = [req EXCEPT ![r].client = "sent", ![r].tab = target, ![r].at = "queued"]
    BY <1>1, <1>3 DEF Connects
  <2> DEFINE q == [x EXCEPT !.client = "sent", !.tab = target, !.at = "queued"]
  <2>2. req' = [req EXCEPT ![r] = q] /\ queue' = [queue EXCEPT ![lane] = Append(@, r)] /\ x.client = "unsent"
    BY <1>1, <1>3, <2>1 DEF Connects
  <2>3. x.tab = NoTab
    BY <2>2 DEF ChromeInv, RequestOK
  <2> HIDE DEF x
  <2>4. q.kind = x.kind /\ q.tab = target /\ q.at = "queued"
    BY <1>1 DEF Requests
  <2> HIDE DEF q
  <2>5. QueueGoes(lane, r, q)
    BY <2>2, <2>4 DEF QueueGoes, MapPlaces
  <2>6. RequestKeeps(q, lane, SettledTabs, tabs)
    BY <2>4 DEF RequestKeeps, MapPlaces
  <2>7. QED BY <1>2, <2>1, <2>2, <2>3, <2>4, <2>5, <2>6, LaneOnly DEF x
<1>4. CASE ~Connects(r)
  <2>1. queue' = queue
    BY <1>4 DEF ClientStep, ConnectFails, GivesUp, Answered
  <2>2. PICK client, tries, managed : req' = [req EXCEPT ![r] = [x EXCEPT !.client = client, !.tries = tries, !.managed = managed]]
    <3>1. ASSUME NEW how, ClientFails(r, how)
          PROVE  \E client, tries, managed : req' = [req EXCEPT ![r] = [x EXCEPT !.client = client, !.tries = tries, !.managed = managed]]
      <4>1. PICK there \in BOOLEAN :
              req' = [req EXCEPT ![r].client = how, ![r].managed = IF FallsBack(r) /\ there THEN @ + 1 ELSE @]
        BY <3>1 DEF ClientFails
      <4> DEFINE n == IF FallsBack(r) /\ there THEN x.managed + 1 ELSE x.managed
      <4>2. req' = [req EXCEPT ![r] = [x EXCEPT !.client = how, !.managed = n]]
        BY <4>1
      <4> HIDE DEF n
      <4>3. [x EXCEPT !.client = how, !.managed = n] = [x EXCEPT !.client = how, !.tries = x.tries, !.managed = n]
        <5> HIDE DEF x
        <5>1. QED BY <1>1 DEF Requests
      <4>4. QED BY <4>2, <4>3
    <3>2. ASSUME req' = [req EXCEPT ![r].tries = @ + 1]
          PROVE  \E client, tries, managed : req' = [req EXCEPT ![r] = [x EXCEPT !.client = client, !.tries = tries, !.managed = managed]]
      <4>1. PICK c, n, m : c = x.client /\ n = x.tries + 1 /\ m = x.managed
        OBVIOUS
      <4>2. req' = [req EXCEPT ![r] = [x EXCEPT !.tries = n]]
        BY <3>2, <4>1
      <4>3. [x EXCEPT !.tries = n] = [x EXCEPT !.client = c, !.tries = n, !.managed = m]
        <5> HIDE DEF x
        <5>1. QED BY <1>1, <4>1 DEF Requests
      <4>4. req' = [req EXCEPT ![r] = [x EXCEPT !.client = c, !.tries = n, !.managed = m]]
        BY <4>2, <4>3, Zenon
      <4>5. QED BY <4>4, Zenon
    <3>3. ASSUME req' = [req EXCEPT ![r].client = "answered"]
          PROVE  \E client, tries, managed : req' = [req EXCEPT ![r] = [x EXCEPT !.client = client, !.tries = tries, !.managed = managed]]
      <4>1. PICK c, n, m : c = "answered" /\ n = x.tries /\ m = x.managed
        OBVIOUS
      <4>2. req' = [req EXCEPT ![r] = [x EXCEPT !.client = c]]
        BY <3>3, <4>1
      <4>3. [x EXCEPT !.client = c] = [x EXCEPT !.client = c, !.tries = n, !.managed = m]
        <5> HIDE DEF x
        <5>1. QED BY <1>1, <4>1 DEF Requests
      <4>4. req' = [req EXCEPT ![r] = [x EXCEPT !.client = c, !.tries = n, !.managed = m]]
        BY <4>2, <4>3, Zenon
      <4>5. QED BY <4>4, Zenon
    <3>4. QED BY <1>4, <3>1, <3>2, <3>3 DEF ClientStep, ConnectFails, GivesUp, Answered
  <2> DEFINE q == [x EXCEPT !.client = client, !.tries = tries, !.managed = managed]
  <2>3. req' = [req EXCEPT ![r] = q]
    BY <2>2
  <2>4. TrackOK(lane) => RequestKeeps(x, lane, SettledTabs, tabs)
    BY DEF TrackOK
  <2>5. x.at \in {"create", "group"} => x.kind = "ensure"
    BY <1>1 DEF LaneOK
  <2> HIDE DEF x
  <2>6. q.kind = x.kind /\ q.tab = x.tab /\ q.at = x.at /\ q.read = x.read /\ q.group = x.group
    BY <1>1 DEF Requests
  <2> HIDE DEF q
  <2>7. QueueGoes(lane, r, q)
    BY <1>1, <2>1, <2>6 DEF QueueGoes
  <2>8. TrackOK(lane) => RequestKeeps(q, lane, SettledTabs, tabs)
    BY <2>4, <2>6 DEF RequestKeeps
  <2>9. QED BY <1>1, <1>2, <2>3, <2>5, <2>6, <2>7, <2>8, LaneOnly DEF x
<1>5. QED BY <1>3, <1>4

LEMMA LaneCreates ==
  ASSUME ChromeInv, NEW lane \in Workspace, LaneInv(lane), OneLane(lane), NEW r \in DOMAIN req, CreatesTab(r)
  PROVE  LaneInv(lane)'
<1> DEFINE x == req[r]
<1>1. /\ x \in Requests /\ x.ws = lane /\ Runs(r, lane) /\ x.at = "create" /\ x.kind = "ensure" /\ LaneOK(lane)
  BY InLane DEF CreatesTab, MapPlaces, LaneOK
<1>2. PICK t \in Tab : /\ tabs[t].at = "unborn"
                       /\ tabs' = [tabs EXCEPT ![t] = [at |-> "open", group |-> NoTab, for |-> lane]]
                       /\ req' = [req EXCEPT ![r].at = "group", ![r].tab = t]
  BY <1>1 DEF CreatesTab
<1> DEFINE q == [x EXCEPT !.at = "group", !.tab = t]
<1>3. req' = [req EXCEPT ![r] = q] /\ UNCHANGED <<stored, renamed, queue, listener>>
  BY <1>2 DEF CreatesTab
<1>4. /\ tabs'[t].at = "open" /\ tabs'[t].group = NoTab /\ tabs'[t].for = lane
      /\ \A u \in Tab \ {t} : tabs'[u] = tabs[u]
  BY <1>2 DEF ChromeInv
<1>5. DOMAIN req' = DOMAIN req /\ req'[r] = q /\ \A z \in DOMAIN req \ {r} : req'[z] = req[z]
  BY <1>3 DEF ChromeInv
<1> HIDE DEF x
<1>6. q.kind = x.kind /\ q.tab = t /\ q.at = "group" /\ q.read = x.read /\ q.group = x.group
  BY <1>1 DEF Requests
<1> HIDE DEF q
<1>7. LaneOK(lane)'
  <2>1. QueueGoes(lane, r, q)
    BY <1>1, <1>3 DEF QueueGoes
  <2>2. TabsGo(lane)
    BY <1>1, <1>2, <1>3, <1>4 DEF TabsGo, LaneOK
  <2>3. TabGoes(r, q)
    BY <1>2, <1>4, <1>6 DEF TabGoes
  <2>4. QED BY <1>1, <1>3, <1>6, <2>1, <2>2, <2>3, LaneMoves DEF x
<1>8. \A u \in SettledTabs' : u \in SettledTabs /\ tabs'[u] = tabs[u]
  <2> SUFFICES ASSUME NEW u \in SettledTabs' PROVE u \in SettledTabs /\ tabs'[u] = tabs[u]
    OBVIOUS
  <2>1. PICK z \in DOMAIN req : u \in Tab /\ Settles(req'[z], u, tabs'[u])
    BY <1>5 DEF SettledTabs
  <2>2. u # t /\ z # r
    BY <1>4, <1>5, <1>6, <2>1 DEF Settles
  <2>3. tabs'[u] = tabs[u] /\ req'[z] = req[z]
    BY <1>4, <1>5, <2>1, <2>2
  <2>4. QED BY <2>1, <2>3 DEF SettledTabs
<1>9. ASSUME Quiet' PROVE TrackOK(lane)'
  <2>1. Quiet
    BY <1>3, <1>6, <1>9, QuietBefore DEF x
  <2>2. TrackOK(lane)
    BY <2>1 DEF LaneInv
  <2>3. RequestKeeps(x, lane, SettledTabs, tabs) /\ x.at \in MapPlaces
    BY <1>1, <2>2 DEF TrackOK, MapPlaces, x
  <2>4. PICK S, S2, all, all2 : S = SettledTabs /\ S2 = SettledTabs' /\ all = tabs /\ all2 = tabs'
    OBVIOUS
  <2>5. RequestKeeps(q, lane, S2, all2)
    BY <1>1, <1>6, <1>8, <2>3, <2>4 DEF RequestKeeps, Keeps
  <2>6. RequestKeeps(q, lane, SettledTabs', tabs')
    BY <2>4, <2>5
  <2>7. /\ SettledTabs' \subseteq SettledTabs /\ \A u \in SettledTabs' : tabs'[u].group = tabs[u].group
    BY <1>8
  <2>8. QED BY <1>1, <1>3, <2>2, <2>3, <2>6, <2>7, TrackMoves DEF x
<1>10. QED BY <1>7, <1>9 DEF LaneInv

\* The tab joins the group of all that is settled, or there is nothing settled.
LEMMA LaneGroups ==
  ASSUME ChromeInv, NEW lane \in Workspace, LaneInv(lane), OneLane(lane), NEW r \in DOMAIN req, GroupsTab(r)
  PROVE  LaneInv(lane)'
<1> DEFINE x == req[r]
           t == x.tab
           g == IF x.group = NoTab THEN t ELSE x.group
           z == x.read[lane]
           y == [group |-> g, owned |-> z.owned \cup {t}]
           m == [x.read EXCEPT ![lane] = y]
           q == [x EXCEPT !.at = "save", !.read = m]
<1>1. /\ x \in Requests /\ x.ws = lane /\ Runs(r, lane) /\ x.at = "group" /\ x.kind = "ensure" /\ LaneOK(lane) /\ t \in Tab
      /\ x.read \in Maps /\ UNCHANGED <<stored, renamed, listener>>
  BY InLane DEF GroupsTab, MapPlaces, LaneOK
<1>2. CASE Throws(r) /\ UNCHANGED tabs
  BY <1>1, <1>2, LaneOver DEF MapPlaces
<1>3. CASE /\ tabs' = [tabs EXCEPT ![t].group = g] /\ tabs[t].at = "open" /\ UNCHANGED queue
           /\ req' = [req EXCEPT ![r].at = "save", ![r].read[req[r].ws] = [group |-> g, owned |-> @.owned \cup {t}]]
  <2>1. req' = [req EXCEPT ![r] = q]
    BY <1>1, <1>3
  <2>2. m[lane] = y /\ y.group = g /\ y.owned = z.owned \cup {t}
    BY <1>1 DEF Maps
  <2>3. /\ tabs'[t].at = tabs[t].at /\ tabs'[t].group = g /\ tabs'[t].for = tabs[t].for
        /\ \A u \in Tab \ {t} : tabs'[u] = tabs[u]
    <3>1. tabs \in [Tab -> Tabs] /\ t \in Tab
      BY <1>1 DEF ChromeInv
    <3>2. PICK p, b : p = tabs[t] /\ b = g
      OBVIOUS
    <3>3. tabs' = [tabs EXCEPT ![t] = [p EXCEPT !.group = b]] /\ p \in Tabs
      BY <1>3, <3>1, <3>2
    <3>4. [p EXCEPT !.group = b].at = p.at /\ [p EXCEPT !.group = b].group = b /\ [p EXCEPT !.group = b].for = p.for
      BY <3>3 DEF Tabs
    <3>5. QED BY <3>1, <3>2, <3>3, <3>4
  <2>4. DOMAIN req' = DOMAIN req /\ req'[r] = q /\ \A c \in DOMAIN req \ {r} : req'[c] = req[c]
    BY <2>1 DEF ChromeInv
  <2>5. g = NoTab => t = NoTab
    OBVIOUS
  <2>6. x.group # NoTab => g = x.group
    OBVIOUS
  <2>7. t # NoTab /\ t = x.tab
    BY <1>1, ChromeAssumption
  <2> HIDE DEF x, z, y, m, g, t
  <2>8. q.kind = x.kind /\ q.tab = t /\ q.at = "save" /\ q.read = m
    BY <1>1, <2>7 DEF Requests
  <2> HIDE DEF q
  <2>9. LaneOK(lane)'
    <3>1. QueueGoes(lane, r, q)
      BY <1>1, <1>3 DEF QueueGoes
    <3>2. TabsGo(lane)
      <4> SUFFICES ASSUME NEW u \in Tab
                   PROVE  /\ tabs[u].at # "unborn" => tabs'[u].at # "unborn"
                          /\ tabs'[u].at # "unborn" => tabs'[u].for = lane
                          /\ tabs[u].at = "gone" => tabs'[u].at = "gone"
                          /\ listener'[u] = listener[u]
        BY DEF TabsGo
      <4>1. tabs'[u].at = tabs[u].at /\ tabs'[u].for = tabs[u].for
        BY <2>3
      <4>2. QED BY <1>1, <4>1 DEF LaneOK
    <3>3. TabGoes(r, q)
      BY <1>1, <1>3, <2>3, <2>7, <2>8 DEF TabGoes, x
    <3>4. QED BY <1>1, <2>1, <2>8, <3>1, <3>2, <3>3, LaneMoves DEF x
  <2>10. \A u \in SettledTabs' : u \in SettledTabs /\ tabs'[u] = tabs[u]
    <3> SUFFICES ASSUME NEW u \in SettledTabs' PROVE u \in SettledTabs /\ tabs'[u] = tabs[u]
      OBVIOUS
    <3>1. PICK c \in DOMAIN req : u \in Tab /\ Settles(req'[c], u, tabs'[u])
      BY <2>4 DEF SettledTabs
    <3>2. c # r /\ req'[c] = req[c]
      BY <2>4, <2>8, <3>1 DEF Settles
    <3>3. req[c].kind = "ensure" /\ req[c].tab = u
      BY <3>1, <3>2 DEF Settles
    <3>4. u # t
      BY <1>1, <2>7, <3>2, <3>3 DEF LaneOK, x
    <3>5. tabs'[u] = tabs[u]
      BY <2>3, <3>1, <3>4
    <3>6. QED BY <3>1, <3>2, <3>5 DEF SettledTabs
  <2>11. ASSUME Quiet' PROVE TrackOK(lane)'
    <3>1. Quiet
      BY <1>1, <2>1, <2>8, <2>11, QuietBefore DEF x
    <3>2. TrackOK(lane)
      BY <3>1 DEF LaneInv
    <3>3. RequestKeeps(x, lane, SettledTabs, tabs) /\ x.at \in MapPlaces
      BY <1>1, <3>2 DEF TrackOK, MapPlaces, x
    <3>4. \A u \in SettledTabs : u \in z.owned /\ tabs[u].group = x.group /\ tabs[u].group # NoTab
      BY <1>1, <3>3 DEF RequestKeeps, Keeps, SettledTabs, Settles, z
    <3>5. PICK S, S2, all, all2 : S = SettledTabs /\ S2 = SettledTabs' /\ all = tabs /\ all2 = tabs'
      OBVIOUS
    <3>6. Keeps(m[lane], S2, all2)
      BY <2>2, <2>6, <2>10, <3>4, <3>5 DEF Keeps
    <3>7. q.tab \in m[lane].owned /\ all2[q.tab].group = m[lane].group
      BY <2>2, <2>3, <2>8, <3>5
    <3>8. RequestKeeps(q, lane, S2, all2)
      BY <2>8, <3>6, <3>7 DEF RequestKeeps
    <3>9. RequestKeeps(q, lane, SettledTabs', tabs')
      BY <3>5, <3>8
    <3>10. SettledTabs' \subseteq SettledTabs /\ \A u \in SettledTabs' : tabs'[u].group = tabs[u].group
      BY <2>10
    <3>11. QED BY <1>1, <2>1, <3>2, <3>3, <3>9, <3>10, TrackMoves DEF x
  <2>12. QED BY <2>9, <2>11 DEF LaneInv
<1>4. QED BY <1>1, <1>2, <1>3 DEF GroupsTab

LEMMA LaneRemoves ==
  ASSUME ChromeInv, NEW lane \in Workspace, LaneInv(lane), OneLane(lane), NEW r \in DOMAIN req, RemovesTabs(r)
  PROVE  LaneInv(lane)'
<1> DEFINE x == req[r]
           gone == {t \in x.chosen : tabs[t].at = "open"}
           z == x.read[lane]
           y == [z EXCEPT !.owned = z.owned \ x.chosen]
           m == [x.read EXCEPT ![lane] = y]
           q == [x EXCEPT !.at = "save", !.read = m]
<1>1. /\ x \in Requests /\ x.ws = lane /\ Runs(r, lane) /\ x.at = "act" /\ x.kind \in {"close", "closeTab"} /\ LaneOK(lane)
      /\ x.read \in Maps /\ z \in Record /\ UNCHANGED <<stored, renamed>>
  BY InLane DEF RemovesTabs, MapPlaces
<1>2. CASE Throws(r) /\ UNCHANGED <<tabs, listener>>
  BY <1>1, <1>2, LaneOver DEF MapPlaces
<1>3. CASE GoAway(gone) /\ UNCHANGED queue /\ req' = [req EXCEPT ![r].at = "save", ![r].read[req[r].ws].owned = @ \ req[r].chosen]
  <2>1. req' = [req EXCEPT ![r] = q]
    BY <1>1, <1>3
  <2>2. m[lane] = y /\ y.group = z.group /\ y.owned = z.owned \ x.chosen
    BY <1>1 DEF Maps, Record
  <2>3. \A t \in gone : tabs[t].at = "open"
    OBVIOUS
  <2>4. \A t : t \in x.chosen /\ t \notin gone => tabs[t].at # "open"
    OBVIOUS
  <2>5. DOMAIN req' = DOMAIN req /\ req'[r] = q /\ \A c \in DOMAIN req \ {r} : req'[c] = req[c]
    BY <2>1 DEF ChromeInv
  <2> HIDE DEF x, z, y, m, gone
  <2>6. \A t \in Tab : IF t \in gone THEN tabs'[t].at = "gone" /\ tabs'[t].group = NoTab /\ tabs'[t].for = tabs[t].for /\ listener'[t].at = "heard"
                       ELSE tabs'[t] = tabs[t] /\ listener'[t] = listener[t]
    <3> SUFFICES ASSUME NEW t \in Tab
                 PROVE  IF t \in gone THEN tabs'[t].at = "gone" /\ tabs'[t].group = NoTab /\ tabs'[t].for = tabs[t].for /\ listener'[t].at = "heard"
                        ELSE tabs'[t] = tabs[t] /\ listener'[t] = listener[t]
      OBVIOUS
    <3>1. PICK p, l : p = tabs[t] /\ l = listener[t]
      OBVIOUS
    <3>2. p \in Tabs /\ l \in Listeners
      BY <3>1 DEF ChromeInv
    <3>3. /\ tabs'[t] = IF t \in gone THEN [p EXCEPT !.at = "gone", !.group = NoTab] ELSE p
          /\ listener'[t] = IF t \in gone THEN [l EXCEPT !.at = "heard"] ELSE l
      BY <1>3, <3>1 DEF GoAway
    <3>4. [p EXCEPT !.at = "gone", !.group = NoTab].at = "gone" /\ [p EXCEPT !.at = "gone", !.group = NoTab].group = NoTab
          /\ [p EXCEPT !.at = "gone", !.group = NoTab].for = p.for /\ [l EXCEPT !.at = "heard"].at = "heard"
      BY <3>2 DEF Tabs, Listeners
    <3>5. QED BY <3>1, <3>3, <3>4
  <2>7. q.kind = x.kind /\ q.tab = x.tab /\ q.at = "save" /\ q.read = m
    BY <1>1 DEF Requests
  <2> HIDE DEF q
  <2>8. LaneOK(lane)'
    <3>1. QueueGoes(lane, r, q)
      BY <1>1, <1>3 DEF QueueGoes
    <3>2. TabsGo(lane)
      <4> SUFFICES ASSUME NEW t \in Tab
                   PROVE  /\ tabs[t].at # "unborn" => tabs'[t].at # "unborn"
                          /\ tabs'[t].at # "unborn" => tabs'[t].for = lane
                          /\ tabs[t].at = "gone" => tabs'[t].at = "gone"
                          /\ listener'[t] = listener[t] \/ (listener'[t].at = "heard" /\ tabs'[t].at = "gone")
        BY DEF TabsGo
      <4>1. tabs[t].at # "unborn" => tabs[t].for = lane
        BY <1>1 DEF LaneOK
      <4>2. t \in gone => tabs[t].at = "open"
        BY <2>3
      <4>3. QED BY <2>6, <4>1, <4>2
    <3>3. TabGoes(r, q)
      BY <1>1, <2>7 DEF TabGoes
    <3>4. QED BY <1>1, <2>1, <2>7, <3>1, <3>2, <3>3, LaneMoves DEF x
  <2>9. \A u \in SettledTabs' : u \in SettledTabs /\ tabs'[u] = tabs[u] /\ u \notin x.chosen
    <3> SUFFICES ASSUME NEW u \in SettledTabs' PROVE u \in SettledTabs /\ tabs'[u] = tabs[u] /\ u \notin x.chosen
      OBVIOUS
    <3>1. PICK c \in DOMAIN req : u \in Tab /\ Settles(req'[c], u, tabs'[u])
      BY <2>5 DEF SettledTabs
    <3>2. c # r /\ req'[c] = req[c]
      BY <2>5, <2>7, <3>1 DEF Settles
    <3>3. u \notin gone /\ tabs'[u] = tabs[u] /\ tabs[u].at = "open"
      BY <2>6, <3>1 DEF Settles
    <3>4. QED BY <2>4, <3>1, <3>2, <3>3 DEF SettledTabs
  <2>10. ASSUME Quiet' PROVE TrackOK(lane)'
    <3>1. Quiet
      BY <1>1, <2>1, <2>7, <2>10, QuietBefore DEF x
    <3>2. TrackOK(lane)
      BY <3>1 DEF LaneInv
    <3>3. Keeps(z, SettledTabs, tabs) /\ x.at \in MapPlaces
      BY <1>1, <3>2 DEF TrackOK, RequestKeeps, MapPlaces, x, z
    <3>4. PICK S, S2, all, all2 : S = SettledTabs /\ S2 = SettledTabs' /\ all = tabs /\ all2 = tabs'
      OBVIOUS
    <3>5. Keeps(m[lane], S2, all2)
      BY <2>2, <2>9, <3>3, <3>4 DEF Keeps
    <3>6. RequestKeeps(q, lane, S2, all2)
      BY <1>1, <2>7, <3>5 DEF RequestKeeps
    <3>7. RequestKeeps(q, lane, SettledTabs', tabs')
      BY <3>4, <3>6
    <3>8. SettledTabs' \subseteq SettledTabs /\ \A u \in SettledTabs' : tabs'[u].group = tabs[u].group
      BY <2>9
    <3>9. \A t \in Tab : listener'[t] = listener[t] \/ listener'[t].at = "heard"
      BY <2>6
    <3>10. QED BY <1>1, <2>1, <3>2, <3>3, <3>7, <3>8, <3>9, TrackMoves DEF x
  <2>11. QED BY <2>8, <2>10 DEF LaneInv
<1>4. QED BY <1>1, <1>2, <1>3 DEF RemovesTabs

\* What is saved keeps all that was settled, and the tab that is settled now.
LEMMA LaneSaves ==
  ASSUME ChromeInv, NEW lane \in Workspace, LaneInv(lane), OneLane(lane), NEW r \in DOMAIN req, SavesMap(r)
  PROVE  LaneInv(lane)'
<1> DEFINE x == req[r]
<1>1. /\ x \in Requests /\ x.ws = lane /\ Runs(r, lane) /\ x.at \in {"save", "prune"} /\ x.at \in MapPlaces /\ LaneOK(lane)
      /\ Mutates(r) /\ stored' = x.read /\ UNCHANGED <<tabs, renamed, listener>>
  BY InLane DEF SavesMap, MapPlaces
<1>2. PICK at : at = IF x.at = "prune" THEN "error" ELSE IF x.kind = "ensure" THEN "finish" ELSE "done"
  OBVIOUS
<1> DEFINE q == [x EXCEPT !.at = at, !.read = NoMap, !.group = NoTab, !.chosen = {}]
<1>3. req' = [req EXCEPT ![r] = q] /\ queue' = [queue EXCEPT ![lane] = Tail(@)]
  BY <1>1, <1>2 DEF SavesMap, To, LeavesQueue, Leaves
<1>4. DOMAIN req' = DOMAIN req /\ req'[r] = q /\ \A z \in DOMAIN req \ {r} : req'[z] = req[z]
  BY <1>3 DEF ChromeInv
<1>5. r \in Request /\ \A t \in Tab : r # t
  BY <1>1, ChromeAssumption DEF LaneOK
<1> HIDE DEF x
<1>6. q.kind = x.kind /\ q.tab = x.tab /\ q.at = at
  BY <1>1 DEF Requests
<1> HIDE DEF q
<1>7. at \in {"error", "finish", "done"} /\ (at = "finish" => x.kind = "ensure" /\ x.at = "save") /\ (at = "done" => x.kind # "ensure")
  BY <1>1, <1>2
<1>8. LaneOK(lane)'
  <2>1. QueueGoes(lane, r, q)
    BY <1>1, <1>3, <1>6, <1>7 DEF QueueGoes, MapPlaces, x
  <2>2. TabsGo(lane)
    BY <1>1 DEF TabsGo, LaneOK
  <2>3. TabGoes(r, q)
    BY <1>1, <1>6, <1>7 DEF TabGoes, LaneOK, x
  <2>4. QED BY <1>1, <1>3, <1>6, <1>7, <2>1, <2>2, <2>3, LaneMoves DEF x
\* Nobody else carries a map.
<1>9. /\ \A z \in DOMAIN req \ {r} : req[z].at \notin MapPlaces
      /\ \A t \in Tab : listener[t].at # "save"
  BY <1>1, <1>5 DEF LaneOK, Runs
<1>10. ASSUME Quiet' PROVE TrackOK(lane)'
  <2>1. Quiet
    BY <1>1, <1>3, <1>6, <1>7, <1>10, QuietBefore DEF x
  <2>2. TrackOK(lane)
    BY <2>1 DEF LaneInv
  <2>3. RequestKeeps(x, lane, SettledTabs, tabs)
    BY <2>2 DEF TrackOK, x
  <2>4. ASSUME NEW u \in SettledTabs' PROVE u \in x.read[lane].owned /\ tabs[u].group = x.read[lane].group
    <3>1. PICK z \in DOMAIN req : u \in Tab /\ Settles(req'[z], u, tabs[u])
      BY <1>1, <1>4, <2>4 DEF SettledTabs
    <3>2. CASE z = r
      <4>1. x.kind = "ensure" /\ x.at = "save" /\ x.tab = u /\ tabs[u].at = "open" /\ tabs[u].group # NoTab
        BY <1>4, <1>6, <1>7, <3>1, <3>2 DEF Settles
      <4>2. QED BY <2>3, <4>1 DEF RequestKeeps
    <3>3. CASE z # r
      <4>1. u \in SettledTabs
        BY <1>4, <3>1, <3>3 DEF SettledTabs
      <4>2. QED BY <1>1, <2>3, <4>1 DEF RequestKeeps, Keeps
    <3>4. QED BY <3>2, <3>3
  <2>5. PICK S2, all2 : S2 = SettledTabs' /\ all2 = tabs'
    OBVIOUS
  <2>6. Keeps(stored'[lane], S2, all2)
    BY <1>1, <2>4, <2>5 DEF Keeps
  <2>7. \A z \in DOMAIN req' : RequestKeeps(req'[z], lane, S2, all2)
    <3>1. \A z \in DOMAIN req : req'[z].at \notin MapPlaces
      BY <1>4, <1>6, <1>7, <1>9 DEF MapPlaces
    <3>2. QED BY <1>4, <3>1 DEF RequestKeeps, MapPlaces
  <2>8. \A t \in Tab : listener'[t].at # "save"
    BY <1>1, <1>9
  <2>9. QED BY <2>5, <2>6, <2>7, <2>8 DEF TrackOK
<1>11. QED BY <1>8, <1>10 DEF LaneInv

\* No step changes what a request asks for.
LEMMA AsksStay ==
  ASSUME ChromeInv, NEW r \in DOMAIN req, WorkerStep(r) \/ ClientStep(r)
  PROVE  DOMAIN req' = DOMAIN req /\ \A x \in DOMAIN req : req'[x].kind = req[x].kind /\ req'[x].ws = req[x].ws
<1> DEFINE Same == DOMAIN req' = DOMAIN req /\ \A x \in DOMAIN req : req'[x].kind = req[x].kind /\ req'[x].ws = req[x].ws
<1>1. ASSUME NEW q, req' = [req EXCEPT ![r] = q], q.kind = req[r].kind, q.ws = req[r].ws PROVE Same
  BY <1>1 DEF ChromeInv
<1>2. PICK x : x = req[r]
  OBVIOUS
<1>3. x \in Requests
  BY <1>2 DEF ChromeInv
<1> SUFFICES Same
  BY DEF Same
<1> HIDE DEF Same
<1>4. ASSUME NEW at, req' = To(r, at) PROVE Same
  <2>1. PICK q : q = [x EXCEPT !.at = at, !.read = NoMap, !.group = NoTab, !.chosen = {}]
    OBVIOUS
  <2>2. req' = [req EXCEPT ![r] = q]
    BY <1>2, <1>4, <2>1 DEF To
  <2>3. q.kind = x.kind /\ q.ws = x.ws
    BY <1>3, <2>1 DEF Requests
  <2>4. QED BY <1>1, <1>2, <2>2, <2>3
<1>5. CASE ReadsMap(r)
  <2>1. PICK q : q = [x EXCEPT !.at = "read", !.read = stored]
    OBVIOUS
  <2>2. req' = [req EXCEPT ![r] = q]
    BY <1>2, <1>5, <2>1 DEF ReadsMap
  <2>3. q.kind = x.kind /\ q.ws = x.ws
    BY <1>3, <2>1 DEF Requests
  <2>4. QED BY <1>1, <1>2, <2>2, <2>3
<1>6. CASE FindsGroup(r)
  <2>1. PICK q : q = [x EXCEPT !.at = "create", !.group = ExistingGroup(x.read[x.ws]), !.read = [x.read EXCEPT ![x.ws] = Refreshed(x.read[x.ws])]]
    OBVIOUS
  <2>2. req' = [req EXCEPT ![r] = q]
    BY <1>2, <1>6, <2>1 DEF FindsGroup, Mine
  <2>3. q.kind = x.kind /\ q.ws = x.ws
    BY <1>3, <2>1 DEF Requests
  <2>4. QED BY <1>1, <1>2, <2>2, <2>3
<1>7. CASE Lists(r)
  <2>1. PICK q : q = [x EXCEPT !.at = "save", !.read = [x.read EXCEPT ![x.ws] = [Refreshed(x.read[x.ws]) EXCEPT !.owned = @ \cap InGroup(Refreshed(x.read[x.ws]).group)]]]
    OBVIOUS
  <2>2. req' = [req EXCEPT ![r] = q]
    BY <1>2, <1>7, <2>1 DEF Lists, Mine
  <2>3. q.kind = x.kind /\ q.ws = x.ws
    BY <1>3, <2>1 DEF Requests
  <2>4. QED BY <1>1, <1>2, <2>2, <2>3
<1>8. CASE CollectsTabs(r)
  <2>1. PICK q : q = [x EXCEPT !.at = "act", !.chosen = x.read[x.ws].owned \cap InGroup(x.read[x.ws].group), !.read = [x.read EXCEPT ![x.ws] = NoRecord]]
    OBVIOUS
  <2>2. req' = [req EXCEPT ![r] = q]
    BY <1>2, <1>8, <2>1 DEF CollectsTabs, Mine
  <2>3. q.kind = x.kind /\ q.ws = x.ws
    BY <1>3, <2>1 DEF Requests
  <2>4. QED BY <1>1, <1>2, <2>2, <2>3
<1>9. CASE CreatesTab(r)
  <2>1. PICK t : req' = [req EXCEPT ![r].at = "group", ![r].tab = t]
    BY <1>9 DEF CreatesTab
  <2>2. PICK q : q = [x EXCEPT !.at = "group", !.tab = t]
    OBVIOUS
  <2>3. req' = [req EXCEPT ![r] = q]
    BY <1>2, <2>1, <2>2
  <2>4. q.kind = x.kind /\ q.ws = x.ws
    BY <1>3, <2>2 DEF Requests
  <2>5. QED BY <1>1, <1>2, <2>3, <2>4
<1>10. CASE GroupsTab(r)
  <2> DEFINE R0 == [req EXCEPT ![r].at = "save", ![r].read[req[r].ws] = [group |-> IF req[r].group = NoTab THEN req[r].tab ELSE req[r].group, owned |-> @.owned \cup {req[r].tab}]]
  <2>1. req' = R0 \/ (\E at : req' = To(r, at))
    BY <1>10 DEF GroupsTab, Throws
  <2>2. CASE req' = R0
    <3>1. PICK q : q = [x EXCEPT !.at = "save", !.read = [x.read EXCEPT ![x.ws] = [group |-> IF x.group = NoTab THEN x.tab ELSE x.group, owned |-> @.owned \cup {x.tab}]]]
      OBVIOUS
    <3>2. req' = [req EXCEPT ![r] = q]
      BY <1>2, <2>2, <3>1
    <3>3. q.kind = x.kind /\ q.ws = x.ws
      BY <1>3, <3>1 DEF Requests
    <3>4. QED BY <1>1, <1>2, <3>2, <3>3
  <2>3. ASSUME NEW at, req' = To(r, at) PROVE Same
    BY <1>4, <2>3
  <2> HIDE DEF R0
  <2>4. QED BY <2>1, <2>2, <2>3
<1>11. CASE RemovesTabs(r)
  <2> DEFINE R0 == [req EXCEPT ![r].at = "save", ![r].read[req[r].ws].owned = @ \ req[r].chosen]
  <2>1. req' = R0 \/ (\E at : req' = To(r, at))
    BY <1>11 DEF RemovesTabs, Throws
  <2>2. CASE req' = R0
    <3>1. PICK q : q = [x EXCEPT !.at = "save", !.read = [x.read EXCEPT ![x.ws].owned = @ \ x.chosen]]
      OBVIOUS
    <3>2. req' = [req EXCEPT ![r] = q]
      BY <1>2, <2>2, <3>1
    <3>3. q.kind = x.kind /\ q.ws = x.ws
      BY <1>3, <3>1 DEF Requests
    <3>4. QED BY <1>1, <1>2, <3>2, <3>3
  <2>3. ASSUME NEW at, req' = To(r, at) PROVE Same
    BY <1>4, <2>3
  <2> HIDE DEF R0
  <2>4. QED BY <2>1, <2>2, <2>3
<1>12. CASE ChecksTab(r)
  <2> DEFINE R0 == [req EXCEPT ![r].at = "prune", ![r].read[req[r].ws].owned = @ \ {req[r].tab}]
  <2> DEFINE R1 == [req EXCEPT ![r].at = "act", ![r].chosen = {req[r].tab}]
  <2>1. req' = R0 \/ req' = R1 \/ (\E at : req' = To(r, at))
    BY <1>12 DEF ChecksTab, Throws
  <2>2. CASE req' = R0
    <3>1. PICK q : q = [x EXCEPT !.at = "prune", !.read = [x.read EXCEPT ![x.ws].owned = @ \ {x.tab}]]
      OBVIOUS
    <3>2. req' = [req EXCEPT ![r] = q]
      BY <1>2, <2>2, <3>1
    <3>3. q.kind = x.kind /\ q.ws = x.ws
      BY <1>3, <3>1 DEF Requests
    <3>4. QED BY <1>1, <1>2, <3>2, <3>3
  <2>3. CASE req' = R1
    <3>1. PICK q : q = [x EXCEPT !.at = "act", !.chosen = {x.tab}]
      OBVIOUS
    <3>2. req' = [req EXCEPT ![r] = q]
      BY <1>2, <2>3, <3>1
    <3>3. q.kind = x.kind /\ q.ws = x.ws
      BY <1>3, <3>1 DEF Requests
    <3>4. QED BY <1>1, <1>2, <3>2, <3>3
  <2>4. ASSUME NEW at, req' = To(r, at) PROVE Same
    BY <1>4, <2>4
  <2> HIDE DEF R0, R1
  <2>5. QED BY <2>1, <2>2, <2>3, <2>4
<1>13. CASE Commands(r) \/ SavesMap(r) \/ FinishesTab(r)
  BY <1>4, <1>13 DEF Commands, SavesMap, FinishesTab
<1>14. ASSUME NEW how, ClientFails(r, how) PROVE Same
  <2>1. PICK there \in BOOLEAN :
          req' = [req EXCEPT ![r].client = how, ![r].managed = IF FallsBack(r) /\ there THEN @ + 1 ELSE @]
    BY <1>14 DEF ClientFails
  <2>2. PICK q : q = [x EXCEPT !.client = how, !.managed = IF FallsBack(r) /\ there THEN @ + 1 ELSE @]
    OBVIOUS
  <2>3. req' = [req EXCEPT ![r] = q]
    BY <1>2, <2>1, <2>2
  <2>4. q.kind = x.kind /\ q.ws = x.ws
    BY <1>3, <2>2 DEF Requests
  <2>5. QED BY <1>1, <1>2, <2>3, <2>4
<1>15. CASE Connects(r)
  <2>1. PICK target : req' = [req EXCEPT ![r].client = "sent", ![r].tab = target, ![r].at = IF Mutates(r) THEN "queued" ELSE "start"]
    BY <1>15 DEF Connects
  <2>2. PICK q : q = [x EXCEPT !.client = "sent", !.tab = target, !.at = IF Mutates(r) THEN "queued" ELSE "start"]
    OBVIOUS
  <2>3. req' = [req EXCEPT ![r] = q]
    BY <1>2, <2>1, <2>2
  <2>4. q.kind = x.kind /\ q.ws = x.ws
    BY <1>3, <2>2 DEF Requests
  <2>5. QED BY <1>1, <1>2, <2>3, <2>4
<1>16. CASE ConnectFails(r) \/ GivesUp(r) \/ Answered(r)
  <2>1. PICK q, p : q = [x EXCEPT !.tries = @ + 1] /\ p = [x EXCEPT !.client = "answered"]
    OBVIOUS
  <2>2. req' = [req EXCEPT ![r].tries = @ + 1] \/ req' = [req EXCEPT ![r].client = "answered"] \/ (\E how : ClientFails(r, how))
    BY <1>16 DEF ConnectFails, GivesUp, Answered
  <2>3. q.kind = x.kind /\ q.ws = x.ws /\ p.kind = x.kind /\ p.ws = x.ws
    BY <1>3, <2>1 DEF Requests
  <2>4. CASE req' = [req EXCEPT ![r].tries = @ + 1]
    <3>1. req' = [req EXCEPT ![r] = q]
      BY <1>2, <2>1, <2>4
    <3>2. QED BY <1>1, <1>2, <2>3, <3>1
  <2>5. CASE req' = [req EXCEPT ![r].client = "answered"]
    <3>1. req' = [req EXCEPT ![r] = p]
      BY <1>2, <2>1, <2>5
    <3>2. QED BY <1>1, <1>2, <2>3, <3>1
  <2>6. ASSUME NEW how, ClientFails(r, how) PROVE Same
    BY <1>14, <2>6
  <2>7. QED BY <2>2, <2>4, <2>5, <2>6
<1>17. QED BY <1>5, <1>6, <1>7, <1>8, <1>9, <1>10, <1>11, <1>12, <1>13, <1>15, <1>16 DEF WorkerStep, ClientStep

\* A step of a listener, in its lane, before it or out of it.
ListenerGoes(lane, t, l) ==
  \/ queue' = queue /\ (l.at = "save" => Runs(t, lane))
  \/ queue' = [queue EXCEPT ![lane] = Append(@, t)] /\ l.at # "save"
  \/ queue' = [queue EXCEPT ![lane] = Tail(@)] /\ listener[t].at = "save" /\ l.at # "save"

LEMMA ListenerMoves ==
  ASSUME ChromeInv, NEW lane \in Workspace, LaneOK(lane), NEW t \in Tab, NEW l, listener' = [listener EXCEPT ![t] = l],
         UNCHANGED <<tabs, req>>, listener[t].at # "none", l.at \in {"queued", "save"} => l.ws = lane,
         ListenerGoes(lane, t, l)
  PROVE  LaneOK(lane)'
<1>1. listener'[t] = l /\ \A u \in Tab \ {t} : listener'[u] = listener[u]
  BY DEF ChromeInv
<1>2. /\ queue \in [Workspace -> Seq(Request \cup Tab)]
      /\ \A x \in DOMAIN req : x \in Request
      /\ \A x \in DOMAIN req : req[x].at \in MapPlaces => Runs(x, lane)
      /\ \A u \in Tab : listener[u].at = "save" => Runs(u, lane)
  BY DEF LaneOK
<1>3. \A x \in Request : \A u \in Tab : x # u
  BY ChromeAssumption
<1>4. /\ queue' \in [Workspace -> Seq(Request \cup Tab)]
      /\ \A x \in DOMAIN req : req[x].at \in MapPlaces => Runs(x, lane)'
      /\ \A u \in Tab : listener'[u].at = "save" => Runs(u, lane)'
  <2>1. CASE queue' = queue /\ (l.at = "save" => Runs(t, lane))
    <3>1. \A x : Runs(x, lane)' <=> Runs(x, lane)
      BY <2>1 DEF Runs
    <3>2. QED BY <1>1, <1>2, <2>1, <3>1
  <2>2. CASE queue' = [queue EXCEPT ![lane] = Append(@, t)] /\ l.at # "save"
    <3>1. PICK s, S : s = queue[lane] /\ S = Request \cup Tab
      OBVIOUS
    <3>2. s \in Seq(S) /\ t \in S
      BY <1>2, <3>1
    <3>3. PICK u : u = Append(s, t)
      OBVIOUS
    <3>4. u \in Seq(S) /\ u # <<>> /\ (s # <<>> => Head(u) = Head(s))
      BY <3>2, <3>3, LaneGrows
    <3>5. queue' = [queue EXCEPT ![lane] = u]
      BY <2>2, <3>1, <3>3
    <3>6. queue' \in [Workspace -> Seq(Request \cup Tab)] /\ queue'[lane] = u
      BY <1>2, <3>1, <3>4, <3>5
    <3>7. \A x : Runs(x, lane) => Runs(x, lane)'
      BY <3>1, <3>4, <3>6 DEF Runs
    <3>8. QED BY <1>1, <1>2, <2>2, <3>6, <3>7
  <2>3. CASE queue' = [queue EXCEPT ![lane] = Tail(@)] /\ listener[t].at = "save" /\ l.at # "save"
    <3>1. queue[lane] # <<>> /\ Head(queue[lane]) = t
      BY <1>2, <2>3 DEF Runs
    <3>2. \A x \in DOMAIN req : req[x].at \notin MapPlaces
      BY <1>2, <1>3, <3>1 DEF Runs
    <3>3. \A u \in Tab \ {t} : listener[u].at # "save"
      BY <1>2, <3>1 DEF Runs
    <3>4. queue' \in [Workspace -> Seq(Request \cup Tab)]
      <4>1. PICK s : s = queue[lane]
        OBVIOUS
      <4>2. s \in Seq(Request \cup Tab) /\ s # <<>>
        BY <1>2, <3>1, <4>1
      <4>3. Tail(s) \in Seq(Request \cup Tab)
        BY <4>2
      <4>4. QED BY <1>2, <2>3, <4>1, <4>3
    <3>5. QED BY <1>1, <2>3, <3>2, <3>3, <3>4
  <2>4. QED BY <2>1, <2>2, <2>3 DEF ListenerGoes
<1>5. \A u \in Tab :
        /\ tabs'[u].at # "unborn" => tabs'[u].for = lane
        /\ listener'[u].at # "none" => tabs'[u].at = "gone"
        /\ listener'[u].at \in {"queued", "save"} => listener'[u].ws = lane
        /\ listener'[u].at = "save" => Runs(u, lane)'
  BY <1>1, <1>4 DEF LaneOK
<1>6. \A x \in DOMAIN req' :
        /\ x \in Request /\ req'[x].at # "start"
        /\ req'[x].at \in MapPlaces => Runs(x, lane)'
        /\ req'[x].at \in {"create", "group"} => req'[x].kind = "ensure"
        /\ req'[x].kind = "ensure" /\ req'[x].at \in {"group", "save", "finish", "done"} => req'[x].tab \in Tab
        /\ req'[x].kind = "ensure" /\ req'[x].tab # NoTab => tabs'[req'[x].tab].at # "unborn"
  BY <1>4 DEF LaneOK
<1>7. \A x, z \in DOMAIN req' :
        req'[x].kind = "ensure" /\ req'[z].kind = "ensure" /\ req'[x].tab = req'[z].tab => x = z \/ req'[x].tab = NoTab
  BY DEF LaneOK
<1>8. QED BY <1>4, <1>5, <1>6, <1>7 DEF LaneOK

LEMMA TrackStays ==
  ASSUME ChromeInv, NEW lane \in Workspace, LaneOK(lane), TrackOK(lane), UNCHANGED <<req, stored>>, \A t \in Tab : TabsSettle(t),
         \A t \in Tab : listener'[t].at = "save" => listener'[t] = listener[t] \/ listener'[t].read = stored
  PROVE  TrackOK(lane)'
<1>1. PICK S, all, S2, all2 : S = SettledTabs /\ all = tabs /\ S2 = SettledTabs' /\ all2 = tabs'
  OBVIOUS
<1>2. \A t \in Tab : all2[t].at = "open" /\ all2[t].group # NoTab => all2[t] = all[t]
  BY <1>1 DEF TabsSettle
<1>3. S2 \subseteq S /\ \A t \in S2 : all2[t].group = all[t].group
  BY <1>1, <1>2 DEF SettledTabs, Settles
<1>4. \A y : Keeps(y, S, all) => Keeps(y, S2, all2)
  BY <1>3 DEF Keeps
<1>5. Keeps(stored[lane], S, all)
  BY <1>1 DEF TrackOK
<1>6. ASSUME NEW x \in DOMAIN req PROVE RequestKeeps(req[x], lane, S2, all2)
  <2>1. RequestKeeps(req[x], lane, S, all)
    BY <1>1 DEF TrackOK
  <2>2. req[x].kind = "ensure" /\ req[x].at = "save" => req[x].tab \in Tab
    BY DEF LaneOK
  <2>3. QED BY <1>2, <1>3, <1>4, <2>1, <2>2 DEF RequestKeeps
<1>7. ASSUME NEW t \in Tab, listener'[t].at = "save" PROVE Keeps(listener'[t].read[lane], S2, all2)
  <2>1. listener'[t] = listener[t] => Keeps(listener'[t].read[lane], S, all)
    BY <1>1, <1>7 DEF TrackOK
  <2>2. listener'[t].read = stored => Keeps(listener'[t].read[lane], S, all)
    BY <1>5
  <2>3. QED BY <1>4, <1>7, <2>1, <2>2
<1>8. Keeps(stored'[lane], S2, all2)
  BY <1>4, <1>5
<1>9. QED BY <1>1, <1>6, <1>7, <1>8 DEF TrackOK

LEMMA LaneListens ==
  ASSUME ChromeInv, NEW lane \in Workspace, LaneInv(lane), NEW t \in Tab, ListenerStep(t)
  PROVE  LaneInv(lane)'
<1>1. UNCHANGED <<tabs, renamed, req>> /\ listener[t].at # "none"
  BY DEF ListenerStep, ListenerReads, ListenerRuns, ListenerSaves
<1>2. (OneLane(lane)' <=> OneLane(lane)) /\ (Quiet' <=> Quiet)
  BY <1>1 DEF OneLane, Mutates, Quiet
<1> SUFFICES ASSUME OneLane(lane) PROVE LaneInv(lane)'
  BY <1>2 DEF LaneInv
<1>3. LaneOK(lane) /\ (Quiet => TrackOK(lane))
  BY DEF LaneInv
<1>4. listener \in [Tab -> Listeners] /\ stored \in Maps /\ MapOK(stored, Made) /\ ListenerOK(listener[t], Made)
  BY DEF ChromeInv, MapOK
<1>5. PICK l : l = listener[t]
  OBVIOUS
<1>6. l \in Listeners
  BY <1>4, <1>5
<1>7. \A u \in Tab : TabsSettle(u)
  BY <1>1 DEF TabsSettle
<1>8. CASE ListenerReads(t)
  <2>1. PICK p : /\ listener' = [listener EXCEPT ![t] = p] /\ p.at \in {"done", "queued"}
                 /\ p.at = "done" => queue' = queue
                 /\ p.at = "queued" => p.ws = lane /\ queue' = [queue EXCEPT ![lane] = Append(@, t)]
    <3>1. CASE listener' = [listener EXCEPT ![t].at = "done"] /\ queue' = queue
      <4>1. PICK p : p = [l EXCEPT !.at = "done"]
        OBVIOUS
      <4>2. p.at = "done" /\ listener' = [listener EXCEPT ![t] = p]
        BY <1>5, <1>6, <3>1, <4>1 DEF Listeners
      <4>3. QED BY <3>1, <4>2
    <3>2. ASSUME NEW w \in Workspace, t \in stored[w].owned, listener' = [listener EXCEPT ![t].at = "queued", ![t].ws = w],
                 queue' = [queue EXCEPT ![w] = Append(@, t)]
          PROVE  \E p : /\ listener' = [listener EXCEPT ![t] = p] /\ p.at \in {"done", "queued"}
                        /\ p.at = "done" => queue' = queue
                        /\ p.at = "queued" => p.ws = lane /\ queue' = [queue EXCEPT ![lane] = Append(@, t)]
      <4>1. PICK p : p = [l EXCEPT !.at = "queued", !.ws = w]
        OBVIOUS
      <4>2. p.at = "queued" /\ p.ws = w /\ listener' = [listener EXCEPT ![t] = p]
        BY <1>5, <1>6, <3>2, <4>1 DEF Listeners
      <4>3. w = lane
        <5>1. <<t, w>> \in Made
          BY <1>4, <3>2 DEF MapOK
        <5>2. tabs[t].at # "unborn" /\ tabs[t].for = w
          BY <5>1 DEF Made
        <5>3. QED BY <1>3, <5>2 DEF LaneOK
      <4>4. QED BY <3>2, <4>2, <4>3
    <3>3. QED BY <1>8, <3>1, <3>2 DEF ListenerReads
  <2>2. ListenerGoes(lane, t, p)
    BY <2>1 DEF ListenerGoes
  <2>3. LaneOK(lane)'
    BY <1>1, <1>3, <2>1, <2>2, ListenerMoves
  <2>4. \A u \in Tab : listener'[u].at = "save" => listener'[u] = listener[u]
    BY <1>4, <2>1
  <2>5. stored' = stored
    BY <1>8 DEF ListenerReads
  <2>6. Quiet => TrackOK(lane)'
    BY <1>1, <1>3, <1>7, <2>4, <2>5, TrackStays
  <2>7. QED BY <1>2, <2>3, <2>6 DEF LaneInv
<1>9. CASE ListenerRuns(t)
  <2>1. PICK p : p = [l EXCEPT !.at = "save", !.read = stored]
    OBVIOUS
  <2>2. p.at = "save" /\ p.read = stored /\ p.ws = l.ws
    BY <1>6, <2>1 DEF Listeners
  <2>3. listener' = [listener EXCEPT ![t] = p] /\ queue' = queue /\ stored' = stored /\ l.at = "queued" /\ Runs(t, l.ws)
    BY <1>5, <1>9, <2>1 DEF ListenerRuns
  <2>4. l.ws = lane
    BY <1>3, <1>5, <2>3 DEF LaneOK
  <2>5. ListenerGoes(lane, t, p)
    BY <2>3, <2>4 DEF ListenerGoes
  <2>6. LaneOK(lane)'
    BY <1>1, <1>3, <2>2, <2>3, <2>4, <2>5, ListenerMoves
  <2>7. \A u \in Tab : listener'[u].at = "save" => listener'[u] = listener[u] \/ listener'[u].read = stored
    BY <1>4, <2>2, <2>3
  <2>8. Quiet => TrackOK(lane)'
    BY <1>1, <1>3, <1>7, <2>3, <2>7, TrackStays
  <2>9. QED BY <1>2, <2>6, <2>8 DEF LaneInv
<1>10. CASE ListenerSaves(t)
  <2>1. PICK p : p = [l EXCEPT !.at = "done", !.read = NoMap]
    OBVIOUS
  <2>2. p.at = "done"
    BY <1>6, <2>1 DEF Listeners
  <2>3. listener' = [listener EXCEPT ![t] = p] /\ l.at = "save"
    BY <1>5, <1>10, <2>1 DEF ListenerSaves
  <2>4. l.ws = lane /\ Runs(t, lane) /\ tabs[t].at = "gone"
    BY <1>3, <1>5, <2>3 DEF LaneOK
  <2>5. /\ queue' = [queue EXCEPT ![lane] = Tail(@)]
        /\ stored' = [l.read EXCEPT ![lane].owned = @ \ {t}]
    BY <1>5, <1>10, <2>4 DEF ListenerSaves, Leaves
  <2>6. ListenerGoes(lane, t, p)
    BY <1>5, <2>2, <2>3, <2>5 DEF ListenerGoes
  <2>7. LaneOK(lane)'
    BY <1>1, <1>3, <2>2, <2>3, <2>6, ListenerMoves
  <2>8. PICK z : z = l.read[lane]
    OBVIOUS
  <2>9. z \in Record /\ l.read \in Maps
    BY <1>4, <1>5, <2>8 DEF ListenerOK, MapOK, Maps
  <2>10. PICK y : y = [z EXCEPT !.owned = z.owned \ {t}]
    OBVIOUS
  <2>11. y.owned = z.owned \ {t} /\ y.group = z.group
    BY <2>9, <2>10 DEF Record
  <2>12. stored'[lane] = y
    BY <2>5, <2>8, <2>9, <2>10 DEF Maps
  \* Nobody else carries a map.
  <2>13. /\ \A x \in DOMAIN req : req[x].at \notin MapPlaces
         /\ \A u \in Tab \ {t} : listener[u].at # "save"
    BY <1>3, <2>4, ChromeAssumption DEF LaneOK, Runs
  <2>14. ASSUME Quiet PROVE TrackOK(lane)'
    <3>1. Keeps(z, SettledTabs, tabs)
      BY <1>3, <1>5, <2>3, <2>8, <2>14 DEF TrackOK
    <3>2. PICK S, all, S2, all2 : S = SettledTabs /\ all = tabs /\ S2 = SettledTabs' /\ all2 = tabs'
      OBVIOUS
    <3>3. S2 = S /\ all2 = all /\ t \notin S
      BY <1>1, <2>4, <3>2 DEF SettledTabs, Settles
    <3>4. Keeps(stored'[lane], S2, all2)
      BY <2>11, <2>12, <3>1, <3>2, <3>3 DEF Keeps
    <3>5. \A x \in DOMAIN req' : RequestKeeps(req'[x], lane, S2, all2)
      BY <1>1, <2>13 DEF RequestKeeps, MapPlaces
    <3>6. \A u \in Tab : listener'[u].at # "save"
      BY <1>4, <2>2, <2>3, <2>13
    <3>7. QED BY <3>2, <3>4, <3>5, <3>6 DEF TrackOK
  <2>15. QED BY <1>2, <2>7, <2>14 DEF LaneInv
<1>11. QED BY <1>8, <1>9, <1>10 DEF ListenerStep

LEMMA LaneUser ==
  ASSUME ChromeInv, NEW lane \in Workspace, LaneInv(lane), UserActs
  PROVE  LaneInv(lane)'
<1>1. UNCHANGED <<stored, queue, req>>
  BY DEF UserActs
<1>2. (OneLane(lane)' <=> OneLane(lane))
  BY <1>1 DEF OneLane, Mutates
<1> SUFFICES ASSUME OneLane(lane) PROVE LaneInv(lane)'
  BY <1>2 DEF LaneInv
<1>3. LaneOK(lane) /\ (Quiet => TrackOK(lane))
  BY DEF LaneInv
<1>4. PICK t \in Tab :
        /\ tabs[t].at = "open"
        /\ \/ GoAway({t}) /\ UNCHANGED renamed
           \/ tabs[t].group # NoTab /\ tabs' = [tabs EXCEPT ![t].group = NoTab] /\ UNCHANGED <<renamed, listener>>
           \/ GroupExists(t) /\ renamed' = renamed \cup {t} /\ UNCHANGED <<tabs, listener>>
  BY DEF UserActs
<1>5. PICK p, l : p = tabs[t] /\ l = listener[t]
  OBVIOUS
<1>6. p \in Tabs /\ l \in Listeners /\ tabs \in [Tab -> Tabs] /\ listener \in [Tab -> Listeners]
  BY <1>5 DEF ChromeInv
<1>7. \A u \in Tab : /\ tabs'[u].for = tabs[u].for /\ (tabs[u].at # "unborn" <=> tabs'[u].at # "unborn") /\ (tabs[u].at = "gone" => tabs'[u].at = "gone")
                     /\ listener'[u] = listener[u] \/ (listener'[u].at = "heard" /\ tabs'[u].at = "gone")
                     /\ TabsSettle(u)
  <2>1. CASE GoAway({t})
    <3>1. PICK p2, l2 : p2 = [p EXCEPT !.at = "gone", !.group = NoTab] /\ l2 = [l EXCEPT !.at = "heard"]
      OBVIOUS
    <3>2. p2.at = "gone" /\ p2.for = p.for /\ l2.at = "heard" /\ p.at = "open"
      BY <1>4, <1>5, <1>6, <3>1 DEF Tabs, Listeners
    <3>3. \A u \in Tab : tabs'[u] = (IF u = t THEN p2 ELSE tabs[u]) /\ listener'[u] = (IF u = t THEN l2 ELSE listener[u])
      BY <1>5, <2>1, <3>1 DEF GoAway
    <3>4. QED BY <1>5, <3>2, <3>3 DEF TabsSettle
  <2>2. CASE tabs' = [tabs EXCEPT ![t].group = NoTab] /\ UNCHANGED listener
    <3>1. PICK p2 : p2 = [p EXCEPT !.group = NoTab]
      OBVIOUS
    <3>2. p2.at = p.at /\ p2.for = p.for /\ p2.group = NoTab
      BY <1>6, <3>1 DEF Tabs
    <3>3. \A u \in Tab : tabs'[u] = (IF u = t THEN p2 ELSE tabs[u])
      BY <1>5, <1>6, <2>2, <3>1
    <3>4. QED BY <1>5, <2>2, <3>2, <3>3 DEF TabsSettle
  <2>3. CASE UNCHANGED <<tabs, listener>>
    BY <2>3 DEF TabsSettle
  <2>4. QED BY <1>4, <2>1, <2>2, <2>3
<1>8. LaneOK(lane)'
  <2>1. \A x \in Request \cup Tab : Runs(x, lane)' <=> Runs(x, lane)
    BY <1>1 DEF Runs
  <2>2. \A x \in DOMAIN req : req[x].tab \in Tab \cup {NoTab}
    BY DEF ChromeInv, Requests
  <2>3. \A u \in Tab :
          /\ tabs'[u].at # "unborn" => tabs'[u].for = lane
          /\ listener'[u].at # "none" => tabs'[u].at = "gone"
          /\ listener'[u].at \in {"queued", "save"} => listener'[u].ws = lane
          /\ listener'[u].at = "save" => Runs(u, lane)'
    BY <1>3, <1>7, <2>1 DEF LaneOK
  <2>4. \A x \in DOMAIN req' :
          /\ x \in Request /\ req'[x].at # "start"
          /\ req'[x].at \in MapPlaces => Runs(x, lane)'
          /\ req'[x].at \in {"create", "group"} => req'[x].kind = "ensure"
          /\ req'[x].kind = "ensure" /\ req'[x].at \in {"group", "save", "finish", "done"} => req'[x].tab \in Tab
          /\ req'[x].kind = "ensure" /\ req'[x].tab # NoTab => tabs'[req'[x].tab].at # "unborn"
    BY <1>1, <1>3, <1>7, <2>1, <2>2 DEF LaneOK
  <2>5. \A x, z \in DOMAIN req' :
          req'[x].kind = "ensure" /\ req'[z].kind = "ensure" /\ req'[x].tab = req'[z].tab => x = z \/ req'[x].tab = NoTab
    BY <1>1, <1>3 DEF LaneOK
  <2>6. queue' \in [Workspace -> Seq(Request \cup Tab)]
    BY <1>1, <1>3 DEF LaneOK
  <2>7. QED BY <2>3, <2>4, <2>5, <2>6 DEF LaneOK
<1>9. ASSUME Quiet' PROVE TrackOK(lane)'
  <2>1. Quiet
    BY <1>1, <1>4, <1>9 DEF Quiet
  <2>2. QED BY <1>1, <1>3, <1>7, <2>1, TrackStays
<1>10. QED BY <1>8, <1>9 DEF LaneInv

LEMMA LaneStart == ASSUME ChromeInit, NEW lane \in Workspace PROVE LaneInv(lane)
<1>1. PICK want \in Wants : req = [r \in DOMAIN want |-> NewRequest(want[r])]
  BY DEF ChromeInit
<1>2. DOMAIN req \subseteq Request
  BY <1>1, ChromeAssumption
<1>3. \A r \in DOMAIN req : req[r].at = "none" /\ req[r].tab = NoTab
  BY <1>1 DEF NewRequest
<1>4. /\ queue = [w \in Workspace |-> <<>>] /\ \A t \in Tab : tabs[t].at = "unborn" /\ listener[t].at = "none"
  BY DEF ChromeInit
<1>5. queue \in [Workspace -> Seq(Request \cup Tab)]
  BY <1>4
<1>6. LaneOK(lane)
  BY <1>2, <1>3, <1>4, <1>5 DEF LaneOK, MapPlaces
<1>7. SettledTabs = {}
  BY <1>4 DEF SettledTabs, Settles
<1>8. TrackOK(lane)
  BY <1>3, <1>4, <1>7 DEF TrackOK, RequestKeeps, Keeps, MapPlaces
<1>9. QED BY <1>6, <1>8 DEF LaneInv

LEMMA LaneStep == ASSUME ChromeInv, NEW lane \in Workspace, LaneInv(lane), [ChromeNext]_chromeVars PROVE LaneInv(lane)'
<1>1. CASE UNCHANGED chromeVars
  <2>1. UNCHANGED <<stored, tabs, renamed, queue, req, listener>>
    BY <1>1 DEF chromeVars
  <2>2. (OneLane(lane)' <=> OneLane(lane)) /\ (Quiet' <=> Quiet) /\ (LaneOK(lane)' <=> LaneOK(lane)) /\ (TrackOK(lane)' <=> TrackOK(lane))
    BY <2>1 DEF OneLane, Mutates, Quiet, LaneOK, TrackOK, Runs, SettledTabs
  <2>3. QED BY <2>2 DEF LaneInv
<1>2. CASE UserActs
  BY <1>2, LaneUser
<1>3. ASSUME NEW t \in Tab, ListenerStep(t) PROVE LaneInv(lane)'
  BY <1>3, LaneListens
<1>4. ASSUME NEW r \in DOMAIN req, WorkerStep(r) \/ ClientStep(r) PROVE LaneInv(lane)'
  <2>1. PICK x : x = req[r]
    OBVIOUS
  \* What a request asks for stays.
  <2>2. OneLane(lane)' => OneLane(lane)
    BY <1>4, AsksStay DEF OneLane, Mutates
  <2> SUFFICES ASSUME OneLane(lane) PROVE LaneInv(lane)'
    BY <2>2 DEF LaneInv
  <2>3. req[r].kind \in {"ensure", "close", "closeTab"} /\ req[r].at # "start"
    BY InLane
  <2>4. CASE ReadsMap(r)
    BY <2>4, LaneReads
  <2>5. CASE FindsGroup(r)
    BY <2>5, LaneFinds
  <2>6. CASE CreatesTab(r)
    BY <2>6, LaneCreates
  <2>7. CASE GroupsTab(r)
    BY <2>7, LaneGroups
  <2>8. CASE Lists(r) \/ Commands(r)
    BY <2>3, <2>8 DEF Lists, Commands
  <2>9. CASE ChecksTab(r)
    BY <2>9, LaneChecks
  <2>10. CASE CollectsTabs(r)
    BY <2>10, LaneCollects
  <2>11. CASE RemovesTabs(r)
    BY <2>11, LaneRemoves
  <2>12. CASE SavesMap(r)
    BY <2>12, LaneSaves
  <2>13. CASE FinishesTab(r)
    <3>1. /\ UNCHANGED <<tabs, stored, renamed, listener>> /\ req[r].at = "finish" /\ queue' = queue
          /\ \E at \in {"done", "error"} : req' = To(r, at)
      BY <2>13 DEF FinishesTab
    <3>2. QED BY <3>1, LaneOver
  <2>14. CASE ClientStep(r)
    BY <2>14, LaneClient
  <2>15. QED BY <1>4, <2>4, <2>5, <2>6, <2>7, <2>8, <2>9, <2>10, <2>11, <2>12, <2>13, <2>14 DEF WorkerStep
<1>5. QED BY <1>1, <1>2, <1>3, <1>4 DEF ChromeNext

LEMMA LaneInvariant == ChromeSpec => [](\A lane \in Workspace : LaneInv(lane))
<1> DEFINE All == \A lane \in Workspace : LaneInv(lane)
<1>1. ChromeInit => All
  BY LaneStart
<1>2. ChromeInv /\ All /\ [ChromeNext]_chromeVars => All'
  BY LaneStep
<1> HIDE DEF All
<1>3. ChromeSpec => []All
  BY ChromeInvariant, <1>1, <1>2, PTL DEF ChromeSpec
<1>4. QED BY <1>3 DEF All

\* WorkspacesSound: no workspace records, closes or commands a tab that was not
\* made for it; and while one workspace is at work, all through its lane, a tab
\* that was reported and left in its group stays in its record, however saves of
\* the whole map, listeners and the user come between (inWorkspaceLane, ensureTab, onRemoved).
THEOREM WorkspacesAreSound == ChromeSpec => []WorkspacesSound
<1>1. ChromeInv /\ (\A lane \in Workspace : LaneInv(lane)) => TrackedInLane
  <2> SUFFICES ASSUME ChromeInv, \A lane \in Workspace : LaneInv(lane),
                      \A r, q \in DOMAIN req : req[r].ws = req[q].ws /\ Mutates(r),
                      NEW r \in DOMAIN req, req[r].kind = "ensure", req[r].at = "done",
                      tabs[req[r].tab].at = "open", tabs[req[r].tab].group # NoTab, renamed = {},
                      \A q \in DOMAIN req : req[q].kind = "close" => req[q].at = "none"
               PROVE  req[r].tab \in stored[req[r].ws].owned
    BY DEF TrackedInLane, Tracked
  <2>1. PICK lane \in Workspace : lane = req[r].ws
    BY DEF ChromeInv, Requests
  <2>2. OneLane(lane)
    BY <2>1 DEF OneLane
  <2>3. LaneOK(lane) /\ TrackOK(lane)
    BY <2>2 DEF LaneInv, Quiet
  <2>4. req[r].tab \in SettledTabs
    BY <2>3 DEF LaneOK, SettledTabs, Settles
  <2>5. QED BY <2>1, <2>3, <2>4 DEF TrackOK, Keeps
<1>2. QED BY <1>1, ChromeInvariant, LaneInvariant, WorkspacesConfined, PTL DEF WorkspacesSound

--------------------------------------------------------------------------------
(* BrowserAct: what was acknowledged is not delivered again.                  *)

ActPlaces == {"begin", "queued", "admitted", "yielding", "delivering", "checking", "observing", "failed", "ended", "over"}
ActCodes == {"none", "guard_failed", "stale_state", "resource_owned", "operation_failed", "unsupported_background", "user_active",
             "delivery_failed", "not_delivered", "state_unavailable", "cancelled"}
ActVerdicts == {"none", "skipped", "didnt", "preexisting", "worked", "unknown"}
TxStates == [asked : Transactions, at : ActPlaces, i : Nat, j : Nat, worked : BOOLEAN, dispatched : Nat, acked : SUBSET Nat,
             attempt : Nat, recovered : BOOLEAN, blind : BOOLEAN, code : ActCodes, verdict : ActVerdicts]

\* Codes that let a transaction be delivered again without a look at the page.
SaysNothingDone == {"guard_failed", "stale_state", "not_delivered"}

\* Nothing is dispatched before the delivery, and nothing was in an execution
\* whose failure says so; what is acknowledged is behind it, or is a wait.
Undelivered(x) ==
  x.at \in {"begin", "queued", "admitted", "yielding"} \/ (x.at = "failed" /\ x.code \in SaysNothingDone) => x.dispatched = 0
AckedBehind(x) ==
  /\ x.acked \subseteq DOMAIN x.asked.actions
  /\ x.blind \/ \A a \in x.acked : x.asked.actions[a].kind = "wait" \/ (a < x.i /\ x.dispatched > 0)
TxOK(x) == x \in TxStates /\ x.j >= 1 /\ x.i >= 1 /\ Undelivered(x) /\ AckedBehind(x)

ActInv == TxOK(tx) /\ DOMAIN landed = DOMAIN tx.asked.actions

\* A step that keeps what is asked, dispatched and acknowledged, and does not go
\* back: it fails, or goes to another place.
LEMMA TxKeeps ==
  ASSUME NEW x, TxOK(x), NEW q \in TxStates, q.j >= 1, q.i = x.i,
         q.asked = x.asked, q.dispatched = x.dispatched, q.acked = x.acked, q.blind = x.blind, Undelivered(q)
  PROVE  TxOK(q)
BY DEF TxOK, AckedBehind

LEMMA TxFails ==
  ASSUME TxOK(tx), NEW code \in ActCodes, Fails(code), code \in SaysNothingDone => tx.dispatched = 0
  PROVE  TxOK(tx') /\ tx'.asked = tx.asked
<1> DEFINE q == [tx EXCEPT !.at = "failed", !.code = code]
<1>1. q \in TxStates /\ q.at = "failed" /\ q.code = code /\ q.i = tx.i /\ q.j = tx.j /\ q.asked = tx.asked
      /\ q.dispatched = tx.dispatched /\ q.acked = tx.acked /\ q.blind = tx.blind
  BY DEF TxOK, TxStates, ActPlaces
<1>2. tx' = q
  BY DEF Fails
<1> HIDE DEF q
<1>3. Undelivered(q) /\ q.j >= 1
  BY <1>1 DEF Undelivered, TxOK
<1>4. QED BY <1>1, <1>2, <1>3, TxKeeps

LEMMA TxGoes ==
  ASSUME TxOK(tx), NEW at \in ActPlaces \ {"failed"}, Goes(at),
         at \in {"queued", "admitted", "yielding"} => tx.at \in {"begin", "queued", "admitted"},
         at # "begin"
  PROVE  TxOK(tx') /\ tx'.asked = tx.asked
<1> DEFINE q == [tx EXCEPT !.at = at]
<1>1. q \in TxStates /\ q.at = at /\ q.i = tx.i /\ q.j = tx.j /\ q.asked = tx.asked
      /\ q.dispatched = tx.dispatched /\ q.acked = tx.acked /\ q.blind = tx.blind
  BY DEF TxOK, TxStates, ActPlaces
<1>2. tx' = q
  BY DEF Goes
<1> HIDE DEF q
<1>3. Undelivered(q) /\ q.j >= 1
  BY <1>1 DEF Undelivered, TxOK
<1>4. QED BY <1>1, <1>2, <1>3, TxKeeps

LEMMA TxEnds ==
  ASSUME TxOK(tx), NEW at \in {"observing", "ended"}, NEW v \in ActVerdicts, tx' = [tx EXCEPT !.at = at, !.verdict = v]
  PROVE  TxOK(tx') /\ tx'.asked = tx.asked
<1> DEFINE q == [tx EXCEPT !.at = at, !.verdict = v]
<1>1. q \in TxStates /\ q.at = at /\ q.i = tx.i /\ q.j = tx.j /\ q.asked = tx.asked
      /\ q.dispatched = tx.dispatched /\ q.acked = tx.acked /\ q.blind = tx.blind
  BY DEF TxOK, TxStates, ActPlaces
<1> HIDE DEF q
<1>2. Undelivered(q) /\ q.j >= 1
  BY <1>1 DEF Undelivered, TxOK
<1>3. TxOK(q)
  BY <1>1, <1>2, TxKeeps
<1>4. QED BY <1>1, <1>3 DEF q

\* A transaction is executed again only with nothing done, or blindly.
LEMMA TxAgain ==
  ASSUME TxOK(tx), tx.at = "failed", tx.code \in Reobserve, NEW n \in Nat, NEW rec \in BOOLEAN, Again(n, rec)
  PROVE  TxOK(tx') /\ tx'.asked = tx.asked
<1> DEFINE b == tx.blind \/ tx.code = "state_unavailable"
           q == [asked |-> tx.asked, at |-> "begin", i |-> 1, j |-> 1, worked |-> TRUE, dispatched |-> 0, acked |-> tx.acked,
                 attempt |-> n, recovered |-> rec, blind |-> b, code |-> "none", verdict |-> "none"]
<1>1. tx' = q
  BY DEF Again, Begun
<1>2. tx \in TxStates /\ b \in BOOLEAN
  BY DEF TxOK, TxStates
<1> HIDE DEF b
<1>3. q \in TxStates /\ q.at = "begin" /\ q.i = 1 /\ q.j = 1 /\ q.asked = tx.asked
      /\ q.dispatched = 0 /\ q.acked = tx.acked /\ q.blind = b
  BY <1>2 DEF TxStates, ActPlaces, ActCodes, ActVerdicts
<1> HIDE DEF q
<1>4. Undelivered(q)
  BY <1>3 DEF Undelivered
<1>5. b \/ (~tx.blind /\ tx.dispatched = 0)
  BY DEF b, TxOK, Undelivered, Reobserve, SaysNothingDone
<1>6. b \/ \A a \in tx.acked : tx.asked.actions[a].kind = "wait"
  BY <1>5 DEF TxOK, AckedBehind
<1>7. AckedBehind(q)
  BY <1>3, <1>6 DEF TxOK, AckedBehind
<1>8. QED BY <1>1, <1>3, <1>4, <1>7 DEF TxOK

LEMMA ActStart == ActInit => ActInv
<1> SUFFICES ASSUME ActInit PROVE ActInv
  OBVIOUS
<1>1. PICK t \in Transactions : /\ tx = Begun(t, 1)
                                /\ landed = [i \in DOMAIN t.actions |-> [j \in 1..Pieces(t.actions[i]) |-> 0]]
  BY DEF ActInit
<1>2. tx \in TxStates /\ tx.asked = t /\ tx.at = "begin" /\ tx.i = 1 /\ tx.j = 1 /\ tx.dispatched = 0 /\ tx.acked = {}
  BY <1>1 DEF Begun, TxStates, ActPlaces, ActCodes, ActVerdicts
<1>3. QED BY <1>1, <1>2 DEF ActInv, TxOK, Undelivered, AckedBehind

LEMMA ActStep == ActInv /\ [ActNext]_actVars => ActInv'
<1> SUFFICES ASSUME ActInv, [ActNext]_actVars PROVE ActInv'
  OBVIOUS
<1>0. TxOK(tx) /\ DOMAIN landed = DOMAIN tx.asked.actions /\ tx \in TxStates
  BY DEF ActInv, TxOK
<1>a. ASSUME TxOK(tx'), tx'.asked = tx.asked, UNCHANGED landed PROVE ActInv'
  BY <1>0, <1>a DEF ActInv
<1>b. ASSUME TxOK(tx'), tx'.asked = tx.asked, Land PROVE ActInv'
  BY <1>0, <1>b DEF ActInv, Land
<1>c. DeliveryOfFailure \in ActCodes /\ (DeliveryOfFailure \in SaysNothingDone => tx.dispatched = 0)
  BY <1>0 DEF DeliveryOfFailure, ActCodes, SaysNothingDone, TxStates
<1>d. Fails(DeliveryOfFailure) => TxOK(tx') /\ tx'.asked = tx.asked
  BY <1>0, <1>c, TxFails
<1>e. ASSUME NEW code \in ActCodes \ SaysNothingDone, Fails(code) PROVE TxOK(tx') /\ tx'.asked = tx.asked
  BY <1>0, <1>e, TxFails
<1>1. CASE UNCHANGED actVars
  BY <1>1 DEF ActInv, actVars
<1>2. CASE Changes
  BY <1>0, <1>2 DEF Changes, ActInv
<1>3. CASE Prepares
  <2>1. UNCHANGED landed /\ tx.at = "begin" /\ tx.dispatched = 0
    BY <1>0, <1>3 DEF Prepares, TxOK, Undelivered
  <2>2. CASE Fails("guard_failed")
    BY <1>0, <1>a, <2>1, <2>2, TxFails DEF ActCodes
  <2>3. CASE tx' = [tx EXCEPT !.at = "ended", !.verdict = "skipped"]
    BY <1>0, <1>a, <2>1, <2>3, TxEnds DEF ActVerdicts
  <2>4. CASE Goes("queued")
    BY <1>0, <1>a, <2>1, <2>4, TxGoes DEF ActPlaces
  <2>5. QED BY <1>3, <2>2, <2>3, <2>4 DEF Prepares
<1>4. CASE Admits
  <2>1. UNCHANGED landed /\ tx.at = "queued" /\ tx.dispatched = 0
    BY <1>0, <1>4 DEF Admits, TxOK, Undelivered
  <2>2. CASE Fails("guard_failed") \/ Fails("stale_state") \/ Fails("resource_owned")
    BY <1>0, <1>a, <2>1, <2>2, TxFails DEF ActCodes
  <2>3. CASE Goes("admitted")
    BY <1>0, <1>a, <2>1, <2>3, TxGoes DEF ActPlaces
  <2>4. QED BY <1>4, <2>2, <2>3 DEF Admits
<1>5. CASE Starts
  <2>1. UNCHANGED landed /\ tx.at = "admitted"
    BY <1>5 DEF Starts
  <2>2. CASE Fails("operation_failed")
    BY <1>a, <1>e, <2>1, <2>2 DEF ActCodes, SaysNothingDone
  <2>3. CASE Goes("yielding") \/ Goes("delivering")
    BY <1>0, <1>a, <2>1, <2>3, TxGoes DEF ActPlaces
  <2>4. QED BY <1>5, <2>2, <2>3 DEF Starts
<1>6. CASE Presents
  <2>1. UNCHANGED landed
    BY <1>6 DEF Presents
  <2>2. CASE Fails("unsupported_background") \/ Fails("user_active")
    BY <1>a, <1>e, <2>1, <2>2 DEF ActCodes, SaysNothingDone
  <2>3. CASE Goes("delivering")
    BY <1>0, <1>a, <2>1, <2>3, TxGoes DEF ActPlaces
  <2>4. QED BY <1>6, <2>2, <2>3 DEF Presents
<1>7. CASE FindsNoPage
  BY <1>7, <1>a, <1>d DEF FindsNoPage
<1>8. CASE PieceDone
  <2>0. tx.at = "delivering"
    BY <1>8 DEF PieceDone
  <2>1. ASSUME NEW wk \in BOOLEAN, tx' = [tx EXCEPT !.j = @ + 1, !.worked = wk] PROVE TxOK(tx') /\ tx'.asked = tx.asked
    <3> DEFINE k == tx.j + 1
               q == [tx EXCEPT !.j = k, !.worked = wk]
    <3>0. k \in Nat
      BY <1>0 DEF TxStates
    <3> HIDE DEF k
    <3>1. q \in TxStates /\ q.at = tx.at /\ q.i = tx.i /\ q.j = k /\ q.asked = tx.asked
          /\ q.dispatched = tx.dispatched /\ q.acked = tx.acked /\ q.blind = tx.blind
      BY <1>0, <2>1, <3>0 DEF TxStates
    <3> HIDE DEF q
    <3>2. Undelivered(q) /\ q.j >= 1
      BY <1>0, <2>0, <3>1 DEF Undelivered, TxOK, TxStates, k
    <3>3. TxOK(q)
      BY <1>0, <3>1, <3>2, TxKeeps
    <3>4. QED BY <2>1, <3>1, <3>3 DEF q, k
  <2>2. CASE Land /\ tx' = [tx EXCEPT !.j = @ + 1]
    <3>1. tx.worked \in BOOLEAN /\ [tx EXCEPT !.j = @ + 1] = [tx EXCEPT !.j = @ + 1, !.worked = tx.worked]
      BY <1>0 DEF TxStates
    <3>2. QED BY <1>b, <2>1, <2>2, <3>1
  <2>3. CASE tx' = [tx EXCEPT !.j = @ + 1, !.worked = FALSE] /\ UNCHANGED landed
    BY <1>a, <2>1, <2>3
  <2>4. QED BY <1>8, <2>2, <2>3 DEF PieceDone
<1>9. CASE PieceFails
  BY <1>9, <1>a, <1>b, <1>d DEF PieceFails
<1>10. CASE ActionDone
  <2>1. UNCHANGED landed /\ tx.at = "delivering" /\ tx.i \in 1..Len(tx.asked.actions)
    BY <1>0, <1>10 DEF ActionDone, TxOK, TxStates
  <2>2. CASE Fails(DeliveryOfFailure)
    BY <1>a, <1>d, <2>1, <2>2
  <2>3. CASE tx' = [tx EXCEPT !.i = @ + 1, !.j = 1, !.dispatched = IF Action.kind = "wait" THEN @ ELSE @ + 1, !.acked = @ \cup {tx.i}]
    <3> DEFINE n == IF Action.kind = "wait" THEN tx.dispatched ELSE tx.dispatched + 1
               k == tx.i + 1
               ks == tx.acked \cup {tx.i}
               q == [tx EXCEPT !.i = k, !.j = 1, !.dispatched = n, !.acked = ks]
    <3>1. tx' = q
      BY <2>3
    <3>2. tx.asked \in Transactions /\ tx.asked.actions \in Seq([kind : {"node", "input", "wait"}, pieces : 0..3])
      BY <1>0, TransactionAssumption DEF TxStates
    <3>3. tx.i \in DOMAIN tx.asked.actions
      BY <2>1, <3>2
    <3>4. n \in Nat /\ n >= tx.dispatched /\ (tx.asked.actions[tx.i].kind = "wait" \/ n > 0)
      BY <1>0 DEF TxStates, Action
    <3>a. k \in Nat /\ ks \in SUBSET Nat
      BY <1>0 DEF TxStates
    <3> HIDE DEF n, k, ks
    <3>5. q \in TxStates /\ q.at = tx.at /\ q.i = k /\ q.j = 1 /\ q.asked = tx.asked
          /\ q.dispatched = n /\ q.acked = ks /\ q.blind = tx.blind
      BY <1>0, <3>4, <3>a DEF TxStates
    <3> HIDE DEF q
    <3> USE DEF k, ks
    <3>6. Undelivered(q)
      BY <2>1, <3>5 DEF Undelivered
    <3>7. tx.i \in Nat /\ tx.dispatched \in Nat /\ tx.acked \subseteq Nat
      BY <1>0 DEF TxStates
    <3>8. q.acked \subseteq DOMAIN tx.asked.actions
      BY <1>0, <3>3, <3>5 DEF TxOK, AckedBehind
    <3>9. ASSUME NEW a \in q.acked, ~q.blind PROVE tx.asked.actions[a].kind = "wait" \/ (a < q.i /\ q.dispatched > 0)
      <4>1. CASE a = tx.i
        BY <3>4, <3>5, <3>7, <4>1
      <4>2. CASE a \in tx.acked
        <5>1. tx.asked.actions[a].kind = "wait" \/ (a < tx.i /\ tx.dispatched > 0)
          BY <1>0, <3>5, <3>9, <4>2 DEF TxOK, AckedBehind
        <5>2. QED BY <3>4, <3>5, <3>7, <4>2, <5>1
      <4>3. QED BY <3>5, <4>1, <4>2
    <3>10. TxOK(q)
      BY <3>5, <3>6, <3>7, <3>8, <3>9 DEF TxOK, AckedBehind
    <3>11. QED BY <1>a, <2>1, <3>1, <3>5, <3>10
  <2>4. QED BY <1>10, <2>2, <2>3 DEF ActionDone
<1>11. CASE Delivered
  <2>1. UNCHANGED landed /\ (Goes("checking") \/ Goes("observing"))
    BY <1>11 DEF Delivered
  <2>2. QED BY <1>0, <1>a, <2>1, TxGoes DEF ActPlaces
<1>12. CASE Verifies
  <2>1. UNCHANGED landed
    BY <1>12 DEF Verifies
  <2>2. CASE tx' = [tx EXCEPT !.at = "observing", !.verdict = OutcomeChecked(tab.holds)]
    BY <1>0, <1>a, <2>1, <2>2, TxEnds DEF ActVerdicts, OutcomeChecked
  <2>3. CASE Fails("state_unavailable") \/ Fails("cancelled") \/ Fails("operation_failed")
    BY <1>a, <1>e, <2>1, <2>3 DEF ActCodes, SaysNothingDone
  <2>4. QED BY <1>12, <2>2, <2>3 DEF Verifies
<1>13. CASE Observes
  <2>1. UNCHANGED landed
    BY <1>13 DEF Observes
  <2>2. CASE tx' = [tx EXCEPT !.at = "ended", !.verdict = OutcomeObserved(@)]
    <3>1. OutcomeObserved(tx.verdict) \in ActVerdicts
      BY <1>0 DEF OutcomeObserved, ActVerdicts, TxStates
    <3>2. QED BY <1>0, <1>a, <2>1, <2>2, <3>1, TxEnds
  <2>3. CASE Fails("state_unavailable") \/ Fails("operation_failed")
    BY <1>a, <1>e, <2>1, <2>3 DEF ActCodes, SaysNothingDone
  <2>4. QED BY <1>13, <2>2, <2>3 DEF Observes
<1>14. CASE Recovers
  <2>1. tx.at = "failed" /\ tx.code \in Reobserve /\ tx.attempt \in Nat
    BY <1>0, <1>14 DEF Recovers, Recoverable, Reobserve, TxStates
  <2>2. CASE Again(tx.attempt, TRUE)
    BY <1>0, <1>a, <2>1, <2>2, TxAgain DEF Again
  <2>3. CASE IsOver
    BY <1>0, <1>a, <2>3, TxGoes DEF IsOver, ActPlaces
  <2>4. QED BY <1>14, <2>2, <2>3 DEF Recovers
<1>15. CASE Retries
  <2>1. CASE tx.code \in Reobserve /\ Again(tx.attempt + 1, FALSE)
    <3>1. tx.at = "failed" /\ tx.attempt + 1 \in Nat
      BY <1>0, <1>15 DEF Retries, TxStates
    <3>2. QED BY <1>0, <1>a, <2>1, <3>1, TxAgain DEF Again
  <2>2. CASE IsOver
    BY <1>0, <1>a, <2>2, TxGoes DEF IsOver, ActPlaces
  <2>3. QED BY <1>15, <2>1, <2>2 DEF Retries
<1>16. QED BY <1>1, <1>2, <1>3, <1>4, <1>5, <1>6, <1>7, <1>8, <1>9, <1>10, <1>11, <1>12, <1>13, <1>14, <1>15
           DEF ActNext, TransactionStep

\* What takes effect is a piece of an action that is not acknowledged, unless
\* the transaction is repeated blindly.
LEMMA LandsUnacked ==
  ASSUME ActInv, tx.i <= Len(tx.asked.actions), tx.j <= Pieces(Action), Land, NEW a \in tx.acked, ~tx.blind
  PROVE  landed'[a] = landed[a]
<1>1. tx \in TxStates /\ tx.i >= 1 /\ tx.j >= 1 /\ AckedBehind(tx) /\ DOMAIN landed = DOMAIN tx.asked.actions
  BY DEF ActInv, TxOK
<1>2. tx.i \in Nat /\ tx.j \in Nat /\ tx.asked \in Transactions
  BY <1>1 DEF TxStates
<1>3. tx.asked.actions \in Seq([kind : {"node", "input", "wait"}, pieces : 0..3])
      /\ \A k \in DOMAIN tx.asked.actions : tx.asked.actions[k].kind = "wait" => tx.asked.actions[k].pieces = 0
  BY <1>2, TransactionAssumption
<1>4. tx.i \in DOMAIN tx.asked.actions /\ tx.asked.actions[tx.i].kind # "wait"
  BY <1>1, <1>2, <1>3 DEF Pieces, Action
<1>5. a # tx.i /\ a \in DOMAIN landed
  BY <1>1, <1>2, <1>4 DEF AckedBehind
<1>6. QED BY <1>1, <1>4, <1>5 DEF Land

\* AckedOnce: an action of a transaction that was acknowledged is not delivered
\* again, whatever fails after it and however often performAct and execute_plan
\* repeat it, unless the page could not be found when it was to be observed.
THEOREM AcknowledgedOnce == ActSpec => AckedOnce
<1> DEFINE Kept == \A i \in tx.acked : tx.blind \/ landed'[i] = landed[i]
<1>1. ActInv /\ [ActNext]_actVars => [Kept]_actVars
  <2> SUFFICES ASSUME ActInv, ActNext, NEW i \in tx.acked, ~tx.blind PROVE landed'[i] = landed[i]
    OBVIOUS
  <2>1. CASE PieceDone
    BY <2>1, LandsUnacked DEF PieceDone
  <2>2. CASE PieceFails
    BY <2>2, LandsUnacked DEF PieceFails
  <2>3. CASE ~PieceDone /\ ~PieceFails
    BY <2>3 DEF ActNext, TransactionStep, Changes, Prepares, Admits, Starts, Presents, FindsNoPage, ActionDone, Delivered,
                Verifies, Observes, Recovers, Retries, Again, IsOver
  <2>4. QED BY <2>1, <2>2, <2>3
<1>2. QED BY <1>1, ActStart, ActStep, PTL DEF ActSpec, AckedOnce
================================================================================
