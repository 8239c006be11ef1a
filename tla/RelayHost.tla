------------------------------ MODULE RelayHost ------------------------------
(***************************************************************************)
(* scripts/chrome-native-host.mjs: the relay between the sockets of SCUA   *)
(* processes and the native port of the extension.  Chrome starts a host   *)
(* whenever the extension connects; a lock file with the pid of its owner  *)
(* makes all but one of them yield.  A host that dies leaves the file, and *)
(* the next one clears it.  The hosts are processes: what one does between *)
(* two system calls another one may overtake.                              *)
(***************************************************************************)
EXTENDS Integers, FiniteSets

CONSTANTS Host, Client,
          NoHost,     \* no lock file
          Ghost       \* a process that died before the first state

ASSUME RelayAssumption == NoHost \notin Host /\ Ghost \notin Host /\ NoHost # Ghost

VARIABLES lock,     \* who created the lock file, and whether its pid is in it
          host,     \* where every host is, its attempts and reads, the lock it judged
          stolen,   \* a lock was cleared that was not the one judged, or was judged unwritten
          conn      \* the sockets of clients: the host, and what became of the request

relayVars == <<lock, host, stolen, conn>>

Attempts == 2
ReadAttempts == 3
NoLock == [by |-> NoHost, pid |-> FALSE]

RelayInit ==
  /\ lock \in {NoLock} \cup [by : {Ghost}, pid : BOOLEAN]
  /\ host = [h \in Host |-> [at |-> "new", attempt |-> 1, reads |-> 0, saw |-> NoLock]]
  /\ stolen = FALSE
  /\ conn = [c \in Client |-> [host |-> NoHost, at |-> "none"]]

NoRelay ==
  /\ lock = NoLock /\ stolen = FALSE
  /\ host = [h \in Host |-> [at |-> "gone", attempt |-> 1, reads |-> 0, saw |-> NoLock]]
  /\ conn = [c \in Client |-> [host |-> NoHost, at |-> "gone"]]

Alive(h) == h \in Host /\ host[h].at # "gone"
At(h, at) == host' = [host EXCEPT ![h].at = at]

\* openSync with "wx".
OpensLock(h) ==
  /\ host[h].at = "new"
  /\ IF lock = NoLock
     THEN lock' = [by |-> h, pid |-> FALSE] /\ At(h, "created")
     ELSE At(h, "looking") /\ UNCHANGED lock
  /\ UNCHANGED <<stolen, conn>>

\* Into the file it created, which may have been unlinked.
WritesPid(h) ==
  /\ host[h].at = "created"
  /\ lock' = IF lock.by = h THEN [lock EXCEPT !.pid = TRUE] ELSE lock
  /\ At(h, "locked")
  /\ UNCHANGED <<stolen, conn>>

\* Mutant: a pid is taken for a sign of death.
JudgesAlways(h) ==
  /\ host[h].at = "looking"
  /\ host' = [host EXCEPT ![h].at = "clearing", ![h].reads = 0, ![h].saw = lock]
  /\ UNCHANGED <<lock, stolen, conn>>

\* The owner's pid, read up to three times until there is one; a live owner is
\* yielded to.
JudgesOwner(h) ==
  /\ host[h].at = "looking"
  /\ LET me == host[h] IN
       host' = [host EXCEPT ![h] =
         IF lock.pid THEN [me EXCEPT !.at = IF Alive(lock.by) THEN "gone" ELSE "clearing", !.reads = 0, !.saw = lock]
         ELSE IF me.reads + 1 < ReadAttempts THEN [me EXCEPT !.reads = me.reads + 1]
         ELSE [me EXCEPT !.at = "clearing", !.reads = 0, !.saw = lock]]
  /\ UNCHANGED <<lock, stolen, conn>>

\* unlinkSync: whatever lock is there by now.  A second attempt follows.
ClearsLock(h) ==
  /\ host[h].at = "clearing"
  /\ lock' = NoLock
  /\ stolen' = (stolen \/ (Alive(lock.by) /\ ~(host[h].saw.pid /\ host[h].saw.by = lock.by)))
  /\ LET me == host[h] IN
       host' = [host EXCEPT ![h] =
         IF me.attempt < Attempts THEN [me EXCEPT !.at = "new", !.attempt = me.attempt + 1, !.saw = NoLock]
         ELSE [me EXCEPT !.at = "gone", !.saw = NoLock]]
  /\ UNCHANGED conn

\* The socket of an earlier host is replaced by its own.
Listens(h) ==
  /\ host[h].at = "locked"
  /\ At(h, "serving")
  /\ UNCHANGED <<lock, stolen, conn>>

\* A connection stays with the host that accepted it.
Accepts(h, c) ==
  /\ host[h].at = "serving" /\ conn[c].at = "none"
  /\ conn' = [conn EXCEPT ![c] = [host |-> h, at |-> "open"]]
  /\ UNCHANGED <<lock, host, stolen>>

\* A request goes to the extension with the id of its connection, one that
\* is no request is answered at once.
Forwards(c) ==
  /\ conn[c].at = "open"
  /\ \E at \in {"forwarded", "answered"} : conn' = [conn EXCEPT ![c].at = at]
  /\ UNCHANGED <<lock, host, stolen>>

\* The extension's response, to the connection if it is still there.
Responds(c) ==
  /\ conn[c].at = "forwarded"
  /\ conn' = [conn EXCEPT ![c].at = "answered"]
  /\ UNCHANGED <<lock, host, stolen>>

Hangs(c) ==
  /\ conn[c].at \in {"open", "forwarded"}
  /\ conn' = [conn EXCEPT ![c].at = "gone"]
  /\ UNCHANGED <<lock, host, stolen>>

\* Chrome closes the port: connections are destroyed, the socket and the lock
\* file go, whosever they are.
Shuts(h) ==
  /\ host[h].at = "serving"
  /\ At(h, "gone")
  /\ lock' = NoLock
  /\ stolen' = (stolen \/ (lock.by # h /\ Alive(lock.by)))
  /\ conn' = [c \in Client |-> IF conn[c].host = h /\ conn[c].at # "answered" THEN [conn[c] EXCEPT !.at = "gone"] ELSE conn[c]]

\* Killed: the lock file stays.
DiesUnasked(h) ==
  /\ Alive(h)
  /\ At(h, "gone")
  /\ conn' = [c \in Client |-> IF conn[c].host = h /\ conn[c].at # "answered" THEN [conn[c] EXCEPT !.at = "gone"] ELSE conn[c]]
  /\ UNCHANGED <<lock, stolen>>

HostStep(h) == OpensLock(h) \/ WritesPid(h) \/ JudgesOwner(h) \/ ClearsLock(h) \/ Listens(h)
ConnStep(c) == Forwards(c) \/ Responds(c) \/ Hangs(c)
RelayNext ==
  \/ \E h \in Host : HostStep(h) \/ Shuts(h) \/ DiesUnasked(h) \/ \E c \in Client : Accepts(h, c)
  \/ \E c \in Client : ConnStep(c)
RelayFairness == (\A h \in Host : WF_relayVars(HostStep(h))) /\ \A c \in Client : WF_relayVars(ConnStep(c))
RelaySpec == RelayInit /\ [][RelayNext]_relayVars /\ RelayFairness

(***************************************************************************)
(* Properties.                                                             *)
(***************************************************************************)
\* At most one host holds the relay, as long as none has cleared a live lock it
\* did not judge, which two of them manage that judge one dead lock together,
\* and one that reads a lock three times before its owner has written its pid.
RelayExclusive == stolen \/ Cardinality({h \in Host : host[h].at \in {"created", "locked", "serving"}}) <= 1

\* A host that starts serves, yields, dies or gives up; it is not kept waiting
\* by a lock of the dead.
RelayOver == \A h \in Host : host[h].at \in {"serving", "gone"}
RelayEnds == <>[]RelayOver
=============================================================================
