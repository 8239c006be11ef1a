--------------------------- MODULE Helpers_proofs ---------------------------
(***************************************************************************)
(* Theorems about the native helpers: PipeHelper, HelperSetup and          *)
(* MacosHelper, for any number of calls, children, processes and           *)
(* installers.                                                             *)
(***************************************************************************)
EXTENDS PipeHelper, HelperSetup, MacosHelper, FiniteSetTheorems, SequenceTheorems, TLAPS

--------------------------------------------------------------------------------
(* PipeHelper: nobody waits for an answer that is there, or that nobody gives.*)

KidPlaces == {"unborn", "spawning", "up", "dead", "doomed", "killed", "gone"}
Chunks == {"whole", "head", "tail"} \X PipeCall
Kids == [is : KidPlaces, inbox : SUBSET PipeCall, out : Seq(Chunks)]
Pipes == [child : Kid \cup {NoKid}, buffer : SUBSET (Kid \X PipeCall), pending : SUBSET PipeCall]
PipeCalls == [at : {"new", "installing", "process", "starting", "asked", "over"}, stage : {"ready", "work"}, kid : Kid \cup {NoKid}]
PipeHistories == [lost : SUBSET PipeCall, mixed : BOOLEAN]

PipeTypeOK ==
  /\ kid \in [Kid -> Kids] /\ pipe \in Pipes /\ pipeCall \in [PipeCall -> PipeCalls] /\ pipeHistory \in PipeHistories

\* Children are born one after the other; who lives is the child the client
\* knows, and that one is the last.
Born == \E k \in 0..MaxKids : \A n \in Kid : kid[n].is = "unborn" <=> n > k
Latest(n) == kid[n].is # "unborn" /\ \A m \in Kid : m > n => kid[m].is = "unborn"
KidsInv ==
  /\ Born /\ \A n \in Kid : kid[n].is = "unborn" => kid[n].out = <<>>
  /\ \A n \in Kid : kid[n].is \in {"spawning", "up", "dead"} => n = pipe.child
  /\ pipe.child # NoKid => Latest(pipe.child) /\ kid[pipe.child].is \in {"spawning", "up", "dead"}

\* On Linux who waits has asked the child that is taken for alive.
ToldInv ==
  Linux => /\ \A c \in pipe.pending : pipeCall[c].at = "asked" /\ pipeCall[c].kid = pipe.child
           /\ pipe.pending # {} => Taken(pipe.child)

\* What a chunk finds in the buffer if nothing is mixed, and what it leaves there;
\* the output of a child is cut into such chunks, and a live one has printed
\* whole lines.
Needs(chunk, n) == IF chunk[1] = "tail" THEN {<<n, chunk[2]>>} ELSE Clean
LeavesRest(chunk, n) == IF chunk[1] = "head" THEN {<<n, chunk[2]>>} ELSE Clean
Rest(out, buffer, n, k) == IF k = 0 THEN buffer ELSE LeavesRest(out[k], n)
WellCut(out, buffer, n) == \A k \in DOMAIN out : Needs(out[k], n) = Rest(out, buffer, n, k - 1)
Ends(out, buffer, n) == Rest(out, buffer, n, Len(out)) = Clean
Living(x) == x.is \in {"spawning", "up"}

\* The buffer holds the rest of a line of the last child, or nobody waits and
\* there is none.
PipeQuiet == pipe.pending = {} /\ pipe.child = NoKid
LinesInv ==
  pipeHistory.mixed \/ \A n \in Kid : Latest(n) =>
    \/ PipeQuiet
    \/ /\ WellCut(kid[n].out, pipe.buffer, n)
       /\ Living(kid[n]) => Ends(kid[n].out, pipe.buffer, n)

PipeInv == PipeTypeOK /\ KidsInv /\ ToldInv /\ LinesInv /\ AnswersHeard

\* Reading, printing and dying keep the lines well cut.
LEMMA ReadsOn ==
  ASSUME NEW n, NEW out \in Seq(Chunks), out # <<>>, NEW buffer, WellCut(out, buffer, n)
  PROVE  /\ buffer = Needs(Head(out), n)
         /\ WellCut(Tail(out), LeavesRest(Head(out), n), n)
         /\ Ends(out, buffer, n) => Ends(Tail(out), LeavesRest(Head(out), n), n)
<1> DEFINE tl == Tail(out)
           h == Head(out)
<1>1. Len(out) \in Nat \ {0} /\ DOMAIN out = 1..Len(out) /\ h = out[1]
  OBVIOUS
<1>2. tl \in Seq(Chunks) /\ Len(tl) = Len(out) - 1 /\ \A k \in 1..Len(tl) : tl[k] = out[k + 1]
  BY <1>1
<1>3. DOMAIN tl = 1..Len(tl)
  BY <1>2
<1> HIDE DEF tl, h
<1>4. buffer = Needs(h, n)
  BY <1>1 DEF WellCut, Rest
<1>5. ASSUME NEW k \in DOMAIN tl PROVE Needs(tl[k], n) = Rest(tl, LeavesRest(h, n), n, k - 1)
  <2>1. k + 1 \in DOMAIN out /\ k \in Nat \ {0} /\ k <= Len(tl)
    BY <1>1, <1>2, <1>3
  <2>2. Needs(out[k + 1], n) = Rest(out, buffer, n, k)
    BY <2>1 DEF WellCut
  <2>3. CASE k = 1
    BY <1>1, <1>2, <1>3, <2>2, <2>3 DEF Rest
  <2>4. CASE k # 1
    <3>1. tl[k - 1] = out[k]
      BY <1>2, <2>1, <2>4
    <3>2. QED BY <1>2, <1>3, <2>1, <2>2, <2>4, <3>1 DEF Rest
  <2>5. QED BY <2>3, <2>4
<1>6. Ends(out, buffer, n) => Rest(tl, LeavesRest(h, n), n, Len(tl)) = Clean
  <2>1. Ends(out, buffer, n) => LeavesRest(out[Len(out)], n) = Clean
    BY <1>1 DEF Ends, Rest
  <2>2. CASE Len(tl) = 0
    BY <1>1, <1>2, <2>1, <2>2 DEF Rest
  <2>3. CASE Len(tl) # 0
    <3>1. tl[Len(tl)] = out[Len(out)] /\ Len(tl) \in Nat
      BY <1>1, <1>2, <2>3
    <3>2. QED BY <2>1, <2>3, <3>1 DEF Rest
  <2>4. QED BY <2>2, <2>3
<1>7. QED BY <1>4, <1>5, <1>6 DEF WellCut, Ends, tl, h

\* A further chunk.
LEMMA PrintsOn ==
  ASSUME NEW n, NEW out \in Seq(Chunks), NEW buffer, NEW chunk \in Chunks,
         WellCut(out, buffer, n), Rest(out, buffer, n, Len(out)) = Needs(chunk, n)
  PROVE  /\ Append(out, chunk) \in Seq(Chunks) /\ WellCut(Append(out, chunk), buffer, n)
         /\ Rest(Append(out, chunk), buffer, n, Len(Append(out, chunk))) = LeavesRest(chunk, n)
<1> DEFINE more == Append(out, chunk)
<1>1. /\ more \in Seq(Chunks) /\ Len(out) \in Nat /\ Len(more) = Len(out) + 1
      /\ \A k \in 1..Len(out) : more[k] = out[k]
      /\ more[Len(out) + 1] = chunk /\ DOMAIN out = 1..Len(out) /\ DOMAIN more = 1..(Len(out) + 1)
  OBVIOUS
<1> HIDE DEF more
<1>2. Rest(more, buffer, n, Len(more)) = LeavesRest(chunk, n)
  BY <1>1 DEF Rest
<1>3. \A k \in 0..Len(out) : Rest(more, buffer, n, k) = Rest(out, buffer, n, k)
  BY <1>1 DEF Rest
<1>4. ASSUME NEW k \in DOMAIN more PROVE Needs(more[k], n) = Rest(more, buffer, n, k - 1)
  <2>1. CASE k = Len(out) + 1
    BY <1>1, <1>3, <2>1
  <2>2. CASE k \in DOMAIN out
    <3>1. k - 1 \in 0..Len(out) /\ more[k] = out[k]
      BY <1>1, <2>2
    <3>2. QED BY <1>3, <2>2, <3>1 DEF WellCut
  <2>3. QED BY <1>1, <2>1, <2>2
<1>5. QED BY <1>1, <1>2, <1>4 DEF WellCut, more

LEMMA PipeStart == PipeInit => PipeInv
<1> SUFFICES ASSUME PipeInit PROVE PipeInv
  OBVIOUS
<1>0. MaxKids \in Nat
  BY PipeAssumption
<1>1. PICK p : PipeState(p, "new")
  BY DEF PipeInit
<1>2. Unborn \in Kids /\ Unborn.is = "unborn" /\ Unborn.out = <<>>
  BY DEF Unborn, Kids, KidPlaces
<1>3. kid \in [Kid -> Kids] /\ \A n \in Kid : kid[n].is = "unborn" /\ kid[n].out = <<>>
  BY <1>1, <1>2 DEF PipeState
<1>4. pipe \in Pipes /\ pipe.child = NoKid /\ pipe.pending = {}
  BY <1>1 DEF PipeState, Pipes, Clean
<1>5. pipeCall \in [PipeCall -> PipeCalls]
  BY <1>1 DEF PipeState, PipeCalls, Idle
<1>6. pipeHistory \in PipeHistories /\ pipeHistory.lost = {}
  BY <1>1 DEF PipeState, PipeHistories
<1>7. Born
  BY <1>0, <1>3 DEF Born, Kid
<1>8. KidsInv
  BY <1>3, <1>4, <1>7 DEF KidsInv
<1>9. QED BY <1>3, <1>4, <1>5, <1>6, <1>8 DEF PipeInv, PipeTypeOK, ToldInv, LinesInv, PipeQuiet, AnswersHeard

\* Calls that end, or that do not wait for an answer and move on.
LEMMA CallsOnly ==
  ASSUME PipeInv, UNCHANGED <<platform, kid, pipeHistory>>,
         pipe' \in Pipes, pipe'.child = pipe.child, pipe'.buffer = pipe.buffer, pipe'.pending \subseteq pipe.pending,
         pipeCall' \in [PipeCall -> PipeCalls],
         Linux => \A c \in pipe'.pending : pipeCall'[c] = pipeCall[c]
  PROVE  PipeInv'
<1>1. PipeTypeOK'
  BY DEF PipeInv, PipeTypeOK
<1>2. KidsInv'
  BY DEF PipeInv, KidsInv, Born, Latest
<1>3. ToldInv'
  BY DEF PipeInv, ToldInv, Taken, Usable, Linux
<1>4. LinesInv'
  BY DEF PipeInv, LinesInv, Latest, PipeQuiet
<1>5. QED BY <1>1, <1>2, <1>3, <1>4 DEF PipeInv, AnswersHeard

LEMMA CallMoves ==
  ASSUME PipeTypeOK, NEW c \in PipeCall, NEW q \in PipeCalls, pipeCall' = [pipeCall EXCEPT ![c] = q]
  PROVE  pipeCall' \in [PipeCall -> PipeCalls] /\ pipeCall'[c] = q /\ \A x \in PipeCall \ {c} : pipeCall'[x] = pipeCall[x]
BY DEF PipeTypeOK

LEMMA CallEnters ==
  ASSUME PipeTypeOK, NEW c \in PipeCall, NEW at \in {"process", "installing", "starting"}, Enters(c, at)
  PROVE  pipeCall' \in [PipeCall -> PipeCalls] /\ \A x \in PipeCall \ {c} : pipeCall'[x] = pipeCall[x]
<1> DEFINE x == pipeCall[c]
           q == [x EXCEPT !.at = at]
<1>1. x \in PipeCalls /\ pipeCall' = [pipeCall EXCEPT ![c] = q]
  BY DEF PipeTypeOK, Enters
<1> HIDE DEF x
<1>2. q \in PipeCalls
  BY <1>1 DEF PipeCalls
<1> HIDE DEF q
<1>3. QED BY <1>1, <1>2, CallMoves

LEMMA OverIs == \A c : Over(c) \in PipeCalls
BY DEF Over, Idle, PipeCalls

LEMMA CallsRejected ==
  ASSUME PipeTypeOK, NEW calls, Rejects(calls)
  PROVE  pipeCall' \in [PipeCall -> PipeCalls] /\ \A x \in PipeCall \ calls : pipeCall'[x] = pipeCall[x]
BY OverIs DEF PipeTypeOK, Rejects

\* One child changes, and perhaps what the client knows of it.
LEMMA KidChanges ==
  ASSUME PipeTypeOK, NEW n \in Kid, NEW y \in Kids, kid' = [kid EXCEPT ![n] = y]
  PROVE  kid' \in [Kid -> Kids] /\ kid'[n] = y /\ \A m \in Kid \ {n} : kid'[m] = kid[m]
BY DEF PipeTypeOK

LEMMA BornStays ==
  ASSUME Born, \A m \in Kid : kid'[m].is = "unborn" <=> kid[m].is = "unborn"
  PROVE  Born' /\ \A m \in Kid : Latest(m)' <=> Latest(m)
BY DEF Born, Latest

\* Lines stay as they are cut while children only stop.
LEMMA LinesStay ==
  ASSUME LinesInv, KidsInv, \A m \in Kid : kid'[m].is = "unborn" <=> kid[m].is = "unborn",
         \A m \in Kid : kid'[m].out = kid[m].out /\ (Living(kid'[m]) => Living(kid[m])),
         pipeHistory' = pipeHistory, pipe'.buffer = pipe.buffer,
         PipeQuiet => PipeQuiet'
  PROVE  LinesInv'
<1> SUFFICES ASSUME ~pipeHistory.mixed, NEW m \in Kid, Latest(m)' 
               PROVE  PipeQuiet' \/ (WellCut(kid'[m].out, pipe'.buffer, m) /\ (Living(kid'[m]) => Ends(kid'[m].out, pipe'.buffer, m)))
  BY DEF LinesInv, Living
<1>1. Latest(m)
  BY BornStays DEF KidsInv
<1>2. QED BY <1>1 DEF LinesInv, Living

\* Asks: calls that are not waiting ask the child that is there, or find the one
\* they waited for destroyed.
LEMMA AsksStep ==
  ASSUME PipeInv, NEW n \in Kid, NEW calls \in SUBSET PipeCall, Asks(calls, n),
         \A c \in calls : pipeCall[c].at \in {"process", "starting"},
         kid[n].is \in {"killed", "doomed"} \/ kid[n].is \in {"spawning", "up", "dead"}, UNCHANGED <<platform, pipeHistory>>
  PROVE  PipeInv'
<1> DEFINE x == kid[n]
           lands == IF x.is \in {"killed", "doomed"} THEN {} ELSE calls
           in == IF Usable(n) THEN x.inbox \cup lands ELSE x.inbox
           is == IF x.is = "spawning" THEN "up" ELSE IF x.is = "doomed" THEN "killed" ELSE x.is
           y == [x EXCEPT !.inbox = in, !.is = is]
           pd == pipe.pending \cup lands
           q == [pipe EXCEPT !.pending = pd]
<1>0. /\ PipeTypeOK /\ KidsInv /\ ToldInv /\ LinesInv /\ AnswersHeard
      /\ x \in Kids /\ pipe \in Pipes /\ pipeCall \in [PipeCall -> PipeCalls]
  BY DEF PipeInv, PipeTypeOK
<1>1. kid' = [kid EXCEPT ![n] = y] /\ pipe' = q
  BY DEF Asks
<1>2. pipeCall' = [c \in PipeCall |-> IF c \in lands THEN [pipeCall[c] EXCEPT !.at = "asked", !.kid = n]
                                      ELSE IF c \in calls THEN Over(c) ELSE pipeCall[c]]
  BY DEF Asks
<1>3. lands \subseteq PipeCall /\ lands \subseteq calls /\ in \in SUBSET PipeCall /\ is \in KidPlaces
  BY <1>0 DEF Kids, KidPlaces
<1>4. is # "unborn" /\ x.is # "unborn" /\ (is \in {"spawning", "up"} <=> x.is \in {"spawning", "up"})
      /\ (is \in {"spawning", "up", "dead"} <=> x.is \in {"spawning", "up", "dead"})
  OBVIOUS
<1>5. x.is \notin {"killed", "doomed"} => n = pipe.child
  BY <1>0 DEF KidsInv
<1>6. x.is \in {"killed", "doomed"} => lands = {}
  OBVIOUS
<1> HIDE DEF x, lands, in, is
<1>7. y \in Kids /\ y.is = is /\ y.out = x.out
  BY <1>0, <1>3 DEF Kids
<1>8. q \in Pipes /\ q.child = pipe.child /\ q.buffer = pipe.buffer /\ q.pending = pipe.pending \cup lands
  BY <1>0, <1>3 DEF Pipes
<1> HIDE DEF y, q
<1>9. kid' \in [Kid -> Kids] /\ kid'[n] = y /\ \A m \in Kid \ {n} : kid'[m] = kid[m]
  BY <1>0, <1>1, <1>7, KidChanges
<1>10. ASSUME NEW c \in PipeCall
       PROVE  /\ pipeCall'[c] \in PipeCalls
              /\ c \in lands => pipeCall'[c].at = "asked" /\ pipeCall'[c].kid = n
              /\ c \notin calls => pipeCall'[c] = pipeCall[c]
  <2> DEFINE z == pipeCall[c]
  <2>1. z \in PipeCalls
    BY <1>0
  <2>2. pipeCall'[c] = IF c \in lands THEN [z EXCEPT !.at = "asked", !.kid = n] ELSE IF c \in calls THEN Over(c) ELSE z
    BY <1>2
  <2> HIDE DEF z
  <2>3. [z EXCEPT !.at = "asked", !.kid = n] \in PipeCalls /\ [z EXCEPT !.at = "asked", !.kid = n].at = "asked"
        /\ [z EXCEPT !.at = "asked", !.kid = n].kid = n
    BY <2>1 DEF PipeCalls
  <2>4. QED BY <1>3, <2>1, <2>2, <2>3, OverIs DEF z
<1>11. pipeCall' \in [PipeCall -> PipeCalls]
  BY <1>2, <1>10
<1>12. PipeTypeOK'
  BY <1>0, <1>1, <1>8, <1>9, <1>11 DEF PipeTypeOK
<1>13. \A m \in Kid : /\ kid'[m].is = "unborn" <=> kid[m].is = "unborn"
                      /\ kid'[m].out = kid[m].out
                      /\ kid'[m].is \in {"spawning", "up"} <=> kid[m].is \in {"spawning", "up"}
                      /\ kid'[m].is \in {"spawning", "up", "dead"} <=> kid[m].is \in {"spawning", "up", "dead"}
  BY <1>4, <1>7, <1>9 DEF x
<1>14. KidsInv'
  <2>1. Born' /\ \A m \in Kid : Latest(m)' <=> Latest(m)
    BY <1>0, <1>13, BornStays DEF KidsInv
  <2>2. pipe.child \in Kid \cup {NoKid}
    BY <1>0 DEF Pipes
  <2>3. QED BY <1>0, <1>1, <1>8, <1>13, <2>1, <2>2 DEF KidsInv
<1>15. ToldInv'
  <2> SUFFICES ASSUME Linux
               PROVE  /\ \A c \in pipe'.pending : pipeCall'[c].at = "asked" /\ pipeCall'[c].kid = pipe'.child
                      /\ pipe'.pending # {} => Taken(pipe.child)'
    BY <1>1, <1>8 DEF ToldInv, Linux
  <2>1. ASSUME NEW c \in pipe'.pending PROVE pipeCall'[c].at = "asked" /\ pipeCall'[c].kid = pipe'.child
    <3>1. c \in PipeCall
      BY <1>1, <1>8, <2>1 DEF Pipes
    <3>2. CASE c \in lands
      BY <1>1, <1>5, <1>6, <1>8, <1>10, <3>1, <3>2
    <3>3. CASE c \in pipe.pending /\ c \notin lands
      <4>1. pipeCall[c].at = "asked" /\ pipeCall[c].kid = pipe.child /\ c \notin calls
        BY <1>0, <3>3 DEF ToldInv
      <4>2. QED BY <1>1, <1>8, <1>10, <3>1, <4>1
    <3>4. QED BY <1>1, <1>8, <2>1, <3>2, <3>3
  <2>2. ASSUME pipe'.pending # {} PROVE Taken(pipe.child)'
    <3>1. pipe.child # NoKid /\ pipe.child \in Kid \cup {NoKid} /\ kid[pipe.child].is \in {"spawning", "up", "dead"}
      <4>1. CASE lands # {}
        BY <1>0, <1>5, <1>6, <4>1 DEF Pipes, Kid, NoKid, x
      <4>2. CASE lands = {}
        BY <1>0, <1>1, <1>8, <2>2, <4>2 DEF ToldInv, Taken, Usable, Pipes
      <4>3. QED BY <4>1, <4>2
    <3>2. QED BY <1>1, <1>8, <1>13, <3>1 DEF Taken, Usable
  <2>3. QED BY <2>1, <2>2
<1>16. LinesInv'
  <2>1. PipeQuiet => PipeQuiet'
    <3>1. ASSUME PipeQuiet PROVE lands = {}
      <4>1. n # NoKid
        BY PipeAssumption DEF Kid, NoKid
      <4>2. QED BY <1>5, <1>6, <3>1, <4>1 DEF PipeQuiet
    <3>2. QED BY <1>1, <1>8, <3>1 DEF PipeQuiet
  <2>2. QED BY <1>0, <1>1, <1>8, <1>13, <2>1, LinesStay DEF Living
<1>17. QED BY <1>0, <1>12, <1>14, <1>15, <1>16 DEF PipeInv, AnswersHeard

\* A child goes on without being taken for another one: it prints, dies, or is
\* told about; the lines it has printed stay well cut.
LEMMA ChildTells ==
  ASSUME PipeInv, NEW n \in Kid, NEW y \in Kids, kid' = [kid EXCEPT ![n] = y], y.is # "unborn", kid[n].is # "unborn",
         UNCHANGED <<platform, pipe, pipeHistory>>, pipeCall' \in [PipeCall -> PipeCalls],
         Linux => \A c \in pipe.pending : pipeCall'[c] = pipeCall[c],
         y.is \in {"spawning", "up", "dead"} <=> kid[n].is \in {"spawning", "up", "dead"},
         \/ n = pipe.child /\ (pipeHistory.mixed \/ (WellCut(y.out, pipe.buffer, n) /\ (Living(y) => Ends(y.out, pipe.buffer, n))))
         \/ n # pipe.child /\ y.out = kid[n].out
  PROVE  PipeInv'
<1>0. PipeTypeOK /\ KidsInv /\ ToldInv /\ LinesInv /\ AnswersHeard /\ pipe.child \in Kid \cup {NoKid}
  BY DEF PipeInv, PipeTypeOK, Pipes
<1>1. kid' \in [Kid -> Kids] /\ kid'[n] = y /\ \A m \in Kid \ {n} : kid'[m] = kid[m]
  BY <1>0, KidChanges
<1>2. PipeTypeOK'
  BY <1>0, <1>1 DEF PipeTypeOK
<1>3. /\ \A m \in Kid : kid'[m].is = "unborn" <=> kid[m].is = "unborn"
      /\ \A m \in Kid : kid'[m].is \in {"spawning", "up", "dead"} <=> kid[m].is \in {"spawning", "up", "dead"}
  BY <1>1
<1>4. Born' /\ \A m \in Kid : Latest(m)' <=> Latest(m)
  BY <1>0, <1>3, BornStays DEF KidsInv
<1>5. KidsInv'
  BY <1>0, <1>1, <1>3, <1>4 DEF KidsInv
<1>6. ToldInv'
  <2>1. Taken(pipe.child) => Taken(pipe.child)'
    BY <1>0, <1>3 DEF Taken, Usable
  <2>2. QED BY <1>0, <2>1 DEF ToldInv, Linux
<1>7. LinesInv'
  <2> SUFFICES ASSUME ~pipeHistory.mixed, NEW m \in Kid, Latest(m)' 
               PROVE  PipeQuiet' \/ (WellCut(kid'[m].out, pipe'.buffer, m) /\ (Living(kid'[m]) => Ends(kid'[m].out, pipe'.buffer, m)))
    BY DEF LinesInv, Living
  <2>1. PipeQuiet \/ (WellCut(kid[m].out, pipe.buffer, m) /\ (Living(kid[m]) => Ends(kid[m].out, pipe.buffer, m)))
    BY <1>0, <1>4 DEF LinesInv, Living
  <2>2. PipeQuiet => PipeQuiet'
    BY DEF PipeQuiet
  <2>3. CASE m = n
    <3>1. n # pipe.child => ~Living(y)
      BY <1>0 DEF KidsInv, Living
    <3>2. QED BY <1>1, <2>1, <2>2, <2>3, <3>1
  <2>4. CASE m # n
    BY <1>1, <2>1, <2>2, <2>4
  <2>5. QED BY <2>3, <2>4
<1>8. QED BY <1>0, <1>2, <1>5, <1>6, <1>7 DEF PipeInv, AnswersHeard

LEMMA ChildStep ==
  ASSUME PipeInv, NEW n \in Kid, NEW y \in Kids, kid' = [kid EXCEPT ![n] = y], y.is # "unborn", kid[n].is # "unborn",
         UNCHANGED <<platform, pipe, pipeCall, pipeHistory>>,
         y.is \in {"spawning", "up", "dead"} <=> kid[n].is \in {"spawning", "up", "dead"},
         \/ n = pipe.child /\ (pipeHistory.mixed \/ (WellCut(y.out, pipe.buffer, n) /\ (Living(y) => Ends(y.out, pipe.buffer, n))))
         \/ n # pipe.child /\ y.out = kid[n].out
  PROVE  PipeInv'
<1>1. pipeCall' \in [PipeCall -> PipeCalls] /\ (Linux => \A c \in pipe.pending : pipeCall'[c] = pipeCall[c])
  BY DEF PipeInv, PipeTypeOK
<1>2. QED BY <1>1, ChildTells

LEMMA PipeStep1 ==
  ASSUME PipeInv, NEW c \in PipeCall, PipeStep(c) \/ AbortPipe(c)
  PROVE  PipeInv'
<1>0. /\ PipeTypeOK /\ KidsInv /\ ToldInv /\ LinesInv /\ AnswersHeard
      /\ kid \in [Kid -> Kids] /\ pipe \in Pipes /\ pipeCall \in [PipeCall -> PipeCalls] /\ pipeHistory \in PipeHistories
  BY DEF PipeInv, PipeTypeOK
<1>a. Linux => \A x \in pipe.pending : pipeCall[x].at = "asked" /\ x \in PipeCall
  BY <1>0 DEF ToldInv, Pipes
<1>1. CASE NeedsHelper(c)
  <2>1. UNCHANGED <<platform, kid, pipe, pipeHistory>> /\ pipeCall[c].at = "new" /\ (Enters(c, "process") \/ Enters(c, "installing"))
    BY <1>1 DEF NeedsHelper
  <2>2. pipeCall' \in [PipeCall -> PipeCalls] /\ \A x \in PipeCall \ {c} : pipeCall'[x] = pipeCall[x]
    BY <1>0, <2>1, CallEnters
  <2>3. Linux => \A x \in pipe.pending : pipeCall'[x] = pipeCall[x]
    BY <1>a, <2>1, <2>2
  <2>4. QED BY <1>0, <2>1, <2>2, <2>3, CallsOnly
<1>2. CASE SetupEnds(c)
  <2> DEFINE who == IF Linux THEN helperFile.installing ELSE {c}
             all(at) == [x \in PipeCall |-> IF x \notin who \/ pipeCall[x].at # "installing" THEN pipeCall[x]
                                            ELSE IF at = "over" THEN Over(x) ELSE [pipeCall[x] EXCEPT !.at = at]]
  <2>1. UNCHANGED <<platform, kid, pipe, pipeHistory>> /\ (pipeCall' = all("process") \/ pipeCall' = all("over"))
    BY <1>2 DEF SetupEnds
  <2> HIDE DEF who
  <2>2. ASSUME NEW x \in PipeCall, NEW at \in {"process", "over"}
        PROVE  /\ (IF x \notin who \/ pipeCall[x].at # "installing" THEN pipeCall[x]
                   ELSE IF at = "over" THEN Over(x) ELSE [pipeCall[x] EXCEPT !.at = at]) \in PipeCalls
    <3> DEFINE z == pipeCall[x]
    <3>1. z \in PipeCalls
      BY <1>0
    <3> HIDE DEF z
    <3>2. [z EXCEPT !.at = "process"] \in PipeCalls
      BY <3>1 DEF PipeCalls
    <3>3. QED BY <3>1, <3>2, OverIs DEF z
  <2>3. pipeCall' \in [PipeCall -> PipeCalls]
    BY <2>1, <2>2
  <2>4. \A x \in PipeCall : pipeCall[x].at = "asked" => pipeCall'[x] = pipeCall[x]
    BY <2>1
  <2>5. QED BY <1>0, <1>a, <2>1, <2>3, <2>4, CallsOnly
<1>3. CASE Starts(c)
  <2>1. PICK n \in Next1(kid) : kid' = [kid EXCEPT ![n].is = "spawning"] /\ pipe' = [pipe EXCEPT !.child = n, !.buffer = Clean]
    BY <1>3 DEF Starts
  <2>2. UNCHANGED <<platform, pipeHistory>> /\ ~Taken(pipe.child) /\ pipeCall' = [pipeCall EXCEPT ![c].at = "starting"]
        /\ pipeCall[c].at = "process"
    BY <1>3 DEF Starts
  <2>3. PICK k \in 0..MaxKids : \A m \in Kid : kid[m].is = "unborn" <=> m > k
    BY <1>0 DEF KidsInv, Born
  <2>4. n \in Kid /\ n = k + 1
    <3>1. /\ \E m \in Kid : kid[m].is = "unborn"
          /\ n = CHOOSE m \in Kid : kid[m].is = "unborn" /\ \A o \in 1..(m - 1) : kid[o].is # "unborn"
      BY <2>1 DEF Next1
    <3>2. k + 1 \in Kid /\ kid[k + 1].is = "unborn" /\ \A o \in 1..(k + 1 - 1) : kid[o].is # "unborn"
      BY <2>3, <3>1, PipeAssumption DEF Kid
    <3>3. n \in Kid /\ kid[n].is = "unborn" /\ \A o \in 1..(n - 1) : kid[o].is # "unborn"
      BY <3>1, <3>2
    <3>4. n > k /\ ~(k + 1 < n)
      BY <2>3, <3>2, <3>3, PipeAssumption DEF Kid
    <3>5. QED BY <2>3, <3>3, <3>4, PipeAssumption DEF Kid
  <2> DEFINE x == kid[n]
             y == [x EXCEPT !.is = "spawning"]
             q == [pipe EXCEPT !.child = n, !.buffer = Clean]
  <2>5. kid' = [kid EXCEPT ![n] = y] /\ pipe' = q /\ x \in Kids /\ x.is = "unborn" /\ x.out = <<>>
    BY <1>0, <2>1, <2>3, <2>4, PipeAssumption DEF Kid, KidsInv
  <2> HIDE DEF x
  <2>6. y \in Kids /\ y.is = "spawning" /\ y.out = <<>>
    BY <2>5 DEF Kids, KidPlaces
  <2>7. q \in Pipes /\ q.child = n /\ q.buffer = Clean /\ q.pending = pipe.pending
    BY <1>0, <2>4 DEF Pipes, Clean
  <2> HIDE DEF y, q
  <2>8. kid' \in [Kid -> Kids] /\ kid'[n] = y /\ \A m \in Kid \ {n} : kid'[m] = kid[m]
    BY <1>0, <2>4, <2>5, <2>6, KidChanges
  <2>9. pipeCall' \in [PipeCall -> PipeCalls] /\ \A m \in PipeCall \ {c} : pipeCall'[m] = pipeCall[m]
    BY <1>0, <2>2, CallEnters DEF Enters
  <2>10. PipeTypeOK'
    BY <1>0, <2>2, <2>5, <2>7, <2>8, <2>9 DEF PipeTypeOK
  <2>11. \A m \in Kid : kid[m].is \notin {"spawning", "up", "dead"}
    BY <1>0, <2>2 DEF KidsInv, Taken, Usable, Kid, NoKid
  <2>12. \A m \in Kid : kid'[m].is = "unborn" <=> m > k + 1
    BY <2>3, <2>4, <2>6, <2>8, PipeAssumption DEF Kid
  <2>13. n \in 1..MaxKids /\ k + 1 \in 0..MaxKids
    BY <2>3, <2>4, PipeAssumption DEF Kid
  <2>14. Born' /\ Latest(n)' /\ \A m \in Kid : Latest(m)' => m = n
    BY <2>3, <2>4, <2>12, <2>13 DEF Born, Latest, Kid
  <2>15. KidsInv'
    BY <1>0, <2>5, <2>6, <2>7, <2>8, <2>11, <2>14 DEF KidsInv
  <2>16. ToldInv'
    BY <1>0, <2>2, <2>5, <2>7 DEF ToldInv, Linux
  <2>17. WellCut(<<>>, Clean, n) /\ Ends(<<>>, Clean, n)
    BY DEF WellCut, Rest, Ends
  <2>18. LinesInv'
    <3> SUFFICES ASSUME ~pipeHistory.mixed, NEW m \in Kid, Latest(m)' 
                 PROVE  WellCut(kid'[m].out, pipe'.buffer, m) /\ Ends(kid'[m].out, pipe'.buffer, m)
      BY <2>2 DEF LinesInv, Living
    <3>1. QED BY <2>5, <2>6, <2>7, <2>8, <2>14, <2>17
  <2>19. QED BY <1>0, <2>2, <2>10, <2>15, <2>16, <2>18 DEF PipeInv, AnswersHeard
<1>4. CASE Joins(c)
  <2>1. UNCHANGED <<platform, pipeHistory>> /\ pipeCall[c].at = "process"
    BY <1>4 DEF Joins
  <2>2. CASE Enters(c, "starting") /\ UNCHANGED <<pipe, kid>>
    <3>1. pipeCall' \in [PipeCall -> PipeCalls] /\ \A x \in PipeCall \ {c} : pipeCall'[x] = pipeCall[x]
      BY <1>0, <2>2, CallEnters
    <3>2. QED BY <1>0, <1>a, <2>1, <2>2, <3>1, CallsOnly
  <2>3. CASE Taken(pipe.child) /\ Asks({c}, pipe.child)
    <3>1. pipe.child \in Kid /\ kid[pipe.child].is \in {"spawning", "up", "dead"}
      BY <1>0, <2>3 DEF Pipes, Taken, Usable
    <3>2. QED BY <2>1, <2>3, <3>1, AsksStep
  <2>4. QED BY <1>4, <2>2, <2>3 DEF Joins
<1>5. CASE TimesOut(c) \/ AbortPipe(c)
  <2> DEFINE pd == pipe.pending \ {c}
             q == [pipe EXCEPT !.pending = pd]
  <2>1. UNCHANGED <<platform, kid, pipeHistory>> /\ pipe' = q /\ Rejects({c})
    BY <1>5 DEF TimesOut, AbortPipe
  <2>2. pd \in SUBSET PipeCall /\ pd \subseteq pipe.pending /\ c \notin pd
    BY <1>0 DEF Pipes
  <2> HIDE DEF pd
  <2>3. q \in Pipes /\ q.child = pipe.child /\ q.buffer = pipe.buffer /\ q.pending = pd
    BY <1>0, <2>2 DEF Pipes
  <2> HIDE DEF q
  <2>4. pipeCall' \in [PipeCall -> PipeCalls] /\ \A x \in PipeCall \ {c} : pipeCall'[x] = pipeCall[x]
    BY <1>0, <2>1, CallsRejected
  <2>5. \A x \in pd : pipeCall'[x] = pipeCall[x]
    BY <2>2, <2>4
  <2>6. QED BY <2>1, <2>2, <2>3, <2>4, <2>5, CallsOnly
<1>6. QED BY <1>1, <1>2, <1>3, <1>4, <1>5 DEF PipeStep

LEMMA KidStep1 ==
  ASSUME PipeInv, NEW n \in Kid, Spawned(n) \/ SpawnFails(n) \/ KidDies(n) \/ ExitEvent(n) \/ \E c \in PipeCall : HelperDoes(n, c)
  PROVE  PipeInv'
<1> DEFINE x == kid[n]
<1>0. /\ PipeTypeOK /\ KidsInv /\ ToldInv /\ LinesInv /\ AnswersHeard /\ x \in Kids
      /\ kid \in [Kid -> Kids] /\ pipe \in Pipes /\ pipeCall \in [PipeCall -> PipeCalls] /\ pipeHistory \in PipeHistories
  BY DEF PipeInv, PipeTypeOK
<1>a. n # NoKid
  BY PipeAssumption DEF Kid, NoKid
<1>b. x.is \in {"spawning", "up", "dead"} => n = pipe.child /\ Latest(n) /\ ~PipeQuiet
  BY <1>0, <1>a DEF KidsInv, PipeQuiet
<1>c. x.is \in {"spawning", "up", "dead"} => pipeHistory.mixed \/ (WellCut(x.out, pipe.buffer, n) /\ (Living(x) => Ends(x.out, pipe.buffer, n)))
  BY <1>0, <1>b DEF LinesInv, Living
<1>1. CASE Spawned(n)
  <2>1. {c \in PipeCall : pipeCall[c].at = "starting"} \in SUBSET PipeCall
    OBVIOUS
  <2>2. QED BY <1>1, <2>1, AsksStep DEF Spawned, Doomed
\* The child is over: who waits is told on Linux, and the client forgets it.
<1>d. ASSUME x.is \in {"spawning", "dead"}, kid' = [kid EXCEPT ![n].is = "gone"], NEW calls, Rejects(calls),
             UNCHANGED <<platform, pipeHistory>>, pipe' \in Pipes, pipe'.child = NoKid,
             Linux => pipe'.pending = {}, pipe'.buffer = pipe.buffer \/ PipeQuiet'
      PROVE  PipeInv'
  <2> DEFINE y == [x EXCEPT !.is = "gone"]
  <2>1. kid' = [kid EXCEPT ![n] = y]
    BY <1>d
  <2>a. x.is # "unborn" /\ x.is \in {"spawning", "up", "dead"}
    BY <1>d
  <2> HIDE DEF x
  <2>2. y \in Kids /\ y.is = "gone" /\ y.out = x.out
    BY <1>0 DEF Kids, KidPlaces
  <2> HIDE DEF y
  <2>3. kid' \in [Kid -> Kids] /\ kid'[n] = y /\ \A m \in Kid \ {n} : kid'[m] = kid[m]
    BY <1>0, <2>1, <2>2, KidChanges
  <2>4. pipeCall' \in [PipeCall -> PipeCalls]
    BY <1>0, <1>d, CallsRejected
  <2>5. PipeTypeOK'
    BY <1>0, <1>d, <2>3, <2>4 DEF PipeTypeOK
  <2>6. \A m \in Kid : kid'[m].is = "unborn" <=> kid[m].is = "unborn"
    BY <2>2, <2>3, <2>a DEF x
  <2>7. Born' /\ \A m \in Kid : Latest(m)' <=> Latest(m)
    BY <1>0, <2>6, BornStays DEF KidsInv
  <2>8. \A m \in Kid : kid'[m].is \notin {"spawning", "up", "dead"}
    BY <1>0, <1>b, <2>2, <2>3, <2>a DEF KidsInv
  <2>9. KidsInv'
    BY <1>0, <1>d, <2>2, <2>3, <2>7, <2>8 DEF KidsInv
  <2>10. ToldInv'
    BY <1>d DEF ToldInv, Linux
  <2>11. LinesInv'
    <3> SUFFICES ASSUME ~pipeHistory.mixed, NEW m \in Kid, Latest(m)', ~PipeQuiet'
                 PROVE  WellCut(kid'[m].out, pipe'.buffer, m) /\ ~Living(kid'[m])
      BY <1>d DEF LinesInv, Living
    <3>1. pipe'.buffer = pipe.buffer /\ Latest(m) /\ ~Living(kid'[m])
      BY <1>d, <2>7, <2>8 DEF Living
    <3>2. kid'[m].out = kid[m].out
      BY <2>2, <2>3 DEF x
    <3>3. ~PipeQuiet
      BY <1>b, <2>a
    <3>4. WellCut(kid[m].out, pipe.buffer, m)
      BY <1>0, <3>1, <3>3 DEF LinesInv, Living
    <3>5. QED BY <3>1, <3>2, <3>4
  <2>12. QED BY <1>0, <1>d, <2>5, <2>9, <2>10, <2>11 DEF PipeInv, AnswersHeard
<1>7. CASE SpawnFails(n) /\ Doomed(n)
  <2> DEFINE y == [x EXCEPT !.is = "gone"]
             calls == {c \in PipeCall : pipeCall[c].at = "starting"}
  <2>1. x.is = "doomed" /\ kid' = [kid EXCEPT ![n] = y] /\ UNCHANGED <<platform, pipeHistory>>
    BY <1>7 DEF SpawnFails, Doomed
  <2>2. n # pipe.child
    BY <1>0, <1>a, <2>1 DEF KidsInv
  <2>3. pipe' = pipe /\ Rejects(calls)
    <3>1. calls \cup (IF Linux /\ pipe.child = n THEN pipe.pending ELSE {}) = calls
      BY <2>2
    <3>2. Rejects(calls \cup (IF Linux /\ pipe.child = n THEN pipe.pending ELSE {}))
      BY <1>7 DEF SpawnFails
    <3>3. pipe' = pipe
      BY <1>7, <2>2 DEF SpawnFails
    <3>4. QED BY <3>1, <3>2, <3>3
  <2>4. pipeCall' \in [PipeCall -> PipeCalls] /\ \A c \in PipeCall \ calls : pipeCall'[c] = pipeCall[c]
    BY <1>0, <2>3, CallsRejected
  <2>5. Linux => \A c \in pipe.pending : pipeCall'[c] = pipeCall[c]
    BY <1>0, <2>4 DEF ToldInv, Pipes
  <2>6. kid[n].is = "doomed" /\ kid[n].out = x.out
    BY <2>1
  <2> HIDE DEF x, calls
  <2>7. y \in Kids /\ y.is = "gone" /\ y.out = x.out
    BY <1>0 DEF Kids, KidPlaces
  <2> HIDE DEF y
  <2>8. QED BY <2>1, <2>2, <2>3, <2>4, <2>5, <2>6, <2>7, ChildTells
<1>2. CASE SpawnFails(n) /\ ~Doomed(n)
  <2> DEFINE pd == IF Linux THEN {} ELSE pipe.pending
             q == [pipe EXCEPT !.child = NoKid, !.pending = pd]
  <2>1. x.is = "spawning" /\ kid' = [kid EXCEPT ![n].is = "gone"] /\ UNCHANGED <<platform, pipeHistory>>
    BY <1>2 DEF SpawnFails, Doomed
  <2>2. pipe' = q
    BY <1>2, <1>b, <2>1 DEF SpawnFails
  <2>3. pd \in SUBSET PipeCall /\ (Linux => pd = {})
    BY <1>0 DEF Pipes
  <2> HIDE DEF pd
  <2>4. q \in Pipes /\ q.child = NoKid /\ q.pending = pd /\ q.buffer = pipe.buffer
    BY <1>0, <2>3 DEF Pipes
  <2> HIDE DEF q
  <2>5. \E calls : Rejects(calls)
    BY <1>2 DEF SpawnFails
  <2>6. QED BY <1>d, <2>1, <2>2, <2>3, <2>4, <2>5
<1>3. CASE ExitEvent(n)
  <2>1. x.is = "dead" /\ kid' = [kid EXCEPT ![n].is = "gone"] /\ UNCHANGED <<platform, pipeHistory>> /\ pipe.child = n
    BY <1>3, <1>b DEF ExitEvent
  <2>2. CASE Linux
    <3>1. pipe' = [child |-> NoKid, buffer |-> Clean, pending |-> {}] /\ Rejects(pipe.pending)
      BY <1>3, <2>1, <2>2 DEF ExitEvent
    <3>2. pipe' \in Pipes /\ PipeQuiet'
      BY <3>1 DEF Pipes, Clean, PipeQuiet
    <3>3. QED BY <1>d, <2>1, <3>1, <3>2
  <2>3. CASE ~Linux
    <3> DEFINE q == [pipe EXCEPT !.child = NoKid]
    <3>1. pipe' = q /\ UNCHANGED pipeCall
      BY <1>3, <2>1, <2>3 DEF ExitEvent
    <3>2. q \in Pipes /\ q.child = NoKid /\ q.buffer = pipe.buffer
      BY <1>0 DEF Pipes
    <3>3. Rejects({})
      BY <1>0, <3>1 DEF Rejects
    <3> HIDE DEF q
    <3>4. QED BY <1>d, <2>1, <2>3, <3>1, <3>2, <3>3
  <2>4. QED BY <2>2, <2>3
<1>4. CASE KidDies(n)
  <2>1. x.is = "up" /\ UNCHANGED <<platform, pipe, pipeCall, pipeHistory>>
    BY <1>4 DEF KidDies
  <2>2. PICK half \in {<<>>} \cup {<<<<"head", c>>>> : c \in x.inbox} :
          kid' = [kid EXCEPT ![n] = [is |-> "dead", inbox |-> {}, out |-> x.out \o half]]
    BY <1>4 DEF KidDies
  <2> DEFINE o == x.out \o half
             y == [is |-> "dead", inbox |-> {}, out |-> o]
  <2>3. o \in Seq(Chunks) /\ (pipeHistory.mixed \/ WellCut(o, pipe.buffer, n))
    <3>1. x.out \in Seq(Chunks) /\ Living(x)
      BY <1>0, <2>1 DEF Kids, Living
    <3>2. CASE half = <<>>
      <4>1. o = x.out
        BY <3>1, <3>2
      <4>2. QED BY <1>c, <2>1, <3>1, <4>1
    <3>3. ASSUME NEW c \in x.inbox, half = <<<<"head", c>>>> PROVE o \in Seq(Chunks) /\ (pipeHistory.mixed \/ WellCut(o, pipe.buffer, n))
      <4> DEFINE h == <<"head", c>>
      <4>1. h \in Chunks /\ Needs(h, n) = Clean
        BY <1>0, <3>3 DEF Chunks, Kids, Needs
      <4>2. o = Append(x.out, h)
        BY <3>1, <3>3
      <4>3. pipeHistory.mixed \/ (WellCut(x.out, pipe.buffer, n) /\ Rest(x.out, pipe.buffer, n, Len(x.out)) = Clean)
        BY <1>c, <2>1, <3>1 DEF Ends
      <4> HIDE DEF h, o, x
      <4>4. QED BY <3>1, <4>1, <4>2, <4>3, PrintsOn
    <3>4. QED BY <2>2, <3>2, <3>3
  <2> HIDE DEF o
  <2>4. y \in Kids /\ y.is = "dead" /\ y.out = o /\ (~Living(y)) /\ kid' = [kid EXCEPT ![n] = y]
    BY <2>2, <2>3 DEF Kids, KidPlaces, Living, o
  <2> HIDE DEF y
  <2>5. n = pipe.child
    BY <1>b, <2>1
  <2>6. QED BY <2>1, <2>3, <2>4, <2>5, ChildStep
<1>5. ASSUME NEW c \in PipeCall, HelperDoes(n, c) PROVE PipeInv'
  <2>1. x.is \in {"up", "killed"} /\ c \in x.inbox /\ UNCHANGED <<platform, pipe, pipeCall, pipeHistory>>
    BY <1>5 DEF HelperDoes
  <2>2. PICK line \in {<<"whole">>, <<"head", "tail">>} :
          kid' = [kid EXCEPT ![n].inbox = @ \ {c}, ![n].out = IF kid[n].is = "killed" THEN @ ELSE @ \o [i \in DOMAIN line |-> <<line[i], c>>]]
    BY <1>5 DEF HelperDoes
  <2> DEFINE chunks == [i \in DOMAIN line |-> <<line[i], c>>]
             o == IF x.is = "killed" THEN x.out ELSE x.out \o chunks
             in == x.inbox \ {c}
             y == [x EXCEPT !.inbox = in, !.out = o]
  <2>3. kid' = [kid EXCEPT ![n] = y]
    BY <2>2
  <2>4. x.out \in Seq(Chunks) /\ in \in SUBSET PipeCall
    BY <1>0 DEF Kids
  <2>5. o \in Seq(Chunks) /\ (x.is = "killed" \/ pipeHistory.mixed \/ (WellCut(o, pipe.buffer, n) /\ Ends(o, pipe.buffer, n)))
    <3>1. CASE x.is = "killed"
      BY <2>4, <3>1
    <3>2. CASE x.is = "up"
      <4> DEFINE w == <<"whole", c>>
                 h == <<"head", c>>
                 t == <<"tail", c>>
                 oh == Append(x.out, h)
      <4>1. /\ w \in Chunks /\ h \in Chunks /\ t \in Chunks
            /\ Needs(w, n) = Clean /\ Needs(h, n) = Clean /\ Needs(t, n) = LeavesRest(h, n)
            /\ LeavesRest(w, n) = Clean /\ LeavesRest(t, n) = Clean
        BY DEF Chunks, Needs, LeavesRest
      <4>2. pipeHistory.mixed \/ (WellCut(x.out, pipe.buffer, n) /\ Rest(x.out, pipe.buffer, n, Len(x.out)) = Clean)
        BY <1>c, <3>2 DEF Ends, Living
      <4>3. CASE line = <<"whole">>
        <5>1. o = Append(x.out, w)
          <6>1. chunks = <<w>>
            BY <4>3
          <6>2. QED BY <2>4, <3>2, <6>1
        <5> HIDE DEF o, w, h, t, x
        <5>2. QED BY <2>4, <4>1, <4>2, <5>1, PrintsOn DEF Ends
      <4>4. CASE line = <<"head", "tail">>
        <5>1. o = Append(oh, t)
          <6>1. chunks = <<h, t>>
            BY <4>4
          <6>2. h \in Chunks /\ t \in Chunks
            BY <4>1
          <6> HIDE DEF chunks, h, t
          <6>3. QED BY <2>4, <3>2, <6>1, <6>2
        <5> HIDE DEF o, w, h, t, x, oh
        <5>2. oh \in Seq(Chunks) /\ (pipeHistory.mixed \/ (WellCut(oh, pipe.buffer, n) /\ Rest(oh, pipe.buffer, n, Len(oh)) = LeavesRest(h, n)))
          BY <2>4, <4>1, <4>2, PrintsOn DEF oh
        <5>3. QED BY <4>1, <5>1, <5>2, PrintsOn DEF Ends
      <4>5. QED BY <4>3, <4>4
    <3>3. QED BY <2>1, <3>1, <3>2
  <2>6. x.is = "killed" => o = x.out
    OBVIOUS
  <2> HIDE DEF o, in, x
  <2>7. y \in Kids /\ y.is = x.is /\ y.out = o
    BY <1>0, <2>4, <2>5 DEF Kids, Living
  <2>8. x.is = "killed" => n # pipe.child
    BY <1>0, <2>1, <1>a DEF KidsInv, x
  <2> HIDE DEF y
  <2>9. y.is # "unborn" /\ kid[n].is # "unborn" /\ y.is = kid[n].is /\ y.is \in {"up", "killed"} /\ x = kid[n]
    BY <2>1, <2>7 DEF x
  <2>10. CASE x.is = "killed"
    <3>1. n # pipe.child /\ y.out = kid[n].out
      BY <2>6, <2>7, <2>8, <2>9, <2>10
    <3>2. QED BY <2>1, <2>3, <2>7, <2>9, <3>1, ChildStep
  <2>11. CASE x.is = "up"
    <3>1. n = pipe.child /\ (pipeHistory.mixed \/ (WellCut(y.out, pipe.buffer, n) /\ Ends(y.out, pipe.buffer, n)))
      BY <1>b, <2>5, <2>7, <2>11
    <3>2. QED BY <2>1, <2>3, <2>7, <2>9, <3>1, ChildStep
  <2>12. QED BY <2>1, <2>10, <2>11
<1>6. QED BY <1>1, <1>2, <1>3, <1>4, <1>5, <1>7

LEMMA AnswersTypes ==
  ASSUME PipeTypeOK, NEW c \in PipeCall, Answers(c)
  PROVE  /\ pipeCall' \in [PipeCall -> PipeCalls] /\ \A x \in PipeCall \ {c} : pipeCall'[x] = pipeCall[x]
<1> DEFINE x == pipeCall[c]
           q == IF x.stage = "ready" THEN [at |-> "new", stage |-> "work", kid |-> NoKid] ELSE Over(c)
<1>1. pipeCall' = pipeCall \/ pipeCall' = [pipeCall EXCEPT ![c] = q] \/ Rejects({c})
  BY DEF Answers
<1>2. q \in PipeCalls
  BY OverIs DEF PipeCalls
<1> HIDE DEF q
<1>3. QED BY <1>1, <1>2, CallMoves, CallsRejected DEF PipeTypeOK

LEMMA ReadsStep ==
  ASSUME PipeInv, NEW n \in Kid, Reads(n)
  PROVE  PipeInv'
<1> DEFINE x == kid[n]
           out == x.out
           chunk == Head(out)
           c == chunk[2]
           tl == Tail(out)
           y == [x EXCEPT !.out = tl]
           late == \E m \in Kid : m > n /\ kid[m].is # "unborn"
           complete == pipe.buffer = IF chunk[1] = "whole" THEN Clean ELSE {<<n, c>>}
           lost == IF complete \/ chunk[1] = "head" THEN {} ELSE {c} \cap pipe.pending
           bf == IF chunk[1] = "head" THEN pipe.buffer \cup {<<n, c>>} ELSE Clean
           pd == IF chunk[1] # "head" /\ complete THEN pipe.pending \ {c} ELSE pipe.pending
           q == [pipe EXCEPT !.buffer = bf, !.pending = pd]
           mx == pipeHistory.mixed \/ late
           z == [lost |-> pipeHistory.lost \cup lost, mixed |-> mx]
<1>0. /\ PipeTypeOK /\ KidsInv /\ ToldInv /\ LinesInv /\ AnswersHeard /\ x \in Kids
      /\ kid \in [Kid -> Kids] /\ pipe \in Pipes /\ pipeCall \in [PipeCall -> PipeCalls] /\ pipeHistory \in PipeHistories
  BY DEF PipeInv, PipeTypeOK
<1>1. /\ out # <<>> /\ kid' = [kid EXCEPT ![n] = y] /\ UNCHANGED platform
      /\ pipeHistory' = z
      /\ IF complete /\ chunk[1] # "head" THEN Answers(c) ELSE UNCHANGED pipeCall
  BY DEF Reads
<1>2. pipe' = q
  <2>1. CASE chunk[1] = "head"
    <3>1. pipe' = [pipe EXCEPT !.buffer = @ \cup {<<n, c>>}]
      BY <2>1 DEF Reads
    <3>2. QED BY <1>0, <2>1, <3>1 DEF Pipes
  <2>2. CASE chunk[1] # "head"
    <3>1. pipe' = [pipe EXCEPT !.buffer = Clean, !.pending = IF complete THEN @ \ {c} ELSE @]
      BY <2>2 DEF Reads
    <3>2. QED BY <1>0, <2>2, <3>1 DEF Pipes
  <2>3. QED BY <2>1, <2>2
<1>3. out \in Seq(Chunks) /\ chunk \in Chunks /\ tl \in Seq(Chunks) /\ c \in PipeCall /\ chunk[1] \in {"whole", "head", "tail"}
  <2>1. out \in Seq(Chunks)
    BY <1>0 DEF Kids
  <2>2. chunk \in Chunks /\ tl \in Seq(Chunks)
    BY <1>1, <2>1
  <2> HIDE DEF chunk
  <2>3. QED BY <2>1, <2>2 DEF Chunks
<1>4. Latest(n) <=> ~late
  <2>1. x.is # "unborn"
    BY <1>0, <1>1 DEF KidsInv
  <2>2. QED BY <2>1 DEF Latest
<1>5. WellCut(out, pipe.buffer, n) => /\ pipe.buffer = Needs(chunk, n) /\ WellCut(tl, LeavesRest(chunk, n), n)
                                      /\ Ends(out, pipe.buffer, n) => Ends(tl, LeavesRest(chunk, n), n)
  BY <1>1, <1>3, ReadsOn
<1> HIDE DEF chunk, tl, late
<1>6. pipe.buffer = Needs(chunk, n) => lost = {} /\ bf = LeavesRest(chunk, n)
  BY <1>3 DEF Needs, LeavesRest, Clean
<1>7. lost \subseteq pipe.pending /\ pd \subseteq pipe.pending /\ pd \in SUBSET PipeCall /\ bf \in SUBSET (Kid \X PipeCall) /\ mx \in BOOLEAN
  BY <1>0, <1>3 DEF Pipes, PipeHistories, Clean
<1>8. (complete /\ chunk[1] # "head") => c \notin pd
  OBVIOUS
<1> HIDE DEF x
<1>9. y \in Kids /\ y.is = x.is /\ y.out = tl
  BY <1>0, <1>3 DEF Kids
<1>10. kid' \in [Kid -> Kids] /\ kid'[n] = y /\ \A m \in Kid \ {n} : kid'[m] = kid[m]
  BY <1>0, <1>1, <1>9, KidChanges
<1> HIDE DEF y, bf, pd, lost
<1>11. q \in Pipes /\ q.child = pipe.child /\ q.buffer = bf /\ q.pending = pd
  BY <1>0, <1>7 DEF Pipes
<1>12. pipeCall' \in [PipeCall -> PipeCalls] /\ \A m \in pd : pipeCall'[m] = pipeCall[m]
  BY <1>0, <1>1, <1>3, <1>7, <1>8, AnswersTypes
<1> HIDE DEF q, complete, c
<1>13. pipeHistory' \in PipeHistories /\ pipeHistory'.mixed = mx /\ pipeHistory'.lost = pipeHistory.lost \cup lost
  <2>1. lost \in SUBSET PipeCall
    BY <1>0, <1>7 DEF Pipes
  <2>2. QED BY <1>0, <1>1, <1>7, <2>1 DEF PipeHistories
<1>14. PipeTypeOK'
  BY <1>0, <1>2, <1>10, <1>11, <1>12, <1>13 DEF PipeTypeOK
<1>15. \A m \in Kid : kid'[m].is = kid[m].is
  BY <1>9, <1>10 DEF x
<1>16. Born' /\ \A m \in Kid : Latest(m)' <=> Latest(m)
  BY <1>0, <1>15, BornStays DEF KidsInv
<1>17. kid[n].is # "unborn"
  BY <1>0, <1>1 DEF KidsInv, x
<1>18. KidsInv'
  BY <1>0, <1>2, <1>10, <1>11, <1>15, <1>16, <1>17 DEF KidsInv, Pipes
<1>19. ToldInv'
  <2>1. Taken(pipe.child) => Taken(pipe.child)'
    BY <1>0, <1>2, <1>11, <1>15 DEF Taken, Usable, Pipes
  <2>2. QED BY <1>0, <1>1, <1>2, <1>7, <1>11, <1>12, <2>1 DEF ToldInv, Linux
<1>20. mx \/ (lost = {} /\ (PipeQuiet' \/ (WellCut(tl, bf, n) /\ (Living(x) => Ends(tl, bf, n)))))
  <2> SUFFICES ASSUME ~mx PROVE lost = {} /\ (PipeQuiet' \/ (WellCut(tl, bf, n) /\ (Living(x) => Ends(tl, bf, n))))
    OBVIOUS
  <2>1. PipeQuiet \/ (WellCut(x.out, pipe.buffer, n) /\ (Living(x) => Ends(x.out, pipe.buffer, n)))
    BY <1>0, <1>4 DEF LinesInv, Living, x
  <2>2. CASE PipeQuiet
    BY <1>2, <1>7, <1>11, <2>2 DEF PipeQuiet
  <2>3. CASE WellCut(x.out, pipe.buffer, n) /\ (Living(x) => Ends(x.out, pipe.buffer, n))
    BY <1>5, <1>6, <2>3
  <2>4. QED BY <2>1, <2>2, <2>3
<1>21. LinesInv'
  <2> SUFFICES ASSUME ~pipeHistory'.mixed, NEW m \in Kid, Latest(m)'
               PROVE  PipeQuiet' \/ (WellCut(kid'[m].out, pipe'.buffer, m) /\ (Living(kid'[m]) => Ends(kid'[m].out, pipe'.buffer, m)))
    BY DEF LinesInv, Living
  <2>1. Latest(m) /\ Latest(n) /\ ~mx
    BY <1>4, <1>13, <1>16
  <2>2. m = n
    BY <2>1 DEF Latest, Kid
  <2>3. QED BY <1>2, <1>9, <1>10, <1>11, <1>20, <2>1, <2>2 DEF Living
<1>22. AnswersHeard'
  BY <1>0, <1>13, <1>20 DEF AnswersHeard
<1>23. QED BY <1>14, <1>18, <1>19, <1>21, <1>22 DEF PipeInv

LEMMA DisposeStep ==
  ASSUME PipeInv, Dispose
  PROVE  PipeInv'
<1> DEFINE n == pipe.child
<1>0. /\ PipeTypeOK /\ KidsInv /\ ToldInv /\ LinesInv /\ AnswersHeard /\ n \in Kid \cup {NoKid}
      /\ kid \in [Kid -> Kids] /\ pipe \in Pipes /\ pipeCall \in [PipeCall -> PipeCalls] /\ pipeHistory \in PipeHistories
  BY DEF PipeInv, PipeTypeOK, Pipes
<1>1. pipe' = [child |-> NoKid, buffer |-> Clean, pending |-> {}] /\ UNCHANGED <<platform, pipeHistory>>
  BY DEF Dispose
<1>2. pipe' \in Pipes /\ PipeQuiet' /\ pipe'.child = NoKid /\ pipe'.pending = {}
  BY <1>1 DEF Pipes, Clean, PipeQuiet
<1>3. pipeCall' \in [PipeCall -> PipeCalls]
  <2>1. \E calls : Rejects(calls)
    BY DEF Dispose
  <2>2. QED BY <1>0, <2>1, CallsRejected
<1>4. /\ kid' \in [Kid -> Kids]
      /\ \A m \in Kid : /\ kid'[m].is = "unborn" <=> kid[m].is = "unborn"
                        /\ kid'[m].is = "unborn" => kid'[m].out = <<>>
                        /\ kid'[m].is \notin {"spawning", "up", "dead"}
  <2>1. CASE n = NoKid
    <3>1. kid' = kid
      BY <2>1 DEF Dispose
    <3>2. \A m \in Kid : m # NoKid
      BY PipeAssumption DEF Kid, NoKid
    <3>3. QED BY <1>0, <2>1, <3>1, <3>2 DEF KidsInv
  <2>2. CASE n # NoKid
    <3> DEFINE x == kid[n]
               none == <<>>
               is == IF Linux /\ x.is = "spawning" THEN "doomed" ELSE "killed"
               y == [x EXCEPT !.is = is, !.out = none]
    <3>b. n \in Kid /\ x \in Kids /\ kid[n].is # "unborn"
      BY <1>0, <2>2 DEF KidsInv
    <3>c. kid' = [kid EXCEPT ![n].is = IF Linux /\ @ = "spawning" THEN "doomed" ELSE "killed", ![n].out = <<>>]
      BY <2>2 DEF Dispose
    <3>1. n \in Kid /\ x \in Kids /\ kid' = [kid EXCEPT ![n] = y] /\ kid[n].is # "unborn"
      BY <1>0, <3>b, <3>c
    <3>a. none \in Seq(Chunks) /\ is \in {"doomed", "killed"}
      OBVIOUS
    <3> HIDE DEF x, none, is
    <3>2. y \in Kids /\ y.is \in {"doomed", "killed"} /\ y.out = none
      BY <3>1, <3>a DEF Kids, KidPlaces
    <3> HIDE DEF y
    <3>3. kid' \in [Kid -> Kids] /\ kid'[n] = y /\ \A m \in Kid \ {n} : kid'[m] = kid[m]
      BY <1>0, <3>1, <3>2, KidChanges
    <3>4. QED BY <1>0, <3>1, <3>2, <3>3 DEF KidsInv, none
  <2>3. QED BY <2>1, <2>2
<1>5. Born' /\ \A m \in Kid : Latest(m)' <=> Latest(m)
  BY <1>0, <1>4, BornStays DEF KidsInv
<1>6. KidsInv'
  BY <1>2, <1>4, <1>5 DEF KidsInv
<1>7. QED BY <1>0, <1>1, <1>2, <1>3, <1>4, <1>6 DEF PipeInv, PipeTypeOK, ToldInv, LinesInv, AnswersHeard

\* PipeSound: nobody waits for an answer that has been read whole, unless another
\* child started before it was read, and on Linux nobody for one that a child whose
\* end was told would have to give (linux/helper.ts: onStdout, the exit handler,
\* dispose).
THEOREM NobodyWaitsInVain == PipeSpec => []PipeSound
<1>1. ASSUME PipeInv, [PipeNext]_pipeVars PROVE PipeInv'
  <2>1. ASSUME NEW c \in PipeCall, PipeStep(c) \/ AbortPipe(c) PROVE PipeInv'
    BY <1>1, <2>1, PipeStep1
  <2>2. ASSUME NEW n \in Kid, KidStep(n) \/ SpawnFails(n) \/ KidDies(n) \/ \E c \in PipeCall : HelperDoes(n, c) PROVE PipeInv'
    BY <1>1, <2>2, KidStep1, ReadsStep DEF KidStep
  <2>3. CASE Dispose
    BY <1>1, <2>3, DisposeStep
  <2>4. CASE UNCHANGED pipeVars
    BY <1>1, <2>4 DEF pipeVars, PipeInv, PipeTypeOK, KidsInv, Born, Latest, ToldInv, Taken, Usable, Linux, LinesInv, PipeQuiet, AnswersHeard
  <2>5. QED BY <1>1, <2>1, <2>2, <2>3, <2>4 DEF PipeNext
<1>2. PipeInv => PipeSound
  BY DEF PipeInv, ToldInv, PipeSound, GoneIsTold
<1>3. QED BY PipeStart, <1>1, <1>2, PTL DEF PipeSpec

--------------------------------------------------------------------------------
(* HelperSetup: one signing identity, and a whole application in its place.   *)

AppSources == {"none", "bundle", "binary", "older", "other"}
Identities == {"", "developer", "local", "adhoc"}
Apps == [src : AppSources, sig : Identities \cup {"none", "release"}, whole : BOOLEAN, hash : BOOLEAN]
Directories == [staging : Apps, backup : Apps]
Histories == [had : BOOLEAN, stolen : BOOLEAN, spoilt : BOOLEAN, allowed : BOOLEAN, signed : BOOLEAN]
Thens == {"", "dead", "read", "upgrade", "decide", "stage"}
LockPlaces == {"locked", "create", "unlock"}
InstallPlaces ==
  Thens \cup LockPlaces \cup {"new", "find", "lock", "clear", "compare", "remove", "copy", "copying",
                              "replace", "moveOld", "moveNew", "dropOld", "restore", "done", "failed"}
Installers == [at : InstallPlaces, then : Thens, id : Identities, known : BOOLEAN]

SetupTypeOK ==
  /\ app \in Apps /\ aside \in [Installer -> Directories] /\ inst \in [Installer -> Installers]
  /\ signLock \in Installer \cup {NoOne} /\ setupHistory \in Histories

\* A live installer that made the lock has it, and creates an identity only if
\* there is none.
HoldsLock(x) == x.at \in LockPlaces /\ x.then # "dead"
LockOwned == \A p \in Installer : HoldsLock(inst[p]) => signLock = p
CreatesFirst == \A p \in Installer : inst[p].at = "create" /\ inst[p].then # "dead" => keychain = {}
IdentityInv == setupHistory.stolen \/ (LockOwned /\ CreatesFirst /\ (keychain = {} \/ \E q : keychain = {q}))

\* Who removed the application, or has it aside and will bring it back if need be.
Brings(q) == inst[q].at \in {"copy", "copying"} \/ (inst[q].at \in {"moveNew", "restore"} /\ aside[q].backup.whole)
Whole ==
  /\ ~There => \E q \in Installer : Brings(q)
  /\ There => app.whole \/ \E q \in Installer : inst[q].at = "copying"
  /\ \A q \in Installer : aside[q].backup.whole \/ aside[q].backup = NoApp
  /\ \A q \in Installer : inst[q].at \in {"replace", "moveOld", "moveNew"} => aside[q].staging.whole
KeptInv == setupHistory.had /\ ~setupHistory.spoilt => Whole

SetupInv == SetupTypeOK /\ IdentityInv /\ KeptInv

\* An installer moves to a place.
LEMMA MovesTo ==
  ASSUME SetupTypeOK, NEW p \in Installer, NEW at \in InstallPlaces, Moves(p, at)
  PROVE  \E q \in Installers : inst' = [inst EXCEPT ![p] = q] /\ q.at = at
<1> DEFINE x == inst[p]
           q == IF at \in {"replace", "done", "failed"} THEN Ended(at) ELSE [x EXCEPT !.at = at]
<1>1. x \in Installers
  BY DEF SetupTypeOK
<1>2. inst' = [inst EXCEPT ![p] = q]
  BY DEF Moves
<1> HIDE DEF x
<1>3. q \in Installers /\ q.at = at
  BY <1>1 DEF Installers, Ended, Thens, Identities
<1>4. QED BY <1>2, <1>3 DEF x

LEMMA IdentifiesTo ==
  ASSUME SetupTypeOK, NEW p \in Installer, NEW then \in Thens, Identify(p, then)
  PROVE  \E q \in Installers : inst' = [inst EXCEPT ![p] = q] /\ q.at = "find"
<1> DEFINE x == inst[p]
           q == [x EXCEPT !.at = "find", !.then = then]
<1>1. x \in Installers
  BY DEF SetupTypeOK
<1>2. inst' = [inst EXCEPT ![p] = q]
  BY DEF Identify
<1> HIDE DEF x
<1>3. q \in Installers /\ q.at = "find"
  BY <1>1 DEF Installers, InstallPlaces
<1>4. QED BY <1>2, <1>3 DEF x

LEMMA IdentifiedTo ==
  ASSUME SetupTypeOK, NEW p \in Installer, NEW id \in Identities, Identified(p, id)
  PROVE  \E q \in Installers : inst' = [inst EXCEPT ![p] = q] /\ q.at \in Thens
<1> DEFINE x == inst[p]
           q == [x EXCEPT !.at = x.then, !.id = id]
<1>1. x \in Installers
  BY DEF SetupTypeOK
<1>2. inst' = [inst EXCEPT ![p] = q]
  BY DEF Identified
<1> HIDE DEF x
<1>3. q \in Installers /\ q.at \in Thens
  BY <1>1 DEF Installers, InstallPlaces
<1>4. QED BY <1>2, <1>3 DEF x

LEMMA WithIdentityTo ==
  ASSUME SetupTypeOK, NEW p \in Installer, NEW id \in Identities, inst' = [inst EXCEPT ![p].at = "unlock", ![p].id = id]
  PROVE  \E q \in Installers : inst' = [inst EXCEPT ![p] = q] /\ q.at = "unlock"
<1> DEFINE x == inst[p]
           q == [x EXCEPT !.at = "unlock", !.id = id]
<1>1. x \in Installers
  BY DEF SetupTypeOK
<1>2. inst' = [inst EXCEPT ![p] = q]
  OBVIOUS
<1> HIDE DEF x
<1>3. q \in Installers /\ q.at = "unlock"
  BY <1>1 DEF Installers, InstallPlaces, LockPlaces
<1>4. QED BY <1>2, <1>3 DEF x

\* What the identities do is no business of the lock's other users: an installer
\* at any place that is not under the lock keeps the identities in order.
LEMMA IdentityStays ==
  ASSUME SetupTypeOK, IdentityInv, NEW p \in Installer, NEW q \in Installers, inst' = [inst EXCEPT ![p] = q],
         ~HoldsLock(q), UNCHANGED <<keychain, signLock>>, setupHistory'.stolen = setupHistory.stolen
  PROVE  IdentityInv'
BY DEF SetupTypeOK, IdentityInv, LockOwned, CreatesFirst, HoldsLock, LockPlaces

\* And one that neither leaves nor enters the replacement keeps the application.
LEMMA KeptStays ==
  ASSUME SetupTypeOK, KeptInv, NEW p \in Installer, NEW q \in Installers, inst' = [inst EXCEPT ![p] = q],
         inst[p].at \notin {"copy", "copying", "moveNew", "restore"} \/ q.at = inst[p].at,
         q.at \notin {"replace", "moveOld", "moveNew"} \/ inst[p].at \in {"replace", "moveOld", "moveNew"},
         UNCHANGED <<app, aside>>, setupHistory'.had = setupHistory.had, setupHistory'.spoilt = setupHistory.spoilt
  PROVE  KeptInv'
<1> SUFFICES ASSUME setupHistory.had, ~setupHistory.spoilt, Whole PROVE Whole'
  BY DEF KeptInv
<1>1. inst'[p] = q /\ \A r \in Installer \ {p} : inst'[r] = inst[r]
  BY DEF SetupTypeOK
<1>2. \A r \in Installer : Brings(r) => Brings(r)'
  BY <1>1 DEF Brings
<1>3. There' = There
  BY DEF There
<1>4. \A r \in Installer : inst[r].at = "copying" => inst'[r].at = "copying"
  BY <1>1
<1>5. \A r \in Installer : inst'[r].at \in {"replace", "moveOld", "moveNew"} => aside[r].staging.whole
  BY <1>1 DEF Whole
<1>6. QED BY <1>2, <1>3, <1>4, <1>5 DEF Whole

LEMMA SetupStart == SetupInit => SetupInv
<1> SUFFICES ASSUME SetupInit PROVE SetupInv
  OBVIOUS
<1>1. PICK w \in Worlds, a \in Installed : SetupState(w, a, "new")
  BY DEF SetupInit
<1>3. NoApp \in Apps
  BY DEF NoApp, Apps, AppSources, Identities
<1>2. a \in Apps /\ (a.whole \/ a = NoApp)
  <2>1. ASSUME NEW x \in Apps, x.whole, NEW src \in AppSources
        PROVE  [x EXCEPT !.src = src] \in Apps /\ [x EXCEPT !.src = src].whole
    BY <2>1 DEF Apps
  <2>2. Sealed \in Apps /\ Sealed.whole /\ \A s \in {"adhoc", "local"} : Staged(s) \in Apps /\ Staged(s).whole
    BY DEF Sealed, Staged, Apps, AppSources, Identities
  <2>3. CASE a = NoApp
    BY <1>3, <2>3
  <2>4. CASE a = Staged("adhoc")
    BY <2>2, <2>4
  <2>5. CASE a = [Sealed EXCEPT !.src = "older"]
    BY <2>1, <2>2, <2>5 DEF AppSources
  <2>6. CASE a = [Staged("local") EXCEPT !.src = "other"]
    BY <2>1, <2>2, <2>6 DEF AppSources
  <2>7. QED BY <2>3, <2>4, <2>5, <2>6 DEF Installed
<1>4. aside \in [Installer -> Directories] /\ \A q \in Installer : aside[q].backup = NoApp
  BY <1>1, <1>3 DEF SetupState, Directories
<1>5. inst \in [Installer -> Installers] /\ \A q \in Installer : inst[q].at = "new"
  BY <1>1 DEF SetupState, Installers, InstallPlaces, Thens, Identities
<1>6. setupHistory \in Histories /\ setupHistory.had = (a # NoApp) /\ app = a /\ signLock = NoOne /\ keychain = {}
  BY <1>1 DEF SetupState, Histories
<1>7. SetupTypeOK
  BY <1>2, <1>4, <1>5, <1>6 DEF SetupTypeOK
<1>8. IdentityInv
  BY <1>5, <1>6 DEF IdentityInv, LockOwned, CreatesFirst, HoldsLock, LockPlaces
<1>9. KeptInv
  BY <1>2, <1>4, <1>5, <1>6 DEF KeptInv, Whole, There
<1>10. QED BY <1>7, <1>8, <1>9 DEF SetupInv

\* A step of an installer that touches neither the lock nor the application.
LEMMA Quietly ==
  ASSUME SetupInv, NEW p \in Installer, NEW q \in Installers, inst' = [inst EXCEPT ![p] = q], ~HoldsLock(q),
         inst[p].at \notin {"copy", "copying", "moveNew", "restore"} \/ q.at = inst[p].at,
         q.at \notin {"replace", "moveOld", "moveNew"} \/ inst[p].at \in {"replace", "moveOld", "moveNew"},
         UNCHANGED <<app, aside, keychain, signLock>>,
         setupHistory' \in Histories, setupHistory'.had = setupHistory.had, setupHistory'.spoilt = setupHistory.spoilt,
         setupHistory'.stolen = setupHistory.stolen
  PROVE  SetupInv'
<1>1. SetupTypeOK'
  BY DEF SetupInv, SetupTypeOK
<1>2. IdentityInv'
  BY IdentityStays DEF SetupInv
<1>3. KeptInv'
  BY KeptStays DEF SetupInv
<1>4. QED BY <1>1, <1>2, <1>3 DEF SetupInv

LEMMA QuietlyTo ==
  ASSUME SetupInv, NEW p \in Installer, NEW at \in InstallPlaces \ LockPlaces, Moves(p, at),
         inst[p].at \notin {"copy", "copying", "moveNew", "restore"},
         at \notin {"replace", "moveOld", "moveNew"} \/ inst[p].at \in {"replace", "moveOld", "moveNew"},
         UNCHANGED <<app, aside, keychain, signLock, setupHistory>>
  PROVE  SetupInv'
<1>1. PICK q \in Installers : inst' = [inst EXCEPT ![p] = q] /\ q.at = at
  BY MovesTo DEF SetupInv
<1>2. setupHistory \in Histories
  BY DEF SetupInv, SetupTypeOK
<1>3. QED BY <1>1, <1>2, Quietly DEF HoldsLock

LEMMA QuietlyFinds ==
  ASSUME SetupInv, NEW p \in Installer, NEW then \in Thens, Identify(p, then),
         inst[p].at \notin {"copy", "copying", "moveNew", "restore"},
         UNCHANGED <<app, aside, keychain, signLock>>,
         setupHistory' \in Histories, setupHistory'.had = setupHistory.had, setupHistory'.spoilt = setupHistory.spoilt,
         setupHistory'.stolen = setupHistory.stolen
  PROVE  SetupInv'
<1>1. PICK q \in Installers : inst' = [inst EXCEPT ![p] = q] /\ q.at = "find"
  BY IdentifiesTo DEF SetupInv
<1>2. QED BY <1>1, Quietly DEF HoldsLock, LockPlaces

\* The steps around the identity leave the application alone.
LEMMA LockStep ==
  ASSUME SetupInv, NEW p \in Installer, inst[p].then # "dead",
         TakeLock(p) \/ ClearLock(p) \/ LookAgain(p) \/ CreateIdentity(p) \/ Unlock(p)
  PROVE  SetupInv'
<1> DEFINE x == inst[p]
           h == setupHistory
<1>0. SetupTypeOK /\ IdentityInv /\ KeptInv /\ x \in Installers /\ h \in Histories /\ inst \in [Installer -> Installers]
  BY DEF SetupInv, SetupTypeOK
<1>a. NoOne \notin Installer
  BY SetupAssumption
\* What the lock and the keychain become is still to be shown.
<1>b. ASSUME NEW q \in Installers, inst' = [inst EXCEPT ![p] = q], q.at \in LockPlaces \cup Thens \cup {"lock"},
             x.at \in LockPlaces \cup {"lock", "clear"},
             UNCHANGED <<app, aside>>, setupHistory' \in Histories, setupHistory'.had = h.had, setupHistory'.spoilt = h.spoilt,
             signLock' \in Installer \cup {NoOne}, IdentityInv'
      PROVE  SetupInv'
  <2>1. SetupTypeOK'
    BY <1>0, <1>b DEF SetupTypeOK
  <2>2. KeptInv'
    BY <1>0, <1>b, KeptStays DEF LockPlaces, Thens
  <2>3. QED BY <1>b, <2>1, <2>2 DEF SetupInv
<1>c. ASSUME NEW q \in Installers, inst' = [inst EXCEPT ![p] = q] PROVE inst'[p] = q /\ \A r \in Installer \ {p} : inst'[r] = inst[r]
  BY <1>0, <1>c
\* The lock is removed, perhaps from somebody who is at work.
<1>d. ASSUME Removes(p), NEW q \in Installers, inst' = [inst EXCEPT ![p] = q], ~HoldsLock(q), UNCHANGED keychain
      PROVE  /\ setupHistory' \in Histories /\ setupHistory'.had = h.had /\ setupHistory'.spoilt = h.spoilt
             /\ signLock' \in Installer \cup {NoOne} /\ IdentityInv'
  <2> DEFINE b == h.stolen \/ (signLock \notin {NoOne, p} /\ Works(signLock))
  <2>1. b \in BOOLEAN
    BY <1>0 DEF Histories
  <2>2. setupHistory' = [h EXCEPT !.stolen = b] /\ signLock' = NoOne
    BY <1>d DEF Removes
  <2>3. setupHistory' \in Histories /\ setupHistory'.had = h.had /\ setupHistory'.spoilt = h.spoilt /\ setupHistory'.stolen = b
    <3> HIDE DEF b, h
    <3>1. QED BY <1>0, <2>1, <2>2 DEF Histories
  <2>4. ASSUME ~b PROVE LockOwned' /\ CreatesFirst'
    <3>1. LockOwned /\ CreatesFirst
      BY <1>0, <2>4 DEF IdentityInv
    <3>2. ASSUME NEW r \in Installer, r # p PROVE ~HoldsLock(inst[r])
      <4>1. HoldsLock(inst[r]) => signLock = r /\ Works(r)
        BY <3>1 DEF LockOwned, HoldsLock, Works, Dead, LockPlaces
      <4>2. QED BY <1>a, <2>4, <3>2, <4>1
    <3>3. \A r \in Installer : ~HoldsLock(inst'[r])
      BY <1>c, <1>d, <3>2
    <3>4. QED BY <1>c, <3>3 DEF LockOwned, CreatesFirst, HoldsLock, LockPlaces
  <2>5. IdentityInv'
    BY <1>0, <1>d, <2>3, <2>4 DEF IdentityInv
  <2>6. QED BY <2>2, <2>3, <2>5
<1>1. CASE TakeLock(p)
  <2>0. x.at = "lock"
    BY <1>1 DEF TakeLock, Is
  <2>1. CASE signLock = NoOne /\ signLock' = p /\ Moves(p, "locked")
    <3>1. PICK q \in Installers : inst' = [inst EXCEPT ![p] = q] /\ q.at = "locked"
      BY <1>0, <2>1, MovesTo DEF InstallPlaces, LockPlaces
    <3>2. UNCHANGED <<app, aside, keychain, setupHistory>>
      BY <1>1 DEF TakeLock
    <3>3. IdentityInv'
      BY <1>0, <1>a, <1>c, <2>1, <3>1, <3>2 DEF IdentityInv, LockOwned, CreatesFirst, HoldsLock
    <3>4. QED BY <1>0, <1>b, <2>0, <2>1, <3>1, <3>2, <3>3 DEF LockPlaces
  <2>2. CASE UNCHANGED signLock /\ (Moves(p, "clear") \/ Moves(p, "failed"))
    <3>1. UNCHANGED <<app, aside, keychain, signLock, setupHistory>>
      BY <1>1, <2>2 DEF TakeLock
    <3>2. QED BY <2>0, <2>2, <3>1, QuietlyTo DEF InstallPlaces, LockPlaces
  <2>3. QED BY <1>1, <2>1, <2>2 DEF TakeLock
<1>2. CASE ClearLock(p)
  <2>0. x.at = "clear" /\ Removes(p) /\ Moves(p, "lock") /\ UNCHANGED <<app, aside, keychain>>
    BY <1>2 DEF ClearLock, Is
  <2>1. PICK q \in Installers : inst' = [inst EXCEPT ![p] = q] /\ q.at = "lock"
    BY <1>0, <2>0, MovesTo DEF InstallPlaces
  <2>2. ~HoldsLock(q)
    BY <2>1 DEF HoldsLock, LockPlaces
  <2>3. QED BY <1>b, <1>d, <2>0, <2>1, <2>2
<1>3. CASE LookAgain(p)
  <2>0. x.at = "locked" /\ UNCHANGED <<app, aside, keychain, signLock, setupHistory>>
    BY <1>3 DEF LookAgain, Is
  <2>1. PICK q \in Installers : inst' = [inst EXCEPT ![p] = q] /\ (q.at = "unlock" \/ (q.at = "create" /\ keychain = {}))
    <3>1. CASE keychain # {}
      BY <1>0, <1>3, <3>1, WithIdentityTo DEF LookAgain, Identities
    <3>2. CASE keychain = {}
      BY <1>0, <1>3, <3>2, MovesTo DEF LookAgain, InstallPlaces, LockPlaces
    <3>3. QED BY <3>1, <3>2
  <2>2. HoldsLock(x)
    BY <2>0 DEF HoldsLock, LockPlaces
  <2>3. IdentityInv'
    BY <1>0, <1>c, <2>0, <2>1, <2>2 DEF IdentityInv, LockOwned, CreatesFirst
  <2>4. QED BY <1>0, <1>b, <2>0, <2>1, <2>3 DEF LockPlaces, SetupTypeOK
<1>4. CASE CreateIdentity(p)
  <2>0. x.at = "create" /\ UNCHANGED <<app, aside, signLock, setupHistory>> /\ keychain' \in {keychain, keychain \cup {p}}
    BY <1>4 DEF CreateIdentity, Is
  <2>1. PICK q \in Installers : inst' = [inst EXCEPT ![p] = q] /\ q.at = "unlock"
    BY <1>0, <1>4, WithIdentityTo DEF CreateIdentity, Identities
  <2>2. HoldsLock(x)
    BY <2>0 DEF HoldsLock, LockPlaces
  <2>3. ASSUME ~h.stolen PROVE LockOwned' /\ CreatesFirst' /\ (keychain' = {} \/ \E r : keychain' = {r})
    <3>1. LockOwned /\ keychain = {} /\ signLock = p
      BY <1>0, <2>0, <2>2, <2>3 DEF IdentityInv, LockOwned, CreatesFirst
    <3>2. \A r \in Installer \ {p} : ~HoldsLock(inst[r])
      BY <3>1 DEF LockOwned
    <3>3. LockOwned'
      BY <1>c, <2>0, <2>1, <3>1, <3>2 DEF LockOwned
    <3>4. CreatesFirst'
      BY <1>c, <2>1, <3>2 DEF CreatesFirst, HoldsLock, LockPlaces
    <3>5. QED BY <2>0, <3>1, <3>3, <3>4
  <2>4. IdentityInv'
    BY <2>0, <2>3 DEF IdentityInv
  <2>5. QED BY <1>0, <1>b, <2>0, <2>1, <2>4 DEF LockPlaces, SetupTypeOK
<1>5. CASE Unlock(p)
  <2>0. x.at = "unlock" /\ Removes(p) /\ Identified(p, x.id) /\ UNCHANGED <<app, aside, keychain>>
    BY <1>5 DEF Unlock, Is
  <2>1. x.id \in Identities
    BY <1>0 DEF Installers
  <2>2. PICK q \in Installers : inst' = [inst EXCEPT ![p] = q] /\ q.at \in Thens
    BY <1>0, <2>0, <2>1, IdentifiedTo
  <2>3. ~HoldsLock(q)
    BY <2>2 DEF HoldsLock, LockPlaces, Thens
  <2>4. QED BY <1>b, <1>d, <2>0, <2>2, <2>3 DEF LockPlaces
<1>6. QED BY <1>1, <1>2, <1>3, <1>4, <1>5

\* The steps that change the application or what is aside.
LEMMA AppStep ==
  ASSUME SetupInv, NEW p \in Installer, inst[p].then # "dead",
         RemoveApp(p) \/ CopyBegins(p) \/ CopyEnds(p) \/ Stage(p) \/ MoveOld(p) \/ MoveNew(p) \/ DropOld(p) \/ Restore(p)
  PROVE  SetupInv'
<1> DEFINE x == inst[p]
           h == setupHistory
           d == aside[p]
<1>0. /\ SetupTypeOK /\ IdentityInv /\ KeptInv /\ x \in Installers /\ h \in Histories /\ inst \in [Installer -> Installers]
      /\ app \in Apps /\ d \in Directories /\ aside \in [Installer -> Directories]
  BY DEF SetupInv, SetupTypeOK
<1>a. NoApp \in Apps /\ ~NoApp.whole
  BY DEF NoApp, Apps, AppSources, Identities
<1>b. UNCHANGED <<keychain, signLock>>
  BY DEF RemoveApp, CopyBegins, CopyEnds, Stage, MoveOld, MoveNew, DropOld, Restore
\* What becomes of the application is still to be shown.
<1>c. ASSUME NEW at \in InstallPlaces \ LockPlaces,
             NEW q \in Installers, inst' = [inst EXCEPT ![p] = q], q.at = at,
             app' \in Apps, NEW e \in Directories, aside' = [aside EXCEPT ![p] = e],
             setupHistory' \in Histories, setupHistory'.had = h.had, setupHistory'.stolen = h.stolen,
             h.spoilt => setupHistory'.spoilt,
             h.had /\ ~setupHistory'.spoilt /\ Whole => Whole'
      PROVE  SetupInv'
  <2>1. SetupTypeOK'
    BY <1>0, <1>b, <1>c DEF SetupTypeOK
  <2>2. IdentityInv'
    BY <1>0, <1>b, <1>c, IdentityStays DEF HoldsLock
  <2>3. KeptInv'
    <3> HIDE DEF h
    <3>1. h = setupHistory /\ h.spoilt \in BOOLEAN
      BY <1>0 DEF h, Histories
    <3>2. KeptInv /\ (h.spoilt => setupHistory'.spoilt) /\ setupHistory'.had = h.had
      BY <1>0, <1>c
    <3>3. h.had /\ ~setupHistory'.spoilt /\ Whole => Whole'
      BY <1>c
    <3>4. QED BY <3>1, <3>2, <3>3 DEF KeptInv
  <2>4. QED BY <2>1, <2>2, <2>3 DEF SetupInv
<1>d. ASSUME NEW q, inst' = [inst EXCEPT ![p] = q] PROVE inst'[p] = q /\ \A r \in Installer \ {p} : inst'[r] = inst[r]
  BY <1>0, <1>d
<1>e. ASSUME NEW e, aside' = [aside EXCEPT ![p] = e] PROVE aside'[p] = e /\ \A r \in Installer \ {p} : aside'[r] = aside[r]
  BY <1>0, <1>e
<1>f. aside = [aside EXCEPT ![p] = d]
  BY <1>0
<1>g. ASSUME NEW at \in InstallPlaces, Moves(p, at) PROVE \E q \in Installers : inst' = [inst EXCEPT ![p] = q] /\ q.at = at
  BY <1>0, <1>g, MovesTo
<1>h. ASSUME NEW b \in BOOLEAN, NEW c \in BOOLEAN, setupHistory' = [h EXCEPT !.spoilt = b, !.signed = c]
      PROVE  setupHistory' \in Histories /\ setupHistory'.had = h.had /\ setupHistory'.stolen = h.stolen /\ setupHistory'.spoilt = b
  <2> HIDE DEF h
  <2>1. QED BY <1>0, <1>h DEF Histories
<1>i. h.spoilt \in BOOLEAN /\ h.signed \in BOOLEAN
  BY <1>0 DEF Histories
<1>j. ASSUME NEW b, setupHistory' = [h EXCEPT !.spoilt = b] PROVE setupHistory' = [h EXCEPT !.spoilt = b, !.signed = h.signed]
  <2> HIDE DEF h
  <2>1. QED BY <1>0, <1>j DEF Histories
<1>k. Sealed \in Apps
  BY DEF Sealed, Apps, AppSources, Identities
<1>l. ASSUME NEW b \in BOOLEAN, NEW c \in BOOLEAN
      PROVE  LET y == [Sealed EXCEPT !.whole = b, !.hash = c] IN y \in Apps /\ y.whole = b /\ y # NoApp
  BY DEF Sealed, NoApp, Apps, AppSources, Identities
<1>m. app.hash \in BOOLEAN
  BY <1>0 DEF Apps
<1>n. ASSUME GivesUp(p)
      PROVE  \E q \in Installers : inst' = [inst EXCEPT ![p] = q] /\ q.at \in {"failed", "find"}
  <2>1. CASE Moves(p, "failed")
    BY <1>g, <2>1 DEF InstallPlaces
  <2>2. CASE Identify(p, "read")
    BY <1>0, <2>2, IdentifiesTo DEF Thens
  <2>3. QED BY <1>n, <2>1, <2>2 DEF GivesUp
<1>1. CASE RemoveApp(p)
  <2>a. UNCHANGED aside /\ x.at = "remove"
    BY <1>1 DEF RemoveApp, Is
  <2>1. CASE app' = NoApp /\ Moves(p, "copy") /\ UNCHANGED setupHistory
    <3>1. PICK q \in Installers : inst' = [inst EXCEPT ![p] = q] /\ q.at = "copy"
      BY <1>g, <2>1 DEF InstallPlaces
    <3>2. Whole => Whole'
      <4>1. Brings(p)' /\ ~There'
        BY <1>d, <2>1, <3>1 DEF Brings, There
      <4>2. \A r \in Installer : inst'[r].at \in {"replace", "moveOld", "moveNew"} => inst'[r] = inst[r]
        BY <1>d, <3>1
      <4>3. QED BY <2>a, <4>1, <4>2 DEF Whole
    <3>3. QED BY <1>0, <1>a, <1>c, <1>f, <2>a, <2>1, <3>1, <3>2 DEF InstallPlaces, LockPlaces
  <2>2. ASSUME NEW hash \in BOOLEAN, app' = [app EXCEPT !.whole = FALSE, !.hash = hash],
               setupHistory' = [setupHistory EXCEPT !.spoilt = TRUE], GivesUp(p)
        PROVE  SetupInv'
    <3>1. PICK q \in Installers : inst' = [inst EXCEPT ![p] = q] /\ q.at \in {"failed", "find"}
      BY <1>n, <2>2
    <3>2. setupHistory' \in Histories /\ setupHistory'.had = h.had /\ setupHistory'.stolen = h.stolen /\ setupHistory'.spoilt = TRUE
      BY <1>h, <1>i, <1>j, <2>2
    <3>3. app' \in Apps
      BY <1>0, <2>2 DEF Apps
    <3>4. QED BY <1>0, <1>c, <1>f, <2>a, <3>1, <3>2, <3>3 DEF InstallPlaces, LockPlaces
  <2>3. QED BY <1>1, <1>m, <2>1, <2>2 DEF RemoveApp
<1>2. CASE CopyBegins(p)
  <2> DEFINE y == [Sealed EXCEPT !.whole = FALSE, !.hash = app.hash]
  <2>0. /\ app' = y /\ Moves(p, "copying") /\ UNCHANGED aside /\ x.at = "copy"
        /\ setupHistory' = [h EXCEPT !.spoilt = h.spoilt \/ Blends, !.signed = TRUE]
    BY <1>2 DEF CopyBegins, Is
  <2>1. PICK q \in Installers : inst' = [inst EXCEPT ![p] = q] /\ q.at = "copying"
    BY <1>g, <2>0 DEF InstallPlaces
  <2>2. app' \in Apps /\ app' # NoApp
    BY <1>l, <1>m, <2>0
  <2>3. Whole => Whole'
    <3>1. inst'[p].at = "copying" /\ There'
      BY <1>d, <2>1, <2>2 DEF There
    <3>2. \A r \in Installer : inst'[r].at \in {"replace", "moveOld", "moveNew"} => inst'[r] = inst[r]
      BY <1>d, <2>1
    <3>3. QED BY <2>0, <3>1, <3>2 DEF Whole
  <2>4. Blends \in BOOLEAN
    BY DEF Blends, There
  <2>5. setupHistory' \in Histories /\ setupHistory'.had = h.had /\ setupHistory'.stolen = h.stolen /\ setupHistory'.spoilt = (h.spoilt \/ Blends)
    BY <1>h, <1>i, <2>0, <2>4
  <2>6. QED BY <1>0, <1>c, <1>f, <2>0, <2>1, <2>2, <2>3, <2>5 DEF InstallPlaces, LockPlaces
<1>3. CASE CopyEnds(p)
  <2>a. UNCHANGED aside /\ x.at = "copying"
    BY <1>3 DEF CopyEnds, Is
  <2>1. ASSUME NEW w \in BOOLEAN, w \/ \E r \in Installer \ {p} : Is(r, "copying"),
               app' = [Sealed EXCEPT !.whole = w /\ There /\ ~Blends, !.hash = app.hash],
               setupHistory' = [setupHistory EXCEPT !.spoilt = @ \/ Blends \/ ~There], Moves(p, "done")
        PROVE  SetupInv'
    <3> DEFINE b == h.spoilt \/ Blends \/ ~There
               v == w /\ There /\ ~Blends
    <3>1. PICK q \in Installers : inst' = [inst EXCEPT ![p] = q] /\ q.at = "done"
      BY <1>g, <2>1 DEF InstallPlaces
    <3>2. b \in BOOLEAN /\ v \in BOOLEAN
      BY <1>i, <2>1 DEF Blends, There
    <3>3. app' \in Apps /\ app' # NoApp /\ app'.whole = v
      <4> HIDE DEF v
      <4>1. app' = [Sealed EXCEPT !.whole = v, !.hash = app.hash]
        BY <2>1 DEF v
      <4>2. QED BY <1>l, <1>m, <3>2, <4>1
    <3>4. setupHistory' \in Histories /\ setupHistory'.had = h.had /\ setupHistory'.stolen = h.stolen /\ setupHistory'.spoilt = b
      BY <1>h, <1>i, <1>j, <2>1, <3>2
    <3>5. ~b /\ Whole => Whole'
      <4> SUFFICES ASSUME ~b, Whole PROVE Whole'
        OBVIOUS
      <4>1. There' /\ app'.whole = w
        BY <3>3 DEF There
      <4>2. \A r \in Installer : inst'[r].at \in {"replace", "moveOld", "moveNew"} => inst'[r] = inst[r]
        BY <1>d, <3>1
      <4>3. w \/ \E r \in Installer : inst'[r].at = "copying"
        BY <1>d, <2>1, <3>1 DEF Is
      <4>4. QED BY <2>a, <4>1, <4>2, <4>3 DEF Whole
    <3>6. QED BY <1>0, <1>c, <1>f, <2>a, <3>1, <3>3, <3>4, <3>5 DEF InstallPlaces, LockPlaces
  <2>2. CASE setupHistory' = [setupHistory EXCEPT !.spoilt = TRUE] /\ GivesUp(p) /\ UNCHANGED app
    <3>1. PICK q \in Installers : inst' = [inst EXCEPT ![p] = q] /\ q.at \in {"failed", "find"}
      BY <1>n, <2>2
    <3>2. setupHistory' \in Histories /\ setupHistory'.had = h.had /\ setupHistory'.stolen = h.stolen /\ setupHistory'.spoilt = TRUE
      BY <1>h, <1>i, <1>j, <2>2
    <3>3. QED BY <1>0, <1>c, <1>f, <2>2, <2>a, <3>1, <3>2 DEF InstallPlaces, LockPlaces
  <2>3. QED BY <1>3, <2>1, <2>2 DEF CopyEnds
<1>4. CASE Stage(p)
  <2>a. UNCHANGED <<app, setupHistory>> /\ x.at = "stage"
    BY <1>4 DEF Stage, Is
  <2>1. CASE aside' = [aside EXCEPT ![p].staging = Staged(inst[p].id)] /\ Moves(p, "replace")
    <3> DEFINE s == Staged(x.id)
               e == [d EXCEPT !.staging = s]
    <3>1. aside' = [aside EXCEPT ![p] = e]
      BY <2>1
    <3>2. s \in Apps /\ s.whole
      BY <1>0 DEF Staged, Apps, AppSources, Installers
    <3> HIDE DEF s, d
    <3>3. e \in Directories /\ e.staging = s /\ e.backup = d.backup
      BY <1>0, <3>2 DEF Directories
    <3> HIDE DEF e
    <3>4. PICK q \in Installers : inst' = [inst EXCEPT ![p] = q] /\ q.at = "replace"
      BY <1>g, <2>1 DEF InstallPlaces
    <3>5. Whole => Whole'
      <4> SUFFICES ASSUME Whole PROVE Whole'
        OBVIOUS
      <4>1. \A r \in Installer : aside'[r].backup = aside[r].backup /\ (r # p => aside'[r] = aside[r]) /\ aside'[p].staging.whole
        BY <1>e, <3>1, <3>2, <3>3 DEF d
      <4>2. \A r \in Installer : Brings(r) => Brings(r)'
        BY <1>d, <2>a, <3>4, <4>1 DEF Brings
      <4>3. There' = There
        BY <2>a DEF There
      <4>4. \A r \in Installer : inst[r].at = "copying" => inst'[r].at = "copying"
        BY <1>d, <2>a, <3>4
      <4>5. \A r \in Installer : inst'[r].at \in {"replace", "moveOld", "moveNew"} => aside'[r].staging.whole
        BY <1>d, <3>4, <4>1 DEF Whole
      <4>6. QED BY <2>a, <4>1, <4>2, <4>3, <4>4, <4>5 DEF Whole
    <3>6. QED BY <1>0, <1>c, <2>a, <3>1, <3>3, <3>4, <3>5 DEF InstallPlaces, LockPlaces
  <2>2. CASE UNCHANGED aside /\ Moves(p, "failed")
    BY <1>b, <2>a, <2>2, QuietlyTo DEF InstallPlaces, LockPlaces
  <2>3. QED BY <1>4, <2>1, <2>2 DEF Stage
<1>5. CASE MoveOld(p)
  <2>a. x.at = "moveOld"
    BY <1>5 DEF MoveOld, Is
  <2>1. CASE There
    <3> DEFINE e == [d EXCEPT !.backup = app]
               b == h.spoilt \/ ~app.whole
    <3>1. /\ aside' = [aside EXCEPT ![p] = e] /\ app' = NoApp /\ Moves(p, "moveNew")
          /\ setupHistory' = [h EXCEPT !.spoilt = b]
      BY <1>5, <2>1 DEF MoveOld
    <3>2. b \in BOOLEAN
      BY <1>0, <1>i DEF Apps
    <3> HIDE DEF d
    <3>3. e \in Directories /\ e.staging = d.staging /\ e.backup = app
      BY <1>0 DEF Directories
    <3> HIDE DEF e
    <3>4. PICK q \in Installers : inst' = [inst EXCEPT ![p] = q] /\ q.at = "moveNew"
      BY <1>g, <3>1 DEF InstallPlaces
    <3>5. setupHistory' \in Histories /\ setupHistory'.had = h.had /\ setupHistory'.stolen = h.stolen /\ setupHistory'.spoilt = b
      BY <1>h, <1>i, <1>j, <3>1, <3>2
    <3>6. ~b /\ Whole => Whole'
      <4> SUFFICES ASSUME app.whole, Whole PROVE Whole'
        OBVIOUS
      <4>1. /\ \A r \in Installer \ {p} : aside'[r] = aside[r] /\ inst'[r] = inst[r]
            /\ aside'[p].backup = app /\ aside'[p].staging = aside[p].staging /\ inst'[p].at = "moveNew"
        BY <1>d, <1>e, <3>1, <3>3, <3>4 DEF d
      <4>2. Brings(p)' /\ ~There'
        BY <3>1, <4>1 DEF Brings, There
      <4>3. \A r \in Installer : aside'[r].backup.whole \/ aside'[r].backup = NoApp
        BY <4>1 DEF Whole
      <4>4. \A r \in Installer : inst'[r].at \in {"replace", "moveOld", "moveNew"} => aside'[r].staging.whole
        BY <2>a, <4>1 DEF Whole
      <4>5. QED BY <4>2, <4>3, <4>4 DEF Whole
    <3>7. QED BY <1>0, <1>a, <1>c, <3>1, <3>3, <3>4, <3>5, <3>6 DEF InstallPlaces, LockPlaces
  <2>2. CASE ~There
    <3>1. Moves(p, "restore") /\ UNCHANGED <<app, aside, setupHistory>>
      BY <1>5, <2>2 DEF MoveOld
    <3>2. QED BY <1>b, <2>a, <3>1, QuietlyTo DEF InstallPlaces, LockPlaces
  <2>3. QED BY <2>1, <2>2
<1>6. CASE MoveNew(p)
  <2>a. x.at = "moveNew"
    BY <1>6 DEF MoveNew, Is
  <2>1. CASE /\ ~There /\ app' = aside[p].staging /\ aside' = [aside EXCEPT ![p].staging = NoApp]
             /\ Moves(p, "dropOld")
             /\ setupHistory' = [setupHistory EXCEPT !.signed = @ \/ app'.sig # "adhoc"]
    <3> DEFINE e == [d EXCEPT !.staging = NoApp]
               c == h.signed \/ app'.sig # "adhoc"
    <3>1. aside' = [aside EXCEPT ![p] = e] /\ setupHistory' = [h EXCEPT !.signed = c] /\ app' = d.staging
      BY <2>1
    <3>2. c \in BOOLEAN
      BY <1>i
    <3> HIDE DEF d, c, h
    <3>3. e \in Directories /\ e.staging = NoApp /\ e.backup = d.backup /\ app' \in Apps
      BY <1>0, <1>a, <3>1 DEF Directories
    <3> HIDE DEF e
    <3>4. PICK q \in Installers : inst' = [inst EXCEPT ![p] = q] /\ q.at = "dropOld"
      BY <1>g, <2>1 DEF InstallPlaces
    <3>5. setupHistory' \in Histories /\ setupHistory'.had = h.had /\ setupHistory'.stolen = h.stolen /\ setupHistory'.spoilt = h.spoilt
      BY <1>0, <3>1, <3>2 DEF Histories
    <3>6. Whole => Whole'
      <4> SUFFICES ASSUME Whole PROVE Whole'
        OBVIOUS
      <4>1. /\ \A r \in Installer \ {p} : aside'[r] = aside[r] /\ inst'[r] = inst[r]
            /\ aside'[p].backup = aside[p].backup /\ inst'[p].at = "dropOld"
        BY <1>d, <1>e, <3>1, <3>3, <3>4 DEF d
      <4>2. app'.whole /\ There'
        BY <1>a, <2>1, <2>a DEF Whole, There
      <4>3. \A r \in Installer : aside'[r].backup.whole \/ aside'[r].backup = NoApp
        BY <4>1 DEF Whole
      <4>4. \A r \in Installer : inst'[r].at \in {"replace", "moveOld", "moveNew"} => aside'[r].staging.whole
        BY <2>a, <4>1 DEF Whole
      <4>5. QED BY <4>2, <4>3, <4>4 DEF Whole
    <3>7. QED BY <1>0, <1>c, <3>1, <3>3, <3>4, <3>5, <3>6 DEF InstallPlaces, LockPlaces
  <2>2. CASE Moves(p, "restore") /\ UNCHANGED <<app, aside, setupHistory>>
    <3>1. PICK q \in Installers : inst' = [inst EXCEPT ![p] = q] /\ q.at = "restore"
      BY <1>g, <2>2 DEF InstallPlaces
    <3>2. Whole => Whole'
      <4> SUFFICES ASSUME Whole PROVE Whole'
        OBVIOUS
      <4>1. \A r \in Installer : Brings(r) => Brings(r)'
        BY <1>d, <2>2, <2>a, <3>1 DEF Brings
      <4>2. There' = There
        BY <2>2 DEF There
      <4>3. \A r \in Installer : inst[r].at = "copying" => inst'[r].at = "copying"
        BY <1>d, <2>a, <3>1
      <4>4. QED BY <1>d, <2>2, <2>a, <3>1, <4>1, <4>2, <4>3 DEF Whole
    <3>3. QED BY <1>0, <1>c, <1>f, <2>2, <3>1, <3>2 DEF InstallPlaces, LockPlaces
  <2>3. QED BY <1>6, <2>1, <2>2 DEF MoveNew
<1>7. CASE DropOld(p)
  <2> DEFINE e == [d EXCEPT !.backup = NoApp]
  <2>0. aside' = [aside EXCEPT ![p] = e] /\ Moves(p, "done") /\ UNCHANGED <<app, setupHistory>> /\ x.at = "dropOld"
    BY <1>7 DEF DropOld, Is
  <2> HIDE DEF d
  <2>1. e \in Directories /\ e.staging = d.staging /\ e.backup = NoApp
    BY <1>0, <1>a DEF Directories
  <2> HIDE DEF e
  <2>2. PICK q \in Installers : inst' = [inst EXCEPT ![p] = q] /\ q.at = "done"
    BY <1>g, <2>0 DEF InstallPlaces
  <2>3. Whole => Whole'
    <3> SUFFICES ASSUME Whole PROVE Whole'
      OBVIOUS
    <3>1. /\ \A r \in Installer \ {p} : aside'[r] = aside[r] /\ inst'[r] = inst[r]
          /\ aside'[p].backup = NoApp /\ inst'[p].at = "done"
      BY <1>d, <1>e, <2>0, <2>1, <2>2
    <3>2. \A r \in Installer : Brings(r) => Brings(r)'
      BY <2>0, <3>1 DEF Brings
    <3>3. There' = There
      BY <2>0 DEF There
    <3>4. \A r \in Installer : inst[r].at = "copying" => inst'[r].at = "copying"
      BY <2>0, <3>1
    <3>5. QED BY <2>0, <3>1, <3>2, <3>3, <3>4 DEF Whole
  <2>4. QED BY <1>0, <1>c, <2>0, <2>1, <2>2, <2>3 DEF InstallPlaces, LockPlaces
<1>8. CASE Restore(p)
  <2> DEFINE e == [staging |-> NoApp, backup |-> IF There THEN d.backup ELSE NoApp]
  <2>0. /\ aside' = [aside EXCEPT ![p] = e] /\ app' = (IF There THEN app ELSE d.backup)
        /\ Moves(p, "failed") /\ UNCHANGED setupHistory /\ x.at = "restore"
    BY <1>8 DEF Restore, Is
  <2>1. e \in Directories /\ app' \in Apps /\ e.backup = (IF There THEN d.backup ELSE NoApp)
    BY <1>0, <1>a, <2>0 DEF Directories
  <2>2. PICK q \in Installers : inst' = [inst EXCEPT ![p] = q] /\ q.at = "failed"
    BY <1>g, <2>0 DEF InstallPlaces
  <2> HIDE DEF e
  <2>3. Whole => Whole'
    <3> SUFFICES ASSUME Whole PROVE Whole'
      OBVIOUS
    <3>1. /\ \A r \in Installer \ {p} : aside'[r] = aside[r] /\ inst'[r] = inst[r]
          /\ aside'[p] = e /\ inst'[p].at = "failed"
      BY <1>d, <1>e, <2>0, <2>2
    <3>2. d.backup.whole \/ d.backup = NoApp
      BY DEF Whole
    <3>3. \A r \in Installer : aside'[r].backup.whole \/ aside'[r].backup = NoApp
      BY <2>1, <3>1, <3>2 DEF Whole
    <3>4. \A r \in Installer : inst'[r].at \in {"replace", "moveOld", "moveNew"} => aside'[r].staging.whole
      BY <3>1 DEF Whole
    <3>5. \A r \in Installer : inst[r].at = "copying" => inst'[r].at = "copying"
      BY <2>0, <3>1
    <3>6. CASE There
      BY <2>0, <3>3, <3>4, <3>5, <3>6 DEF Whole, There
    <3>7. CASE ~There /\ d.backup.whole
      BY <1>a, <2>0, <3>3, <3>4, <3>7 DEF Whole, There
    <3>8. CASE ~There /\ d.backup = NoApp
      <4>1. PICK r \in Installer : Brings(r)
        BY <3>8 DEF Whole
      <4>2. r # p
        BY <1>a, <2>0, <3>8, <4>1 DEF Brings
      <4>3. Brings(r)' /\ ~There'
        BY <2>0, <3>1, <3>8, <4>1, <4>2 DEF Brings, There
      <4>4. QED BY <3>3, <3>4, <4>3 DEF Whole
    <3>9. QED BY <3>2, <3>6, <3>7, <3>8
  <2>4. QED BY <1>0, <1>c, <2>0, <2>1, <2>2, <2>3 DEF InstallPlaces, LockPlaces
<1>9. QED BY <1>1, <1>2, <1>3, <1>4, <1>5, <1>6, <1>7, <1>8

LEMMA SetupStep == SetupInv /\ [SetupNext]_setupVars => SetupInv'
<1> SUFFICES ASSUME SetupInv, [SetupNext]_setupVars PROVE SetupInv'
  OBVIOUS
<1>0. setupHistory \in Histories /\ inst \in [Installer -> Installers] /\ SetupTypeOK
  BY DEF SetupInv, SetupTypeOK
<1>1. CASE UNCHANGED setupVars
  BY <1>1 DEF SetupInv, SetupTypeOK, IdentityInv, LockOwned, CreatesFirst, KeptInv, Whole, Brings, There, setupVars
<1>2. ASSUME NEW p \in Installer, InstallerDies(p) PROVE SetupInv'
  <2> DEFINE x == inst[p]
             q == [x EXCEPT !.then = "dead"]
  <2>1. inst' = [inst EXCEPT ![p] = q] /\ x \in Installers
    BY <1>0, <1>2 DEF InstallerDies
  <2> HIDE DEF x
  <2>2. q \in Installers /\ q.at = x.at /\ q.then = "dead"
    BY <2>1 DEF Installers, Thens
  <2> HIDE DEF q
  <2>3. UNCHANGED <<app, aside, keychain, signLock, setupHistory>>
    BY <1>2 DEF InstallerDies
  <2>4. QED BY <1>0, <2>1, <2>2, <2>3, Quietly DEF HoldsLock, x
<1>3. ASSUME NEW p \in Installer, InstallerStep(p) PROVE SetupInv'
  <2> DEFINE x == inst[p]
  <2>0. x.then # "dead" /\ x \in Installers
    BY <1>0, <1>3 DEF InstallerStep, Works, Dead
  <2>a. ASSUME NEW at \in InstallPlaces \ LockPlaces, Moves(p, at), x.at \notin {"copy", "copying", "moveNew", "restore"},
               at \notin {"replace", "moveOld", "moveNew"} \/ x.at \in {"replace", "moveOld", "moveNew"},
               UNCHANGED <<app, aside, keychain, signLock, setupHistory>>
        PROVE  SetupInv'
    BY <2>a, QuietlyTo
  <2>b. ASSUME NEW then \in Thens, Identify(p, then), x.at \notin {"copy", "copying", "moveNew", "restore"},
               UNCHANGED <<app, aside, keychain, signLock, setupHistory>>
        PROVE  SetupInv'
    BY <1>0, <2>b, QuietlyFinds
  <2>1. CASE TakeLock(p) \/ ClearLock(p) \/ LookAgain(p) \/ CreateIdentity(p) \/ Unlock(p)
    BY <2>0, <2>1, LockStep
  <2>2. CASE RemoveApp(p) \/ CopyBegins(p) \/ CopyEnds(p) \/ Stage(p) \/ MoveOld(p) \/ MoveNew(p) \/ DropOld(p) \/ Restore(p)
    BY <2>0, <2>2, AppStep
  <2>3. CASE FindIdentity(p)
    <3>1. UNCHANGED <<app, aside, keychain, signLock, setupHistory>> /\ x.at = "find"
      BY <2>3 DEF FindIdentity, Is
    <3>2. CASE Moves(p, "lock")
      BY <2>a, <3>1, <3>2 DEF InstallPlaces, LockPlaces
    <3>3. CASE \E id \in Identities : Identified(p, id)
      <4>1. PICK q \in Installers : inst' = [inst EXCEPT ![p] = q] /\ q.at \in Thens
        BY <1>0, <3>3, IdentifiedTo
      <4>2. QED BY <1>0, <3>1, <4>1, Quietly DEF HoldsLock, LockPlaces, Thens
    <3>4. QED BY <2>3, <3>2, <3>3 DEF FindIdentity, Identities
  <2>4. CASE Setup(p)
    <3>1. UNCHANGED <<app, aside, keychain, signLock, setupHistory>> /\ x.at = "new"
      BY <2>4 DEF Setup, Is
    <3>2. Identify(p, "read") \/ Moves(p, "compare") \/ Moves(p, "read") \/ Moves(p, "failed")
      BY <2>4 DEF Setup
    <3>3. QED BY <2>a, <2>b, <3>1, <3>2 DEF InstallPlaces, LockPlaces, Thens
  <2>5. CASE Compare(p)
    <3>1. UNCHANGED <<app, aside, keychain, signLock, setupHistory>> /\ x.at = "compare"
      BY <2>5 DEF Compare, Is
    <3>2. Identify(p, "read") \/ Moves(p, "done") \/ Moves(p, "remove") \/ Moves(p, "failed")
      BY <2>5 DEF Compare, GivesUp
    <3>3. QED BY <2>a, <2>b, <3>1, <3>2 DEF InstallPlaces, LockPlaces, Thens
  <2>6. CASE ReadInstalled(p)
    <3> DEFINE then == IF app.hash /\ app.src = "binary" /\ app.whole THEN "upgrade" ELSE "decide"
               k == app.hash
               q == [x EXCEPT !.at = "find", !.known = k, !.then = then]
    <3>1. UNCHANGED <<app, aside, keychain, signLock, setupHistory>> /\ x.at = "read" /\ inst' = [inst EXCEPT ![p] = q]
      BY <2>6 DEF ReadInstalled, Is
    <3>2. then \in Thens /\ k \in BOOLEAN
      BY <1>0 DEF Thens, SetupTypeOK, Apps
    <3> HIDE DEF x, then, k
    <3>3. q \in Installers /\ q.at = "find"
      BY <2>0, <3>2 DEF Installers, InstallPlaces
    <3> HIDE DEF q
    <3>4. QED BY <1>0, <3>1, <3>3, Quietly DEF HoldsLock, LockPlaces, x
  <2>7. CASE Upgrade(p)
    <3>1. UNCHANGED <<app, aside, keychain, signLock, setupHistory>> /\ x.at = "upgrade"
      BY <2>7 DEF Upgrade, Is
    <3>2. Identify(p, "decide") \/ Moves(p, "done")
      BY <2>7 DEF Upgrade
    <3>3. QED BY <2>a, <2>b, <3>1, <3>2 DEF InstallPlaces, LockPlaces, Thens
  <2>8. CASE Decide(p)
    <3> DEFINE refuses == x.id = "adhoc" /\ x.known
               h == setupHistory
               b == h.allowed \/ refuses
    <3>1. UNCHANGED <<app, aside, keychain, signLock>> /\ x.at = "decide"
      BY <2>8 DEF Decide, Is
    <3>2. CASE Moves(p, "failed") /\ UNCHANGED setupHistory
      BY <2>a, <3>1, <3>2 DEF InstallPlaces, LockPlaces
    <3>3. CASE Identify(p, "stage") /\ setupHistory' = [h EXCEPT !.allowed = b]
      <4>1. b \in BOOLEAN
        BY <1>0, <2>0 DEF Histories, Installers
      <4> HIDE DEF h, b
      <4>2. h \in Histories
        BY <1>0 DEF h
      <4>3. setupHistory' \in Histories /\ setupHistory'.had = h.had /\ setupHistory'.spoilt = h.spoilt /\ setupHistory'.stolen = h.stolen
        BY <3>3, <4>1, <4>2 DEF Histories
      <4>4. QED BY <3>1, <3>3, <4>3, QuietlyFinds DEF Thens, h
    <3>4. QED BY <2>8, <3>2, <3>3 DEF Decide
  <2>9. CASE Replace(p)
    <3>1. UNCHANGED <<app, aside, keychain, signLock, setupHistory>> /\ x.at = "replace"
      BY <2>9 DEF Replace, Is
    <3>2. Moves(p, "moveOld") \/ Moves(p, "moveNew")
      BY <2>9 DEF Replace
    <3>3. QED BY <2>a, <3>1, <3>2 DEF InstallPlaces, LockPlaces
  <2>10. QED BY <1>3, <2>1, <2>2, <2>3, <2>4, <2>5, <2>6, <2>7, <2>8, <2>9 DEF InstallerStep
<1>4. QED BY <1>1, <1>2, <1>3 DEF SetupNext

\* InstallsSound: installers beside each other, some of which fail or die, leave
\* one signing identity, unless the lock of a live one was removed, and a whole
\* application where there was one, unless a sealed copy (or the removal before
\* it) failed or met another installer, or one died between its renames (setup-helper.mjs: ensureIdentityOnce, replaceLocalHelperApp).
THEOREM InstallersLeaveAHelper == SetupSpec => []InstallsSound
<1>1. SetupInv => InstallsSound
  <2> SUFFICES ASSUME SetupInv PROVE IdentityOnce /\ AppKept
    BY DEF InstallsSound
  <2>1. IdentityOnce
    <3>1. CASE setupHistory.stolen
      BY <3>1 DEF IdentityOnce
    <3>2. CASE keychain = {} \/ \E q : keychain = {q}
      <4>1. Cardinality(keychain) \in {0, 1}
        BY <3>2, FS_EmptySet, FS_Singleton, Zenon
      <4>2. QED BY <4>1 DEF IdentityOnce
    <3>3. QED BY <3>1, <3>2 DEF SetupInv, IdentityInv
  <2>2. AppKept
    BY DEF SetupInv, KeptInv, Whole, Brings, AppKept, Changing
  <2>3. QED BY <2>1, <2>2
<1>2. QED BY <1>1, SetupStart, SetupStep, PTL DEF SetupSpec

--------------------------------------------------------------------------------
(* MacosHelper: work is done once, and a recheck asks a daemon that looks.    *)

Behind == {"shutdown", "pause", "back"}
Resting == {"done", "failed"}
MacPlaces == Commands \cup Behind \cup Resting \cup {"new", "daemon", "ask"}
MacCalls == [of : MacClient, at : MacPlaces, step : {"", "ensure", "waits", "dial", "wire"}, attempt : {0, 1},
             next : {"", "rediag", "recheck"}, trusts : BOOLEAN, rechecks : Nat, lacked : BOOLEAN]
MacRequests == [by : MacCall, cmd : Commands, heard : BOOLEAN]
Daemons == [up : BOOLEAN, ours : BOOLEAN, stops : SUBSET MacCall, answer : (SUBSET Kind) \cup {Unasked},
            unseen : SUBSET MacCall]
MacClients == [avail : BOOLEAN, ensure : {"none", "probing", "polling"}, polls : Nat, granted : BOOLEAN]
MacHistories == [ran : [MacCall -> Nat], old : BOOLEAN, slow : BOOLEAN]

HostTypeOK == bundle \in Bundles /\ booting \in BOOLEAN /\ upsets \in Nat /\ client \in [MacClient -> MacClients]
MacTypeOK ==
  /\ daemon \in Daemons /\ grants \in SUBSET Kind /\ macCall \in [MacCall -> MacCalls]
  /\ requests \in SUBSET MacRequests /\ macHistory \in MacHistories

\* What is true of a call x of j while the daemon is d and g is granted: before a
\* daemon of another version that has not started under it, it has got no further
\* than that restart, and a recheck of a user who lacks nothing is behind one that
\* forgets old answers.
Early == {"new", "daemon", "diag", "rediag", "done", "failed"} \cup Behind
Asking(x) == x.rechecks > 0 /\ ~x.lacked
Heeds(d) == d.answer \in {Unasked, Kind}
Strange(d, j) == d.up /\ ~d.ours /\ j \notin d.unseen
StaysEarly(d, j, x) == Strange(d, j) => x.at \in Early /\ (x.at \in Behind => x.next = "rediag")
SeesGrant(d, g, j, x) ==
  Asking(x) => /\ g = Kind /\ x.at \in Behind \cup {"recheck"} /\ (x.at \in Behind => x.next = "recheck")
               /\ x.at = "pause" => j \in d.stops \/ Heeds(d)
               /\ x.at \in {"back", "recheck"} => Heeds(d)
WellPlaced(x) ==
  /\ x \in MacCalls /\ (x.at \in Behind => x.next # "")
  /\ x.step \in {"dial", "wire"} => x.at \in Commands
  /\ x.step = "waits" => x.at \in Commands \cup {"daemon", "back"}
Proper(d, g, slow, j, x) == WellPlaced(x) /\ StaysEarly(d, j, x) /\ (slow \/ SeesGrant(d, g, j, x))
CallsProper == \A j \in MacCall : Proper(daemon, grants, macHistory.slow, j, macCall[j])

\* Who has sent its work, or is over, sends none again.
Begun(x) == x.at \in Resting \/ (x.at = "work" /\ x.step = "wire")
ServerInv ==
  /\ ~daemon.up => daemon = NoDaemon /\ requests = {}
  /\ \A r \in requests : r.cmd = "work" => ~Strange(daemon, r.by)
  /\ ~macHistory.old
HeardInv == \A r \in requests : r.heard => macCall[r.by].at = r.cmd /\ macCall[r.by].step = "wire"
WorkInv ==
  /\ \A j \in MacCall : macHistory.ran[j] \in {0, 1} /\ (Begun(macCall[j]) \/ macHistory.ran[j] = 0)
  /\ \A r \in requests : r.cmd = "work" => Begun(macCall[r.by]) /\ macHistory.ran[r.by] = 0
  /\ \A r, s \in requests : r.cmd = "work" /\ s.cmd = "work" /\ r.by = s.by => r = s

MacInv == MacTypeOK /\ CallsProper /\ ServerInv /\ HeardInv /\ WorkInv

\* To a rest, or to the work, or on with what the call remembers.
LEMMA ToIs ==
  ASSUME MacTypeOK, NEW j \in MacCall, NEW at \in MacPlaces, at # "new"
  PROVE  LET y == To(j, at) IN
         /\ y \in MacCalls /\ y.at = at /\ y.step \in {"", "ensure"}
         /\ at \in Resting \cup {"work"} => y.next = "" /\ y.rechecks = 0
         /\ at \notin Resting \cup {"work"} =>
              y.next = macCall[j].next /\ y.rechecks = macCall[j].rechecks /\ y.lacked = macCall[j].lacked
<1> DEFINE x == macCall[j]
           y == To(j, at)
<1>1. x \in MacCalls
  BY DEF MacTypeOK
<1>2. CASE at \in Resting
  <2>1. y = [of |-> x.of, at |-> at, step |-> "", attempt |-> 0, next |-> "", trusts |-> FALSE, rechecks |-> 0, lacked |-> FALSE]
    BY <1>2 DEF To, Resting, Fresh
  <2> HIDE DEF x, y
  <2>2. y \in MacCalls
    BY <1>1, <2>1 DEF MacCalls
  <2>3. y.at = at /\ y.step = "" /\ y.next = "" /\ y.rechecks = 0
    BY <2>1
  <2>4. QED BY <1>2, <2>2, <2>3 DEF y
<1>3. CASE at = "work"
  <2>1. y = [of |-> x.of, at |-> at, step |-> "ensure", attempt |-> 0, next |-> "", trusts |-> FALSE, rechecks |-> 0, lacked |-> FALSE]
    BY <1>3 DEF To, Fresh
  <2> HIDE DEF x, y
  <2>2. y \in MacCalls
    BY <1>1, <2>1 DEF MacCalls
  <2>3. y.at = at /\ y.step = "ensure" /\ y.next = "" /\ y.rechecks = 0
    BY <2>1
  <2>4. QED BY <1>3, <2>2, <2>3 DEF y
<1>4. CASE at \notin Resting \cup {"work"}
  <2>1. y = [x EXCEPT !.at = at, !.step = "ensure", !.attempt = 0]
    BY <1>4 DEF To, Resting
  <2> HIDE DEF x, y
  <2>2. y \in MacCalls
    BY <1>1, <2>1 DEF MacCalls
  <2>3. y.at = at /\ y.step = "ensure" /\ y.next = x.next /\ y.rechecks = x.rechecks /\ y.lacked = x.lacked
    BY <1>1, <2>1 DEF MacCalls
  <2>4. QED BY <1>4, <2>2, <2>3 DEF x, y
<1>5. QED BY <1>2, <1>3, <1>4

\* A call that goes on.
LEMMA GoesOn ==
  ASSUME MacTypeOK, NEW j \in MacCall, NEW at \in MacPlaces, at \notin Resting \cup {"work", "new"}
  PROVE  /\ To(j, at) \in MacCalls /\ To(j, at).at = at /\ To(j, at).step \in {"", "ensure"}
         /\ To(j, at).next = macCall[j].next /\ To(j, at).rechecks = macCall[j].rechecks
         /\ To(j, at).lacked = macCall[j].lacked
BY ToIs

\* A call that is over, or at its work, is proper where work is allowed.
LEMMA RestIsProper ==
  ASSUME MacTypeOK, NEW j \in MacCall, NEW at \in MacPlaces, at \in Resting \cup {"work"}, NEW d, NEW g, NEW slow,
         at # "failed" => ~Strange(d, j)
  PROVE  Proper(d, g, slow, j, To(j, at)) /\ To(j, at).at = at /\ To(j, at).step # "wire"
<1> DEFINE y == To(j, at)
<1>1. /\ y \in MacCalls /\ y.at = at /\ y.step \in {"", "ensure"} /\ y.rechecks = 0
  BY ToIs DEF Resting
<1> HIDE DEF y
<1>2. WellPlaced(y)
  BY <1>1 DEF WellPlaced, Behind, Resting
<1>3. StaysEarly(d, j, y)
  BY <1>1 DEF StaysEarly, Early, Behind, Resting
<1>4. SeesGrant(d, g, j, y)
  <2>1. ~(0 > 0)
    OBVIOUS
  <2>2. ~Asking(y)
    BY <1>1, <2>1 DEF Asking
  <2>3. QED BY <2>2 DEF SeesGrant
<1>5. QED BY <1>1, <1>2, <1>3, <1>4 DEF Proper, y

\* A call whose command rejects: whoever asked for a restart has been heard, or
\* asks a daemon that looks again.
LEMMA RejectedIs ==
  ASSUME MacTypeOK, NEW j \in MacCall, NEW d, NEW g, NEW slow, Proper(d, g, slow, j, macCall[j]),
         macCall[j].at = "shutdown" => slow \/ j \in d.stops \/ Heeds(d)
  PROVE  /\ Proper(d, g, slow, j, Rejected(j)) /\ Rejected(j).step # "wire"
         /\ Begun(macCall[j]) => Begun(Rejected(j))
<1> DEFINE x == macCall[j]
           y == Rejected(j)
<1>1. "failed" \in MacPlaces /\ "pause" \in MacPlaces /\ "ask" \in MacPlaces
  BY DEF MacPlaces, Resting, Behind
<1>2. CASE x.at = "shutdown"
  <2>1. y = To(j, "pause")
    BY <1>2 DEF Rejected
  <2> HIDE DEF y
  <2>2. /\ y \in MacCalls /\ y.at = "pause" /\ y.step \in {"", "ensure"}
        /\ y.next = x.next /\ y.rechecks = x.rechecks /\ y.lacked = x.lacked
    <3>1. "pause" \notin Resting \cup {"work", "new"}
      BY DEF Resting
    <3>2. QED BY <1>1, <2>1, <3>1, GoesOn
  <2> HIDE DEF x, y
  <2>3. WellPlaced(x) /\ StaysEarly(d, j, x) /\ (slow \/ SeesGrant(d, g, j, x)) /\ x.at \in Behind
    BY <1>2 DEF Proper, x, Behind
  <2>4. WellPlaced(y)
    BY <2>2, <2>3 DEF WellPlaced
  <2>5. StaysEarly(d, j, y)
    BY <2>2, <2>3 DEF StaysEarly, Early, Behind
  <2>6. ASSUME ~slow PROVE SeesGrant(d, g, j, y)
    <3>1. (Asking(y) <=> Asking(x)) /\ SeesGrant(d, g, j, x) /\ (j \in d.stops \/ Heeds(d))
      BY <1>2, <2>2, <2>3, <2>6 DEF Asking, x
    <3>2. QED
      BY <2>2, <2>3, <3>1 DEF SeesGrant, Behind
  <2>7. ~Begun(x)
    BY <1>2 DEF Begun, Resting
  <2>8. QED BY <2>2, <2>4, <2>5, <2>6, <2>7 DEF Proper, x, y
<1>3. CASE x.at = "register"
  <2>1. y = To(j, "ask")
    BY <1>3 DEF Rejected
  <2> HIDE DEF y
  <2>2. /\ y \in MacCalls /\ y.at = "ask" /\ y.step \in {"", "ensure"}
        /\ y.rechecks = x.rechecks /\ y.lacked = x.lacked
    <3>1. "ask" \notin Resting \cup {"work", "new"}
      BY DEF Resting
    <3>2. QED BY <1>1, <2>1, <3>1, GoesOn
  <2> HIDE DEF x, y
  <2>3. StaysEarly(d, j, x) /\ (slow \/ SeesGrant(d, g, j, x))
    BY DEF Proper, x
  <2>4. WellPlaced(y)
    BY <2>2 DEF WellPlaced, Behind
  <2>5. StaysEarly(d, j, y)
    BY <1>3, <2>2, <2>3 DEF StaysEarly, Early, Behind
  <2>6. ASSUME SeesGrant(d, g, j, x) PROVE SeesGrant(d, g, j, y)
    <3>1. ~Asking(x)
      BY <1>3, <2>6 DEF SeesGrant, Behind
    <3>2. ~Asking(y)
      BY <2>2, <3>1 DEF Asking
    <3>3. QED BY <3>2 DEF SeesGrant
  <2>7. ~Begun(x)
    BY <1>3 DEF Begun, Resting
  <2>8. QED BY <2>2, <2>3, <2>4, <2>5, <2>6, <2>7 DEF Proper, x, y
<1>4. CASE x.at \notin {"shutdown", "register"}
  <2>1. y = To(j, "failed")
    BY <1>4 DEF Rejected
  <2>2. Proper(d, g, slow, j, y) /\ y.at = "failed" /\ y.step # "wire"
    BY <1>1, <2>1, RestIsProper DEF Resting
  <2>3. Begun(y)
    BY <2>2 DEF Begun, Resting
  <2>4. QED BY <2>2, <2>3
<1>5. QED BY <1>2, <1>3, <1>4

\* A call that has its daemon.
LEMMA EnsuredIs ==
  ASSUME MacTypeOK, NEW j \in MacCall, NEW d, NEW g, NEW slow, Proper(d, g, slow, j, macCall[j]),
         macCall[j].at \in Commands \cup {"daemon", "back"}
  PROVE  Proper(d, g, slow, j, Ensured(j, TRUE)) /\ Ensured(j, TRUE).step # "wire"
<1> DEFINE x == macCall[j]
           y == Ensured(j, TRUE)
<1>1. WellPlaced(x) /\ StaysEarly(d, j, x) /\ (slow \/ SeesGrant(d, g, j, x))
  BY DEF Proper
<1>2. CASE x.at = "daemon"
  <2>1. y = To(j, "diag") /\ "diag" \in MacPlaces
    BY <1>2 DEF Ensured, MacPlaces, Commands
  <2> HIDE DEF y
  <2>2. y \in MacCalls /\ y.at = "diag" /\ y.step \in {"", "ensure"} /\ y.rechecks = x.rechecks /\ y.lacked = x.lacked
    <3>1. "diag" \notin Resting \cup {"work", "new"}
      BY DEF Resting
    <3>2. QED BY <2>1, <3>1, GoesOn
  <2> HIDE DEF x, y
  <2>3. WellPlaced(y)
    BY <2>2 DEF WellPlaced, Behind
  <2>4. StaysEarly(d, j, y)
    BY <2>2 DEF StaysEarly, Early, Behind
  <2>5. ASSUME SeesGrant(d, g, j, x) PROVE SeesGrant(d, g, j, y)
    <3>1. ~Asking(x)
      BY <1>2, <2>5 DEF SeesGrant, Behind
    <3>2. ~Asking(y)
      BY <2>2, <3>1 DEF Asking
    <3>3. QED BY <3>2 DEF SeesGrant
  <2>6. QED BY <1>1, <2>2, <2>3, <2>4, <2>5 DEF Proper, y
<1>3. CASE x.at = "back"
  <2>1. x.next \in {"rediag", "recheck"}
    BY <1>1, <1>3 DEF WellPlaced, MacCalls, Behind
  <2> DEFINE z == To(j, x.next)
  <2>2. y = [z EXCEPT !.next = ""] /\ x.next \in MacPlaces
    BY <1>3, <2>1 DEF Ensured, MacPlaces, Commands
  <2>3. z \in MacCalls /\ z.at = x.next /\ z.step \in {"", "ensure"} /\ z.rechecks = x.rechecks /\ z.lacked = x.lacked
    BY <2>1, <2>2, GoesOn DEF Resting
  <2> HIDE DEF x, y, z
  <2>4. y \in MacCalls /\ y.at = x.next /\ y.step \in {"", "ensure"} /\ y.rechecks = x.rechecks /\ y.lacked = x.lacked
    BY <2>2, <2>3 DEF MacCalls
  <2>5. WellPlaced(y)
    BY <2>1, <2>4 DEF WellPlaced, Behind
  <2>6. StaysEarly(d, j, y)
    BY <1>1, <1>3, <2>1, <2>4 DEF StaysEarly, Early, Behind
  <2>7. ASSUME SeesGrant(d, g, j, x) PROVE SeesGrant(d, g, j, y)
    <3>1. Asking(y) <=> Asking(x)
      BY <2>4 DEF Asking
    <3>2. QED
      BY <1>3, <2>4, <2>7, <3>1 DEF SeesGrant, Behind
  <2>8. QED BY <1>1, <2>4, <2>5, <2>6, <2>7 DEF Proper, y
<1>4. CASE x.at \notin {"daemon", "back"}
  <2>1. y = [x EXCEPT !.step = "dial"] /\ x.at \in Commands
    BY <1>4 DEF Ensured
  <2> HIDE DEF x, y
  <2>2. /\ y \in MacCalls /\ y.at = x.at /\ y.step = "dial" /\ y.next = x.next
        /\ y.rechecks = x.rechecks /\ y.lacked = x.lacked
    BY <1>1, <2>1 DEF WellPlaced, MacCalls
  <2>3. WellPlaced(y)
    BY <1>1, <2>1, <2>2 DEF WellPlaced
  <2>4. StaysEarly(d, j, y)
    BY <1>1, <2>2 DEF StaysEarly
  <2>5. ASSUME SeesGrant(d, g, j, x) PROVE SeesGrant(d, g, j, y)
    <3>1. Asking(y) <=> Asking(x)
      BY <2>2 DEF Asking
    <3>2. QED
      BY <2>2, <2>5, <3>1 DEF SeesGrant
  <2>6. QED BY <1>1, <2>2, <2>3, <2>4, <2>5 DEF Proper, y
<1>5. QED BY <1>2, <1>3, <1>4

\* A call that is not behind a recheck goes on to a stage where it may be.
LEMMA OnIsProper ==
  ASSUME MacTypeOK, NEW j \in MacCall, NEW at \in MacPlaces, at \notin Behind \cup Resting \cup {"work", "new"},
         NEW d, NEW g, NEW slow, Proper(d, g, slow, j, macCall[j]), macCall[j].at \notin Behind \cup {"recheck"},
         Strange(d, j) => at \in Early
  PROVE  Proper(d, g, slow, j, To(j, at)) /\ To(j, at).at = at /\ To(j, at).step # "wire"
<1> DEFINE x == macCall[j]
           y == To(j, at)
<1>1. y \in MacCalls /\ y.at = at /\ y.step \in {"", "ensure"} /\ y.rechecks = x.rechecks /\ y.lacked = x.lacked
  BY GoesOn
<1>2. x.at \notin Behind \cup {"recheck"} /\ (slow \/ SeesGrant(d, g, j, x))
  BY DEF Proper
<1> HIDE DEF x, y
<1>3. WellPlaced(y)
  BY <1>1 DEF WellPlaced, Behind
<1>4. StaysEarly(d, j, y)
  BY <1>1 DEF StaysEarly
<1>5. ASSUME SeesGrant(d, g, j, x) PROVE SeesGrant(d, g, j, y)
  <2>1. ~Asking(x)
    BY <1>2, <1>5 DEF SeesGrant
  <2>2. ~Asking(y)
    BY <1>1, <2>1 DEF Asking
  <2>3. QED BY <2>2 DEF SeesGrant
<1>6. QED BY <1>1, <1>2, <1>3, <1>4, <1>5 DEF Proper, y

\* Whether it trusts an earlier answer, or how often it has tried, is nothing to that.
LEMMA LooksAlike ==
  ASSUME NEW j, NEW d, NEW g, NEW slow, NEW x, NEW y \in MacCalls, Proper(d, g, slow, j, x),
         y.at = x.at, y.step = x.step, y.next = x.next, y.rechecks = x.rechecks, y.lacked = x.lacked
  PROVE  Proper(d, g, slow, j, y)
<1>1. WellPlaced(y)
  BY DEF Proper, WellPlaced
<1>2. StaysEarly(d, j, y)
  BY DEF Proper, StaysEarly
<1>3. Asking(y) <=> Asking(x)
  BY DEF Asking
<1>4. ASSUME SeesGrant(d, g, j, x) PROVE SeesGrant(d, g, j, y)
  BY <1>3, <1>4 DEF SeesGrant
<1>5. QED BY <1>1, <1>2, <1>4 DEF Proper

\* A restart, of a call that is not behind one.
LEMMA RestartIs ==
  ASSUME MacTypeOK, NEW j \in MacCall, NEW at \in {"rediag", "recheck"}
  PROVE  /\ MustRestart(j, at) \in MacCalls /\ MustRestart(j, at).at = "shutdown" /\ MustRestart(j, at).step \in {"", "ensure"}
         /\ MustRestart(j, at).next = at /\ MustRestart(j, at).rechecks = macCall[j].rechecks
         /\ MustRestart(j, at).lacked = macCall[j].lacked
<1> DEFINE z == To(j, "shutdown")
<1>1. "shutdown" \in MacPlaces /\ "shutdown" \notin Resting \cup {"work", "new"}
  BY DEF MacPlaces, Behind, Resting
<1>2. /\ z \in MacCalls /\ z.at = "shutdown" /\ z.step \in {"", "ensure"}
      /\ z.rechecks = macCall[j].rechecks /\ z.lacked = macCall[j].lacked
  BY <1>1, GoesOn
<1>3. MustRestart(j, at) = [z EXCEPT !.next = at]
  BY DEF MustRestart
<1> HIDE DEF z
<1>4. QED BY <1>2, <1>3 DEF MacCalls

LEMMA RestartIsProper ==
  ASSUME MacTypeOK, NEW j \in MacCall, NEW d, NEW g, NEW slow,
         Proper(d, g, slow, j, macCall[j]), macCall[j].at \notin Behind \cup {"recheck"}
  PROVE  Proper(d, g, slow, j, MustRestart(j, "rediag")) /\ MustRestart(j, "rediag").step # "wire"
<1> DEFINE x == macCall[j]
           y == MustRestart(j, "rediag")
<1>1. /\ y \in MacCalls /\ y.at = "shutdown" /\ y.step \in {"", "ensure"} /\ y.next = "rediag"
      /\ y.rechecks = x.rechecks /\ y.lacked = x.lacked
  BY RestartIs
<1>2. x.at \notin Behind \cup {"recheck"} /\ (slow \/ SeesGrant(d, g, j, x))
  BY DEF Proper
<1> HIDE DEF x, y
<1>3. WellPlaced(y)
  BY <1>1 DEF WellPlaced
<1>4. StaysEarly(d, j, y)
  BY <1>1 DEF StaysEarly, Early, Behind
<1>5. ASSUME SeesGrant(d, g, j, x) PROVE SeesGrant(d, g, j, y)
  <2>1. ~Asking(x)
    BY <1>2, <1>5 DEF SeesGrant
  <2>2. ~Asking(y)
    BY <1>1, <2>1 DEF Asking
  <2>3. QED BY <2>2 DEF SeesGrant
<1>6. QED BY <1>1, <1>2, <1>3, <1>4, <1>5 DEF Proper, y

\* Who is told the protocol waits for it.
Told(r, j, x) == r.by = j /\ r.cmd \in {"diag", "rediag"} /\ r.heard => x.at = r.cmd

\* The daemon remembers a shutdown and its answer on grants; calls stay proper.
LEMMA ServedIs ==
  ASSUME MacTypeOK, NEW r \in requests, Served(r)
  PROVE  /\ daemon' \in Daemons /\ daemon'.up = daemon.up /\ daemon'.ours = daemon.ours
         /\ r.cmd = "shutdown" => r.by \in daemon'.stops
         /\ \A j \in MacCall : \A x : Told(r, j, x) /\ Proper(daemon, grants, macHistory.slow, j, x)
                                      => Proper(daemon', grants, macHistory.slow, j, x)
         /\ r.cmd \notin {"diag", "rediag"} \/ ~r.heard => daemon'.unseen = daemon.unseen
         /\ daemon.unseen \ {r.by} \subseteq daemon'.unseen
<1>1. r \in MacRequests /\ daemon \in Daemons /\ grants \in SUBSET Kind
  BY DEF MacTypeOK
<1>2. Asked \in (SUBSET Kind) \cup {Unasked} /\ (Heeds(daemon) /\ grants = Kind => Asked = Kind)
  BY <1>1 DEF Asked, Heeds, Daemons
<1>3. /\ daemon' \in Daemons /\ daemon'.up = daemon.up /\ daemon'.ours = daemon.ours
      /\ daemon.stops \subseteq daemon'.stops /\ daemon'.answer \in {daemon.answer, Asked}
      /\ \/ daemon'.unseen = daemon.unseen
         \/ r.cmd \in {"diag", "rediag"} /\ r.heard /\ daemon'.unseen = daemon.unseen \ {r.by}
      /\ r.cmd = "shutdown" => r.by \in daemon'.stops
  <2>1. CASE r.cmd = "shutdown"
    <3>1. daemon' = [daemon EXCEPT !.stops = @ \cup {r.by}] /\ r.by \in MacCall
      BY <1>1, <2>1 DEF Served, MacRequests
    <3>2. QED BY <1>1, <3>1 DEF Daemons
  <2>2. CASE r.cmd \in {"check", "confirm", "recheck", "register"}
    <3>1. daemon' = [daemon EXCEPT !.answer = Asked]
      BY <2>2 DEF Served
    <3>2. QED BY <1>1, <1>2, <2>2, <3>1 DEF Daemons
  <2>3. CASE r.cmd \notin {"shutdown", "check", "confirm", "recheck", "register", "diag", "rediag"} \/ (r.cmd \in {"diag", "rediag"} /\ ~r.heard)
    <3>1. daemon' = daemon
      BY <2>3 DEF Served
    <3>2. QED BY <1>1, <2>3, <3>1
  <2>5. CASE r.cmd \in {"diag", "rediag"} /\ r.heard
    <3>1. daemon' = [daemon EXCEPT !.unseen = @ \ {r.by}]
      BY <2>5 DEF Served
    <3>2. QED BY <1>1, <2>5, <3>1 DEF Daemons
  <2>4. QED BY <2>1, <2>2, <2>3, <2>5
<1>4. ASSUME NEW j \in MacCall, NEW x, Told(r, j, x), Proper(daemon, grants, macHistory.slow, j, x)
      PROVE  Proper(daemon', grants, macHistory.slow, j, x)
  <2>1. StaysEarly(daemon', j, x)
    <3>1. CASE r.by = j /\ r.cmd \in {"diag", "rediag"} /\ r.heard
      BY <1>4, <3>1 DEF Told, StaysEarly, Early, Behind
    <3>2. CASE ~(r.by = j /\ r.cmd \in {"diag", "rediag"} /\ r.heard)
      <4>1. Strange(daemon', j) => Strange(daemon, j)
        BY <1>3, <3>2 DEF Strange
      <4>2. QED BY <1>4, <4>1 DEF Proper, StaysEarly
    <3>3. QED BY <3>1, <3>2
  <2>2. ASSUME SeesGrant(daemon, grants, j, x) PROVE SeesGrant(daemon', grants, j, x)
    <3>1. CASE Asking(x)
      <4>1. grants = Kind /\ (Heeds(daemon) => Heeds(daemon'))
        BY <1>2, <1>3, <2>2, <3>1 DEF SeesGrant, Heeds
      <4>2. QED BY <1>3, <2>2, <3>1, <4>1 DEF SeesGrant
    <3>2. CASE ~Asking(x)
      BY <3>2 DEF SeesGrant
    <3>3. QED BY <3>1, <3>2
  <2>3. QED BY <1>4, <2>1, <2>2 DEF Proper
<1>5. QED
  <2>1. /\ r.cmd \notin {"diag", "rediag"} \/ ~r.heard => daemon'.unseen = daemon.unseen
        /\ daemon.unseen \ {r.by} \subseteq daemon'.unseen
    BY <1>3
  <2>2. QED BY <1>3, <1>4, <2>1

\* What an answer makes of a call that has waited for it.
LEMMA AnsweredIs ==
  ASSUME MacTypeOK, NEW j \in MacCall, NEW call \in Answered(j), NEW d, daemon.up, d.up = daemon.up, d.ours = daemon.ours,
         macCall[j].at \in Commands, macCall[j].step = "wire",
         Proper(daemon, grants, macHistory.slow, j, macCall[j]), Proper(d, grants, macHistory.slow, j, macCall[j]),
         macCall[j].at = "shutdown" => j \in d.stops
  PROVE  /\ Proper(d, grants, macHistory.slow, j, call) /\ call.step # "wire"
         /\ Begun(macCall[j]) => Begun(call)
<1> DEFINE x == macCall[j]
           g == grants
           slow == macHistory.slow
           Good(y) == Proper(d, g, slow, j, y) /\ y.step # "wire"
<1>1. x.at \in Commands /\ x.step = "wire" /\ (x.at \notin Early => ~Strange(d, j))
  <2>1. StaysEarly(d, j, x)
    BY DEF Proper
  <2>2. QED BY <2>1 DEF StaysEarly
<1>2. Begun(x) <=> x.at = "work"
  BY <1>1 DEF Begun, Resting, Commands
<1>3. ASSUME x.at \notin Behind \cup {"recheck"}, ~Strange(d, j), NEW at \in {"check", "confirm", "register", "ask", "diag"}
      PROVE  Good(To(j, at))
  <2>1. at \in MacPlaces /\ at \notin Behind \cup Resting \cup {"work", "new"}
    BY DEF MacPlaces, Commands, Behind, Resting
  <2>2. QED BY <1>3, <2>1, OnIsProper
<1>4. ASSUME ~Strange(d, j) PROVE Good(To(j, "work")) /\ Good(To(j, "done"))
  <2>1. "work" \in MacPlaces /\ "done" \in MacPlaces /\ "work" \in Resting \cup {"work"} /\ "done" \in Resting \cup {"work"}
    BY DEF MacPlaces, Commands, Resting
  <2>2. Good(To(j, "work"))
    BY <1>4, <2>1, RestIsProper
  <2>3. Good(To(j, "done"))
    BY <1>4, <2>1, RestIsProper
  <2>4. QED BY <2>2, <2>3
<1>5. Good(To(j, "failed"))
  <2>1. "failed" \in MacPlaces /\ "failed" \in Resting \cup {"work"}
    BY DEF MacPlaces, Resting
  <2>2. QED BY <2>1, RestIsProper
<1>6. ASSUME x.at \in {"diag", "rediag"}, ~Strange(d, j), call \in Trusted(j) PROVE Good(call)
  <2>1. x.at \notin Behind \cup {"recheck"}
    BY <1>6 DEF Behind
  <2>2. CASE call = To(j, "work")
    BY <1>4, <1>6, <2>2
  <2>3. CASE call = [To(j, "check") EXCEPT !.trusts = FALSE]
    <3>1. Good(To(j, "check"))
      BY <1>3, <1>6, <2>1
    <3> DEFINE z == To(j, "check")
    <3>2. call = [z EXCEPT !.trusts = FALSE] /\ Good(z)
      BY <2>3, <3>1
    <3> HIDE DEF x, z, g, slow
    <3>3. z \in MacCalls
      BY <3>2 DEF Proper, WellPlaced
    <3>4. /\ call \in MacCalls /\ call.at = z.at /\ call.step = z.step /\ call.next = z.next
          /\ call.rechecks = z.rechecks /\ call.lacked = z.lacked
      BY <3>2, <3>3 DEF MacCalls
    <3>5. QED BY <3>2, <3>4, LooksAlike
  <2>4. QED BY <1>6, <2>2, <2>3 DEF Trusted
<1>7. CASE x.at \in {"diag", "rediag"}
  <2>1. x.at \notin Behind \cup {"recheck"} /\ ~Begun(x)
    BY <1>2, <1>7 DEF Behind
  <2>2. CASE d.ours
    <3>1. call \in Trusted(j)
      <4>1. CASE x.at = "diag"
        BY <2>2, <4>1 DEF Answered
      <4>2. CASE x.at = "rediag"
        BY <2>2, <4>2 DEF Answered
      <4>3. QED BY <1>7, <4>1, <4>2
    <3>2. ~Strange(d, j)
      BY <2>2 DEF Strange
    <3>3. QED BY <1>6, <1>7, <2>1, <3>1, <3>2
  <2>3. CASE ~d.ours
    <3>1. CASE x.at = "diag"
      <4>1. call = MustRestart(j, "rediag")
        BY <2>3, <3>1 DEF Answered
      <4>2. QED BY <2>1, <4>1, RestartIsProper
    <3>2. CASE x.at = "rediag"
      <4>1. call = To(j, "failed")
        BY <2>3, <3>2 DEF Answered
      <4>2. QED BY <1>5, <2>1, <4>1
    <3>3. QED BY <1>7, <3>1, <3>2
  <2>4. QED BY <2>2, <2>3
<1>8. CASE x.at = "shutdown"
  <2>1. call = To(j, "pause")
    BY <1>8 DEF Answered
  <2>2. Rejected(j) = To(j, "pause")
    BY <1>8 DEF Rejected
  <2>3. j \in d.stops
    BY <1>8
  <2>4. Good(Rejected(j))
    BY <2>3, RejectedIs
  <2>5. ~Begun(x)
    BY <1>2, <1>8
  <2>6. QED BY <2>1, <2>2, <2>4, <2>5
<1>9. CASE x.at \in {"check", "confirm"}
  <2>1. x.at \notin Behind \cup {"recheck"} /\ ~Begun(x) /\ ~Strange(d, j)
    BY <1>1, <1>2, <1>9 DEF Behind, Early
  <2>2. call \in {To(j, "work"), To(j, "confirm"), To(j, "register"), To(j, "failed")}
    <3>1. CASE x.at = "check"
      BY <3>1 DEF Answered, Judged
    <3>2. CASE x.at = "confirm"
      BY <3>2 DEF Answered, Judged
    <3>3. QED BY <1>9, <3>1, <3>2
  <2>3. QED BY <1>3, <1>4, <1>5, <2>1, <2>2
<1>10. CASE x.at \in {"register", "pane"}
  <2>1. x.at \notin Behind \cup {"recheck"} /\ ~Begun(x) /\ ~Strange(d, j)
    BY <1>1, <1>2, <1>10 DEF Behind, Early
  <2>2. call = To(j, "ask")
    <3>1. CASE x.at = "register"
      BY <3>1 DEF Answered
    <3>2. CASE x.at = "pane"
      BY <3>2 DEF Answered
    <3>3. QED BY <1>10, <3>1, <3>2
  <2>3. QED BY <1>3, <2>1, <2>2
<1>11. CASE x.at = "recheck"
  <2>1. ~Begun(x) /\ ~Strange(d, j)
    BY <1>1, <1>2, <1>11 DEF Behind, Early
  <2>2. call \in Judged(j, {"ask"})
    BY <1>11 DEF Answered
  <2>3. CASE call = To(j, "work")
    BY <1>4, <2>1, <2>3
  <2>4. CASE call = To(j, "ask") /\ Asked # Kind
    <3>1. ASSUME SeesGrant(daemon, g, j, x) PROVE ~Asking(x)
      BY <1>11, <2>4, <3>1 DEF SeesGrant, Heeds, Asked
    <3>2. slow \/ ~Asking(x)
      BY <3>1 DEF Proper
    <3>3. "ask" \in MacPlaces /\ "ask" \notin Resting \cup {"work", "new"}
      BY DEF MacPlaces, Resting
    <3> DEFINE y == To(j, "ask")
    <3>4. y \in MacCalls /\ y.at = "ask" /\ y.step \in {"", "ensure"} /\ y.rechecks = x.rechecks /\ y.lacked = x.lacked
      BY <3>3, GoesOn
    <3> HIDE DEF x, y
    <3>5. WellPlaced(y)
      BY <3>4 DEF WellPlaced, Behind
    <3>6. StaysEarly(d, j, y)
      BY <2>1 DEF StaysEarly
    <3>7. slow \/ SeesGrant(d, g, j, y)
      BY <3>2, <3>4 DEF SeesGrant, Asking
    <3>8. Good(y)
      BY <3>4, <3>5, <3>6, <3>7 DEF Proper
    <3>9. QED BY <2>1, <2>4, <3>8 DEF x, y
  <2>5. QED BY <2>2, <2>3, <2>4 DEF Judged
<1>12. CASE x.at = "work"
  <2>1. call = To(j, "done") /\ ~Strange(d, j)
    BY <1>1, <1>12 DEF Answered, Early, Behind
  <2>2. To(j, "done").at = "done"
    <3>1. "done" \in MacPlaces /\ "done" \in Resting \cup {"work"}
      BY DEF MacPlaces, Resting
    <3>2. QED BY <3>1, ToIs
  <2>3. QED BY <1>4, <2>1, <2>2 DEF Begun, Resting
<1>13. QED BY <1>1, <1>7, <1>8, <1>9, <1>10, <1>11, <1>12 DEF Commands

\* One call changes.
LEMMA OneCallMoves ==
  ASSUME MacTypeOK, NEW j \in MacCall, NEW y, macCall' = [macCall EXCEPT ![j] = y]
  PROVE  /\ macCall' = [i \in MacCall |-> macCall'[i]] /\ macCall'[j] = y
         /\ \A i \in MacCall \ {j} : macCall'[i] = macCall[i]
BY DEF MacTypeOK

LEMMA SlowIsLenient ==
  ASSUME NEW d, NEW g, NEW j, NEW x, NEW slow, NEW later, slow => later, Proper(d, g, slow, j, x)
  PROVE  Proper(d, g, later, j, x)
BY DEF Proper

\* The history but for how slow things were.
SameWork == macHistory' \in MacHistories /\ macHistory'.ran = macHistory.ran /\ macHistory'.old = macHistory.old
            /\ (macHistory.slow => macHistory'.slow)

\* Calls that wait for no answer move; what the daemon was asked stays.
LEMMA CallsMove ==
  ASSUME MacInv, NEW moved \in SUBSET MacCall, macCall' = [i \in MacCall |-> macCall'[i]],
         \A i \in moved : /\ Proper(daemon, grants, macHistory'.slow, i, macCall'[i])
                          /\ macCall[i].step # "wire" /\ (Begun(macCall[i]) => Begun(macCall'[i])),
         \A i \in MacCall \ moved : macCall'[i] = macCall[i],
         UNCHANGED <<daemon, grants, requests>>, SameWork
  PROVE  MacInv'
<1>1. ASSUME NEW i \in MacCall
      PROVE  Proper(daemon, grants, macHistory'.slow, i, macCall'[i]) /\ (Begun(macCall[i]) => Begun(macCall'[i]))
  <2>1. CASE i \in moved
    BY <2>1
  <2>2. CASE i \notin moved
    <3>1. Proper(daemon, grants, macHistory.slow, i, macCall[i])
      BY DEF MacInv, CallsProper
    <3>2. Proper(daemon, grants, macHistory'.slow, i, macCall[i])
      BY <3>1, SlowIsLenient DEF SameWork
    <3>3. QED BY <2>2, <3>2
  <2>3. QED BY <2>1, <2>2
<1>2. MacTypeOK'
  <2>1. \A i \in MacCall : macCall'[i] \in MacCalls
    BY <1>1 DEF Proper, WellPlaced
  <2>2. macCall' \in [MacCall -> MacCalls]
    BY <2>1
  <2>3. QED BY <2>2 DEF MacInv, MacTypeOK, SameWork
<1>3. CallsProper'
  BY <1>1 DEF CallsProper
<1>4. ServerInv'
  BY DEF MacInv, ServerInv, SameWork
<1>5. HeardInv'
  <2>1. ASSUME NEW r \in requests, r.heard PROVE macCall'[r.by].at = r.cmd /\ macCall'[r.by].step = "wire"
    <3>1. r.by \in MacCall /\ macCall[r.by].at = r.cmd /\ macCall[r.by].step = "wire"
      BY <2>1 DEF MacInv, MacTypeOK, MacRequests, HeardInv
    <3>2. QED BY <3>1
  <2>2. QED BY <2>1 DEF HeardInv
<1>6. WorkInv'
  <2>1. \A r \in requests : r.by \in MacCall
    BY DEF MacInv, MacTypeOK, MacRequests
  <2>2. QED BY <1>1, <2>1 DEF MacInv, WorkInv, SameWork
<1>7. QED BY <1>2, <1>3, <1>4, <1>5, <1>6 DEF MacInv

\* A call that connects to a daemon asks it.
LEMMA ConnectStep ==
  ASSUME MacInv, NEW j \in MacCall, daemon.up, Connects(j), macCall[j].step \in {"ensure", "dial"},
         macCall[j].at \in Commands, UNCHANGED <<daemon, grants, macHistory>>
  PROVE  MacInv'
<1> DEFINE x == macCall[j]
           q == [by |-> j, cmd |-> x.at, heard |-> TRUE]
           y == [x EXCEPT !.step = "wire"]
<1>1. Proper(daemon, grants, macHistory.slow, j, x) /\ MacTypeOK
  BY DEF MacInv, CallsProper
<1>2. x \in MacCalls
  BY <1>1 DEF Proper, WellPlaced
<1>3. requests' = requests \cup {q} /\ macCall' = [macCall EXCEPT ![j] = y]
  BY DEF Connects, Goes
<1>4. macCall' = [i \in MacCall |-> macCall'[i]] /\ macCall'[j] = y /\ \A i \in MacCall \ {j} : macCall'[i] = macCall[i]
  BY <1>1, <1>3, OneCallMoves
<1>5. ~Begun(x)
  BY DEF Begun, Resting, Commands
<1>6. q \in MacRequests /\ q.by = j /\ q.cmd = x.at /\ q.heard
  BY DEF MacRequests
<1>7. x.at \in Commands /\ x.step # "wire"
  OBVIOUS
<1> HIDE DEF x, y
<1>8. /\ y \in MacCalls /\ y.at = x.at /\ y.step = "wire" /\ y.next = x.next
      /\ y.rechecks = x.rechecks /\ y.lacked = x.lacked
  BY <1>2 DEF MacCalls, y
<1>9. Proper(daemon, grants, macHistory.slow, j, y)
  <2>1. WellPlaced(y)
    BY <1>1, <1>7, <1>8 DEF Proper, WellPlaced
  <2>2. StaysEarly(daemon, j, y)
    BY <1>1, <1>8 DEF Proper, StaysEarly
  <2>3. Asking(y) <=> Asking(x)
    BY <1>8 DEF Asking
  <2>4. ASSUME SeesGrant(daemon, grants, j, x) PROVE SeesGrant(daemon, grants, j, y)
    BY <1>8, <2>3, <2>4 DEF SeesGrant
  <2>5. QED BY <1>1, <2>1, <2>2, <2>4 DEF Proper
<1>10. \A i \in MacCall : Proper(daemon, grants, macHistory.slow, i, macCall'[i])
  BY <1>4, <1>9 DEF MacInv, CallsProper
<1> HIDE DEF q
<1>11. MacTypeOK'
  <2>1. \A i \in MacCall : macCall'[i] \in MacCalls
    BY <1>10 DEF Proper, WellPlaced
  <2>2. macCall' \in [MacCall -> MacCalls]
    BY <1>4, <2>1
  <2>3. requests' \in SUBSET MacRequests
    BY <1>1, <1>3, <1>6 DEF MacTypeOK
  <2>4. QED BY <1>1, <2>2, <2>3 DEF MacTypeOK
<1>12. CallsProper'
  BY <1>10 DEF CallsProper
<1>13. ServerInv'
  <2>1. ~Strange(daemon, j) \/ x.at # "work"
    BY <1>1 DEF Proper, StaysEarly, Early, Behind
  <2>2. QED BY <1>3, <1>6, <2>1 DEF MacInv, ServerInv
<1>14. \A r \in requests : r.by \in MacCall /\ (r.heard => r.by # j) /\ (r.cmd = "work" => r.by # j)
  BY <1>5, <1>7 DEF MacInv, MacTypeOK, MacRequests, HeardInv, WorkInv, x
<1>15. HeardInv'
  BY <1>3, <1>4, <1>6, <1>8, <1>14 DEF MacInv, HeardInv
<1>16. WorkInv'
  <2>1. macHistory.ran[j] = 0
    BY <1>5 DEF MacInv, WorkInv, x
  <2>2. x.at = "work" => Begun(y)
    BY <1>8 DEF Begun
  <2>3. \A i \in MacCall : macHistory.ran[i] \in {0, 1} /\ (Begun(macCall'[i]) \/ macHistory.ran[i] = 0)
    BY <1>4, <2>1 DEF MacInv, WorkInv
  <2>4. \A r \in requests' : r.cmd = "work" => Begun(macCall'[r.by]) /\ macHistory.ran[r.by] = 0
    BY <1>3, <1>4, <1>6, <1>14, <2>1, <2>2 DEF MacInv, WorkInv
  <2>5. \A r, s \in requests' : r.cmd = "work" /\ s.cmd = "work" /\ r.by = s.by => r = s
    BY <1>3, <1>6, <1>14 DEF MacInv, WorkInv
  <2>6. QED BY <2>3, <2>4, <2>5 DEF WorkInv
<1>17. QED BY <1>11, <1>12, <1>13, <1>15, <1>16 DEF MacInv

\* What remains of the requests of a call that no longer listens.
LEMMA UnheardIs ==
  ASSUME MacTypeOK, NEW j \in MacCall, NEW q \in Unheard(j)
  PROVE  /\ q \in MacRequests
         /\ \E r \in requests : r.by = q.by /\ r.cmd = q.cmd /\ (IF r.by = j THEN q = [r EXCEPT !.heard = FALSE] /\ ~q.heard ELSE q = r)
<1>1. CASE q \in {[r EXCEPT !.heard = FALSE] : r \in {x \in requests : x.by = j /\ x.cmd \notin Questions}}
  <2>1. PICK r \in requests : r.by = j /\ q = [r EXCEPT !.heard = FALSE]
    BY <1>1
  <2>2. r \in MacRequests
    BY DEF MacTypeOK
  <2>3. q \in MacRequests /\ q.by = r.by /\ q.cmd = r.cmd /\ ~q.heard
    BY <2>1, <2>2 DEF MacRequests
  <2>4. QED BY <2>1, <2>3
<1>2. CASE q \in {r \in requests : r.by # j}
  BY <1>2 DEF MacTypeOK
<1>3. QED BY <1>1, <1>2 DEF Unheard

\* A call that stops waiting moves on, and does not begin its work again.
LEMMA LeavesStep ==
  ASSUME MacInv, NEW j \in MacCall, NEW y, Proper(daemon, grants, macHistory'.slow, j, y), y.step # "wire",
         Begun(macCall[j]) => Begun(y), macCall' = [macCall EXCEPT ![j] = y], requests' = Unheard(j),
         UNCHANGED <<daemon, grants>>, SameWork
  PROVE  MacInv'
<1>1. MacTypeOK
  BY DEF MacInv
<1>2. macCall' = [i \in MacCall |-> macCall'[i]] /\ macCall'[j] = y /\ \A i \in MacCall \ {j} : macCall'[i] = macCall[i]
  BY <1>1, OneCallMoves
<1>3. ASSUME NEW i \in MacCall
      PROVE  Proper(daemon, grants, macHistory'.slow, i, macCall'[i]) /\ (Begun(macCall[i]) => Begun(macCall'[i]))
  <2>1. CASE i = j
    BY <1>2, <2>1
  <2>2. CASE i # j
    <3>1. Proper(daemon, grants, macHistory.slow, i, macCall[i])
      BY DEF MacInv, CallsProper
    <3>2. Proper(daemon, grants, macHistory'.slow, i, macCall[i])
      BY <3>1, SlowIsLenient DEF SameWork
    <3>3. QED BY <1>2, <2>2, <3>2
  <2>3. QED BY <2>1, <2>2
<1>4. MacTypeOK'
  <2>1. \A i \in MacCall : macCall'[i] \in MacCalls
    BY <1>3 DEF Proper, WellPlaced
  <2>2. macCall' \in [MacCall -> MacCalls]
    BY <1>2, <2>1
  <2>3. requests' \in SUBSET MacRequests
    BY <1>1, UnheardIs
  <2>4. QED BY <1>1, <2>2, <2>3 DEF MacTypeOK, SameWork
<1>5. CallsProper'
  BY <1>3 DEF CallsProper
<1>6. ASSUME NEW q \in requests'
      PROVE  \E r \in requests : r.by = q.by /\ r.cmd = q.cmd /\ (IF r.by = j THEN q = [r EXCEPT !.heard = FALSE] /\ ~q.heard ELSE q = r)
  BY <1>1, UnheardIs
<1>7. \A r \in requests : r.by \in MacCall
  BY <1>1 DEF MacTypeOK, MacRequests
<1>8. ServerInv'
  <2>1. requests = {} => requests' = {}
    BY <1>6
  <2>2. \A q \in requests' : \E r \in requests : r.by = q.by /\ r.cmd = q.cmd
    BY <1>6
  <2>3. \A q \in requests' : q.cmd = "work" => ~Strange(daemon, q.by)
    BY <2>2 DEF MacInv, ServerInv
  <2>4. QED BY <2>1, <2>3 DEF MacInv, ServerInv, SameWork
<1>9. HeardInv'
  <2>1. ASSUME NEW q \in requests', q.heard PROVE macCall'[q.by].at = q.cmd /\ macCall'[q.by].step = "wire"
    <3>1. q \in requests /\ q.by # j
      BY <1>6, <2>1
    <3>2. QED BY <1>2, <1>7, <2>1, <3>1 DEF MacInv, HeardInv
  <2>2. QED BY <2>1 DEF HeardInv
<1>10. WorkInv'
  <2>1. \A i \in MacCall : macHistory'.ran[i] \in {0, 1} /\ (Begun(macCall'[i]) \/ macHistory'.ran[i] = 0)
    BY <1>3 DEF MacInv, WorkInv, SameWork
  <2>2. ASSUME NEW q \in requests', q.cmd = "work" PROVE Begun(macCall'[q.by]) /\ macHistory'.ran[q.by] = 0
    <3>1. PICK r \in requests : r.by = q.by /\ r.cmd = "work"
      BY <1>6, <2>2
    <3>2. r.by \in MacCall /\ Begun(macCall[r.by]) /\ macHistory.ran[r.by] = 0
      BY <1>7, <3>1 DEF MacInv, WorkInv
    <3>3. QED BY <1>3, <3>1, <3>2 DEF SameWork
  <2>3. ASSUME NEW q \in requests', NEW s \in requests', q.cmd = "work", s.cmd = "work", q.by = s.by PROVE q = s
    <3>1. PICK r \in requests : r.by = q.by /\ r.cmd = q.cmd /\ (IF r.by = j THEN q = [r EXCEPT !.heard = FALSE] /\ ~q.heard ELSE q = r)
      BY <1>6
    <3>2. PICK t \in requests : t.by = s.by /\ t.cmd = s.cmd /\ (IF t.by = j THEN s = [t EXCEPT !.heard = FALSE] /\ ~s.heard ELSE s = t)
      BY <1>6
    <3>3. r = t
      BY <2>3, <3>1, <3>2 DEF MacInv, WorkInv
    <3>4. CASE r.by = j
      <4>1. q = [r EXCEPT !.heard = FALSE] /\ s = [t EXCEPT !.heard = FALSE]
        BY <3>1, <3>2, <3>3, <3>4
      <4>2. QED BY <3>3, <4>1
    <3>5. CASE r.by # j
      BY <3>1, <3>2, <3>3, <3>5
    <3>6. QED BY <3>4, <3>5
  <2>4. QED BY <2>1, <2>2, <2>3 DEF WorkInv
<1>11. QED BY <1>4, <1>5, <1>8, <1>9, <1>10 DEF MacInv

\* The daemon does what it was asked.
LEMMA ServeStep ==
  ASSUME MacInv, NEW r \in requests, Serve(r)
  PROVE  MacInv'
<1> DEFINE j == r.by
           slow == macHistory.slow
<1>1. MacTypeOK /\ r \in MacRequests /\ j \in MacCall /\ r.cmd \in Commands /\ daemon.up
  BY DEF MacInv, MacTypeOK, MacRequests, ServerInv, Daemons
<1>2. Served(r) /\ requests' = requests \ {r} /\ grants' = grants
  BY DEF Serve
<1>3. /\ daemon' \in Daemons /\ daemon'.up = daemon.up /\ daemon'.ours = daemon.ours
      /\ r.cmd = "shutdown" => j \in daemon'.stops
      /\ \A i \in MacCall : \A x : Told(r, i, x) /\ Proper(daemon, grants, slow, i, x) => Proper(daemon', grants, slow, i, x)
      /\ r.cmd \notin {"diag", "rediag"} \/ ~r.heard => daemon'.unseen = daemon.unseen
      /\ daemon.unseen \ {j} \subseteq daemon'.unseen
  BY <1>1, <1>2, ServedIs
<1>4. /\ macHistory' \in MacHistories /\ macHistory'.slow = slow /\ ~macHistory'.old
      /\ macHistory'.ran = IF r.cmd = "work" THEN [macHistory.ran EXCEPT ![j] = @ + 1] ELSE macHistory.ran
  <2>1. macHistory \in MacHistories /\ ~macHistory.old
    BY <1>1 DEF MacInv, MacTypeOK, ServerInv
  <2>2. CASE r.cmd = "work"
    <3>1. macHistory' = [macHistory EXCEPT !.ran[j] = @ + 1, !.old = @ \/ (~daemon.ours /\ j \notin daemon.unseen)]
      BY <1>2, <2>2 DEF Served
    <3>2. (macHistory.old \/ (~daemon.ours /\ j \notin daemon.unseen)) = FALSE
      <4>1. ~Strange(daemon, j)
        BY <2>2 DEF MacInv, ServerInv
      <4>2. QED BY <1>1, <2>1, <4>1 DEF Strange
    <3>3. macHistory' = [ran |-> [macHistory.ran EXCEPT ![j] = @ + 1], old |-> FALSE, slow |-> slow]
      BY <2>1, <3>1, <3>2 DEF MacHistories
    <3>4. macHistory.ran \in [MacCall -> Nat] /\ slow \in BOOLEAN
      BY <2>1 DEF MacHistories
    <3>5. [macHistory.ran EXCEPT ![j] = @ + 1] \in [MacCall -> Nat]
      BY <1>1, <3>4
    <3>6. QED BY <2>2, <3>3, <3>4, <3>5 DEF MacHistories
  <2>3. CASE r.cmd # "work"
    <3>1. macHistory' = macHistory
      BY <1>2, <2>3 DEF Served
    <3>2. QED BY <2>1, <2>3, <3>1
  <2>4. QED BY <2>2, <2>3
<1>6. r.heard => macCall[j].at = r.cmd /\ macCall[j].step = "wire"
  BY DEF MacInv, HeardInv
<1>5. \A i \in MacCall : Proper(daemon', grants, slow, i, macCall[i])
  <2>1. \A i \in MacCall : Told(r, i, macCall[i])
    BY <1>6 DEF Told
  <2>2. QED BY <1>3, <2>1 DEF MacInv, CallsProper
<1>7. \/ macCall' = macCall /\ ~r.heard
      \/ r.heard /\ \E y : /\ macCall' = [macCall EXCEPT ![j] = y] /\ Proper(daemon', grants, slow, j, y) /\ y.step # "wire"
                           /\ Begun(macCall[j]) => Begun(y)
  <2>1. CASE ~r.heard
    BY <2>1 DEF Serve
  <2>2. CASE r.heard /\ \E call \in Answered(j) : Goes(j, call)
    <3>1. PICK call \in Answered(j) : Goes(j, call)
      BY <2>2
    <3>2. Proper(daemon, grants, slow, j, macCall[j]) /\ Proper(daemon', grants, slow, j, macCall[j])
      BY <1>1, <1>5 DEF MacInv, CallsProper
    <3>3. macCall[j].at \in Commands /\ macCall[j].step = "wire" /\ (macCall[j].at = "shutdown" => j \in daemon'.stops)
      BY <1>1, <1>3, <1>6, <2>2
    <3> HIDE DEF j, slow
    <3>4. Proper(daemon', grants, slow, j, call) /\ call.step # "wire" /\ (Begun(macCall[j]) => Begun(call))
      BY <1>1, <1>3, <3>2, <3>3, AnsweredIs DEF slow
    <3>5. QED BY <2>2, <3>1, <3>4 DEF Goes
  <2>3. CASE r.heard /\ r.cmd # "shutdown" /\ Goes(j, Rejected(j))
    <3>1. macCall[j].at # "shutdown" /\ Proper(daemon', grants, slow, j, macCall[j])
      BY <1>1, <1>5, <1>6, <2>3
    <3>2. /\ Proper(daemon', grants, slow, j, Rejected(j)) /\ Rejected(j).step # "wire"
          /\ Begun(macCall[j]) => Begun(Rejected(j))
      BY <1>1, <3>1, RejectedIs
    <3>3. QED BY <2>3, <3>2 DEF Goes
  <2>4. \/ r.heard /\ \E call \in Answered(j) : Goes(j, call) /\ Learns(j, call)
        \/ r.heard /\ r.cmd \notin {"diag", "rediag", "shutdown"} /\ Goes(j, Rejected(j))
        \/ ~r.heard
    BY DEF Serve
  <2> HIDE DEF j, slow
  <2>5. CASE r.heard /\ \E call \in Answered(j) : Goes(j, call) /\ Learns(j, call)
    BY <2>2, <2>5
  <2>6. CASE r.heard /\ r.cmd \notin {"diag", "rediag", "shutdown"} /\ Goes(j, Rejected(j))
    BY <2>3, <2>6
  <2>7. QED BY <2>1, <2>4, <2>5, <2>6
<1>8. /\ macCall' = [i \in MacCall |-> macCall'[i]]
      /\ \A i \in MacCall : Proper(daemon', grants, slow, i, macCall'[i]) /\ (Begun(macCall[i]) => Begun(macCall'[i]))
      /\ \A i \in MacCall : macCall'[i] = macCall[i] \/ (i = j /\ r.heard)
  <2>1. CASE macCall' = macCall
    BY <1>1, <1>5, <2>1 DEF MacTypeOK
  <2>2. CASE r.heard /\ \E y : /\ macCall' = [macCall EXCEPT ![j] = y] /\ Proper(daemon', grants, slow, j, y) /\ y.step # "wire"
                               /\ Begun(macCall[j]) => Begun(y)
    <3>1. PICK y : /\ macCall' = [macCall EXCEPT ![j] = y] /\ Proper(daemon', grants, slow, j, y)
                   /\ Begun(macCall[j]) => Begun(y)
      BY <2>2
    <3>2. macCall' = [i \in MacCall |-> macCall'[i]] /\ macCall'[j] = y /\ \A i \in MacCall \ {j} : macCall'[i] = macCall[i]
      BY <1>1, <3>1, OneCallMoves
    <3> HIDE DEF j, slow
    <3>3. QED BY <1>5, <2>2, <3>1, <3>2
  <2>3. QED BY <1>7, <2>1, <2>2
<1>9. MacTypeOK'
  <2>1. macCall' \in [MacCall -> MacCalls]
    <3>1. \A i \in MacCall : macCall'[i] \in MacCalls
      BY <1>8 DEF Proper, WellPlaced
    <3>2. QED BY <1>8, <3>1
  <2>2. requests' \in SUBSET MacRequests
    BY <1>1, <1>2 DEF MacTypeOK
  <2>3. QED BY <1>1, <1>2, <1>3, <1>4, <2>1, <2>2 DEF MacTypeOK
<1>10. CallsProper'
  BY <1>2, <1>4, <1>8 DEF CallsProper
<1>11. ServerInv'
  <2>1. ASSUME NEW q \in requests', q.cmd = "work" PROVE ~Strange(daemon', q.by)
    <3>1. q \in requests /\ q.by \in MacCall /\ ~Strange(daemon, q.by)
      BY <1>1, <1>2, <2>1 DEF MacInv, ServerInv, MacTypeOK, MacRequests
    <3>2. Begun(macCall[q.by])
      BY <2>1, <3>1 DEF MacInv, WorkInv
    <3>3. r.cmd \in {"diag", "rediag"} /\ r.heard => q.by # j
      BY <1>6, <3>2 DEF Begun, Resting
    <3>4. Strange(daemon', q.by) => Strange(daemon, q.by)
      BY <1>3, <3>3 DEF Strange
    <3>5. QED BY <3>1, <3>4
  <2>2. QED BY <1>1, <1>2, <1>3, <1>4, <2>1 DEF MacInv, ServerInv
<1>12. \A q \in requests : q.by \in MacCall /\ q \in MacRequests
  BY <1>1 DEF MacTypeOK, MacRequests
<1>13. HeardInv'
  <2>1. ASSUME NEW q \in requests', q.heard PROVE macCall'[q.by].at = q.cmd /\ macCall'[q.by].step = "wire"
    <3>1. q \in requests /\ q # r /\ macCall[q.by].at = q.cmd /\ macCall[q.by].step = "wire"
      BY <1>2, <2>1 DEF MacInv, HeardInv
    <3>2. CASE macCall'[q.by] = macCall[q.by]
      BY <3>1, <3>2
    <3>3. CASE q.by = j /\ r.heard
      <4>1. q.by = r.by /\ q.cmd = r.cmd
        BY <1>6, <3>1, <3>3
      <4>2. q = r
        BY <1>1, <1>12, <2>1, <3>1, <3>3, <4>1 DEF MacRequests
      <4>3. QED BY <3>1, <4>2
    <3>4. QED BY <1>8, <1>12, <3>1, <3>2, <3>3
  <2>2. QED BY <2>1 DEF HeardInv
<1>14. WorkInv'
  <2>1. WorkInv
    BY DEF MacInv
  <2>2. CASE r.cmd # "work"
    <3>1. macHistory'.ran = macHistory.ran
      BY <1>4, <2>2
    <3>2. QED BY <1>2, <1>8, <1>12, <2>1, <3>1 DEF WorkInv
  <2>3. CASE r.cmd = "work"
    <3>1. macHistory.ran[j] = 0 /\ Begun(macCall[j]) /\ \A q \in requests' : q.cmd = "work" => q.by # j
      BY <1>2, <2>1, <2>3 DEF WorkInv
    <3>2. macHistory.ran \in [MacCall -> Nat]
      BY <1>1 DEF MacTypeOK, MacHistories
    <3>3. macHistory'.ran[j] = 1 /\ \A i \in MacCall \ {j} : macHistory'.ran[i] = macHistory.ran[i]
      BY <1>1, <1>4, <2>3, <3>1, <3>2
    <3>4. \A i \in MacCall : macHistory'.ran[i] \in {0, 1} /\ (Begun(macCall'[i]) \/ macHistory'.ran[i] = 0)
      BY <1>8, <2>1, <3>1, <3>3 DEF WorkInv
    <3>5. \A q \in requests' : q.cmd = "work" => Begun(macCall'[q.by]) /\ macHistory'.ran[q.by] = 0
      BY <1>2, <1>8, <1>12, <2>1, <3>1, <3>3 DEF WorkInv
    <3>6. QED BY <1>2, <2>1, <3>4, <3>5 DEF WorkInv
  <2>4. QED BY <2>2, <2>3
<1>15. QED BY <1>9, <1>10, <1>11, <1>13, <1>14 DEF MacInv

\* A daemon that has just started.
Booted(b) == IF b THEN NewDaemon ELSE [NewDaemon EXCEPT !.ours = FALSE, !.unseen = HaveAsked]

LEMMA DaemonIs == /\ NoDaemon \in Daemons /\ ~NoDaemon.up
                  /\ \A b \in BOOLEAN : [NewDaemon EXCEPT !.ours = b] \in Daemons /\ [NewDaemon EXCEPT !.ours = b].up
                  /\ [NewDaemon EXCEPT !.answer = {}] \in Daemons /\ [NewDaemon EXCEPT !.answer = {}].up
                  /\ NewDaemon \in Daemons /\ NewDaemon.up
                  /\ Booted(TRUE) \in Daemons /\ Booted(TRUE).up /\ Booted(TRUE).answer = Unasked /\ (Booted(TRUE).ours \/ Booted(TRUE).unseen = HaveAsked)
                  /\ Booted(FALSE) \in Daemons /\ Booted(FALSE).up /\ Booted(FALSE).answer = Unasked /\ (Booted(FALSE).ours \/ Booted(FALSE).unseen = HaveAsked)
<1> DEFINE Answers0 == (SUBSET Kind) \cup {Unasked}
<1>1. Unasked \in Answers0 /\ {} \in Answers0 /\ {} \in SUBSET MacCall
  OBVIOUS
<1>2. Daemons = [up : BOOLEAN, ours : BOOLEAN, stops : SUBSET MacCall, answer : Answers0, unseen : SUBSET MacCall]
  BY DEF Daemons
<1> HIDE DEF Answers0
<1>3. NoDaemon \in Daemons /\ ~NoDaemon.up
  BY <1>1, <1>2 DEF NoDaemon
<1>4. NewDaemon \in Daemons /\ NewDaemon.up
  BY <1>1, <1>2 DEF NewDaemon
<1>5. [NewDaemon EXCEPT !.answer = {}] \in Daemons /\ [NewDaemon EXCEPT !.answer = {}].up
  BY <1>1, <1>2, <1>4
<1>6. \A b \in BOOLEAN : [NewDaemon EXCEPT !.ours = b] \in Daemons /\ [NewDaemon EXCEPT !.ours = b].up
  BY <1>1, <1>2, <1>4
<1> DEFINE Started(d) == d \in Daemons /\ d.up /\ d.answer = Unasked /\ (d.ours \/ d.unseen = HaveAsked)
<1>9. NewDaemon.answer = Unasked /\ NewDaemon.ours /\ HaveAsked \in SUBSET MacCall
  BY DEF NewDaemon, HaveAsked
<1>10. Started(Booted(TRUE))
  BY <1>1, <1>2, <1>4, <1>9 DEF Booted
<1>11. Started(Booted(FALSE))
  BY <1>1, <1>2, <1>4, <1>9 DEF Booted
<1>7. Started(Booted(TRUE)) /\ Started(Booted(FALSE))
  BY <1>10, <1>11
<1>8. QED BY <1>3, <1>4, <1>5, <1>6, <1>7

\* A daemon comes or goes, and none remembers what an earlier one was asked.
LEMMA DaemonStep ==
  ASSUME MacInv, daemon' \in {NoDaemon, Booted(TRUE), Booted(FALSE), daemon}, requests' \in {{}, requests}, daemon' = daemon \/ requests' = {},
         UNCHANGED <<grants, macCall, macHistory>>
  PROVE  MacInv'
<1>1. CASE daemon' = daemon /\ requests' = requests
  BY <1>1 DEF MacInv, MacTypeOK, CallsProper, ServerInv, HeardInv, WorkInv
<1>2. CASE requests' = {}
  <2>1. daemon' \in Daemons
    BY DaemonIs DEF MacInv, MacTypeOK
  <2>2. MacTypeOK'
    BY <1>2, <2>1 DEF MacInv, MacTypeOK
  <2>3. CallsProper'
    <3>1. ASSUME NEW j \in MacCall PROVE Proper(daemon', grants, macHistory.slow, j, macCall[j])
      <4>1. Proper(daemon, grants, macHistory.slow, j, macCall[j])
        BY DEF MacInv, CallsProper
      <4>2. CASE daemon' = daemon
        BY <4>1, <4>2
      <4>3. CASE daemon' \in {NoDaemon, Booted(TRUE), Booted(FALSE)}
        <5>1. Heeds(daemon') /\ (j \in HaveAsked => ~Strange(daemon', j))
          <6>1. CASE daemon' = NoDaemon
            BY <6>1 DEF Heeds, Strange, NoDaemon
          <6>2. CASE daemon' \in {Booted(TRUE), Booted(FALSE)}
            BY <6>2, DaemonIs DEF Heeds, Strange
          <6>3. QED BY <4>3, <6>1, <6>2
        <5>2. StaysEarly(daemon', j, macCall[j])
          BY <5>1 DEF StaysEarly, HaveAsked, Early, Behind
        <5>3. SeesGrant(daemon, grants, j, macCall[j]) => SeesGrant(daemon', grants, j, macCall[j])
          BY <5>1 DEF SeesGrant
        <5>4. QED BY <4>1, <5>2, <5>3 DEF Proper
      <4>4. QED BY <4>2, <4>3
    <3>2. QED BY <3>1 DEF CallsProper
  <2>4. ServerInv'
    <3>1. ~daemon'.up => daemon' = NoDaemon
      BY DaemonIs DEF MacInv, ServerInv
    <3>2. QED BY <1>2, <3>1 DEF MacInv, ServerInv
  <2>5. HeardInv' /\ WorkInv'
    BY <1>2 DEF MacInv, HeardInv, WorkInv
  <2>6. QED BY <2>2, <2>3, <2>4, <2>5 DEF MacInv
<1>3. QED BY <1>1, <1>2

\* Who has been told of a switch no longer counts as lacking nothing.
LEMMA SwitchStep ==
  ASSUME MacInv, NEW k \in Kind, Switch(k)
  PROVE  MacInv'
<1>1. MacTypeOK /\ grants' \in SUBSET Kind /\ UNCHANGED <<daemon, requests, macHistory>>
  BY DEF MacInv, MacTypeOK, Switch
<1>2. ASSUME NEW j \in MacCall
      PROVE  /\ Proper(daemon, grants', macHistory.slow, j, macCall'[j])
             /\ macCall'[j].at = macCall[j].at /\ macCall'[j].step = macCall[j].step
  <2> DEFINE x == macCall[j]
             lacks == x.lacked \/ (x.rechecks > 0 /\ grants' # Kind)
             y == [x EXCEPT !.lacked = lacks]
  <2>1. macCall'[j] = y
    BY DEF Switch
  <2>2. Proper(daemon, grants, macHistory.slow, j, x)
    BY DEF MacInv, CallsProper
  <2>3. lacks \in BOOLEAN
    BY Zenon
  <2>4. Asking(x) /\ grants = Kind => lacks
    BY DEF Asking, Switch
  <2>5. x.lacked => lacks
    OBVIOUS
  <2> HIDE DEF x, lacks
  <2>6. x \in MacCalls
    BY <2>2 DEF Proper, WellPlaced
  <2>7. /\ y \in MacCalls /\ y.at = x.at /\ y.step = x.step /\ y.next = x.next
        /\ y.rechecks = x.rechecks /\ y.lacked = lacks
    BY <2>3, <2>6 DEF MacCalls
  <2> HIDE DEF y
  <2>8. WellPlaced(y)
    BY <2>2, <2>7 DEF Proper, WellPlaced
  <2>9. StaysEarly(daemon, j, y)
    BY <2>2, <2>7 DEF Proper, StaysEarly
  <2>10. ASSUME SeesGrant(daemon, grants, j, x) PROVE SeesGrant(daemon, grants', j, y)
    <3>1. Asking(y) => Asking(x) /\ ~lacks
      BY <2>5, <2>7 DEF Asking
    <3>2. ~Asking(y)
      BY <2>4, <2>10, <3>1 DEF SeesGrant
    <3>3. QED BY <3>2 DEF SeesGrant
  <2>11. Proper(daemon, grants', macHistory.slow, j, y)
    BY <2>2, <2>8, <2>9, <2>10 DEF Proper
  <2>12. QED BY <2>1, <2>7, <2>11 DEF x
<1>3. MacTypeOK'
  <2>1. \A j \in MacCall : macCall'[j] \in MacCalls
    BY <1>2 DEF Proper, WellPlaced
  <2>2. macCall' = [j \in MacCall |-> macCall'[j]]
    BY DEF Switch
  <2>3. macCall' \in [MacCall -> MacCalls]
    BY <2>1, <2>2
  <2>4. QED BY <1>1, <2>3 DEF MacTypeOK
<1>4. CallsProper'
  BY <1>1, <1>2 DEF CallsProper
<1>5. ServerInv'
  BY <1>1 DEF MacInv, ServerInv
<1>6. \A r \in requests : r.by \in MacCall
  BY <1>1 DEF MacTypeOK, MacRequests
<1>7. HeardInv'
  BY <1>1, <1>2, <1>6 DEF MacInv, HeardInv
<1>8. WorkInv'
  BY <1>1, <1>2, <1>6 DEF MacInv, WorkInv, Begun
<1>9. QED BY <1>3, <1>4, <1>5, <1>7, <1>8 DEF MacInv

LEMMA MacStart == MacInit => MacInv
<1> SUFFICES ASSUME MacInit PROVE MacInv
  OBVIOUS
<1>1. PICK crew \in Crews, b \in Bundles, g \in SUBSET Kind,
           d \in {NoDaemon, [NewDaemon EXCEPT !.ours = FALSE], [NewDaemon EXCEPT !.answer = {}]} : MacState(crew, b, d, g, 0, "new")
  BY DEF MacInit
<1>2. crew \in [MacCall -> MacClient]
  BY MacAssumption
<1>3. /\ daemon = d /\ grants = g /\ requests = {} /\ macCall = [j \in MacCall |-> Fresh(crew[j], "new")]
      /\ macHistory = [ran |-> [j \in MacCall |-> 0], old |-> FALSE, slow |-> FALSE]
  BY <1>1 DEF MacState
<1>4. d \in Daemons /\ (~d.up => d = NoDaemon)
  BY DaemonIs
<1>5. ASSUME NEW j \in MacCall
      PROVE  Proper(d, g, FALSE, j, macCall[j]) /\ ~Begun(macCall[j])
  <2> DEFINE y == macCall[j]
  <2>1. y = [of |-> crew[j], at |-> "new", step |-> "", attempt |-> 0, next |-> "", trusts |-> FALSE, rechecks |-> 0, lacked |-> FALSE]
    BY <1>3 DEF Fresh
  <2>2. crew[j] \in MacClient /\ "new" \in MacPlaces
    BY <1>2 DEF MacPlaces
  <2> HIDE DEF y
  <2>3. y \in MacCalls
    BY <2>1, <2>2 DEF MacCalls
  <2>4. y.at = "new" /\ y.step = "" /\ y.rechecks = 0
    BY <2>1
  <2>5. WellPlaced(y)
    BY <2>3, <2>4 DEF WellPlaced, Behind
  <2>6. StaysEarly(d, j, y)
    BY <2>4 DEF StaysEarly, Early, Behind
  <2>7. ~(0 > 0)
    OBVIOUS
  <2>8. SeesGrant(d, g, j, y)
    BY <2>4, <2>7 DEF SeesGrant, Asking
  <2>9. ~Begun(y)
    BY <2>4 DEF Begun, Resting
  <2>10. QED BY <2>5, <2>6, <2>8, <2>9 DEF Proper, y
<1>6. macHistory \in MacHistories /\ ~macHistory.slow /\ ~macHistory.old /\ \A j \in MacCall : macHistory.ran[j] = 0
  BY <1>3 DEF MacHistories
<1>7. MacTypeOK
  <2>1. \A j \in MacCall : macCall[j] \in MacCalls
    BY <1>5 DEF Proper, WellPlaced
  <2>2. macCall \in [MacCall -> MacCalls]
    BY <1>3, <2>1
  <2>3. QED BY <1>3, <1>4, <1>6, <2>2 DEF MacTypeOK
<1>8. macHistory.slow = FALSE
  BY <1>3
<1>9. CallsProper
  BY <1>3, <1>5, <1>8 DEF CallsProper
<1>10. ServerInv
  BY <1>3, <1>4, <1>6 DEF ServerInv
<1>11. HeardInv /\ WorkInv
  <2>1. HeardInv
    BY <1>3 DEF HeardInv
  <2>2. \A j \in MacCall : macHistory.ran[j] \in {0, 1} /\ (Begun(macCall[j]) \/ macHistory.ran[j] = 0)
    BY <1>6
  <2>3. QED BY <1>3, <2>1, <2>2 DEF WorkInv
<1>12. QED BY <1>7, <1>9, <1>10, <1>11 DEF MacInv

\* One call moves that waits for no answer.
LEMMA OneMoves ==
  ASSUME MacInv, NEW j \in MacCall, NEW y, Goes(j, y), Proper(daemon, grants, macHistory.slow, j, y),
         macCall[j].step # "wire", Begun(macCall[j]) => Begun(y), UNCHANGED <<daemon, grants, requests, macHistory>>
  PROVE  MacInv'
<1>1. macCall' = [i \in MacCall |-> macCall'[i]] /\ macCall'[j] = y /\ \A i \in MacCall \ {j} : macCall'[i] = macCall[i]
  BY OneCallMoves DEF MacInv, Goes
<1>2. SameWork
  BY DEF MacInv, MacTypeOK, SameWork
<1> DEFINE moved == {j}
<1>3. moved \in SUBSET MacCall
  OBVIOUS
<1>4. \A i \in moved : /\ Proper(daemon, grants, macHistory'.slow, i, macCall'[i])
                       /\ macCall[i].step # "wire" /\ (Begun(macCall[i]) => Begun(macCall'[i]))
  BY <1>1
<1>5. \A i \in MacCall \ moved : macCall'[i] = macCall[i]
  BY <1>1
<1> HIDE DEF moved
<1>6. QED BY <1>1, <1>2, <1>3, <1>4, <1>5, CallsMove

LEMMA StepsOn ==
  ASSUME NEW j, NEW d, NEW g, NEW slow, NEW x, NEW y, Proper(d, g, slow, j, x), WellPlaced(y),
         y.at = x.at, y.next = x.next, y.rechecks = x.rechecks, y.lacked = x.lacked
  PROVE  Proper(d, g, slow, j, y)
<1>1. StaysEarly(d, j, y)
  BY DEF Proper, StaysEarly
<1>2. Asking(y) <=> Asking(x)
  BY DEF Asking
<1>3. ASSUME SeesGrant(d, g, j, x) PROVE SeesGrant(d, g, j, y)
  BY <1>2, <1>3 DEF SeesGrant
<1>4. QED BY <1>1, <1>3 DEF Proper

\* Nobody listens: the daemon that is not there remembers nothing.
LEMMA NobodyListens == MacInv /\ ~daemon.up => Heeds(daemon)
BY DEF MacInv, ServerInv, Heeds, NoDaemon

LEMMA RefusedStep ==
  ASSUME MacInv, NEW j \in MacCall, ~daemon.up, Refused(j), macCall[j].step \in {"ensure", "dial"},
         macCall[j].at \in Commands, UNCHANGED <<daemon, grants, requests, macHistory>>
  PROVE  MacInv'
<1> DEFINE x == macCall[j]
           y == [x EXCEPT !.step = "ensure", !.attempt = 1]
<1>1. MacTypeOK /\ Proper(daemon, grants, macHistory.slow, j, x) /\ Heeds(daemon)
  BY NobodyListens DEF MacInv, CallsProper
<1>2. CASE Goes(j, Rejected(j))
  <2>1. /\ Proper(daemon, grants, macHistory.slow, j, Rejected(j)) /\ (Begun(x) => Begun(Rejected(j)))
    BY <1>1, RejectedIs
  <2>2. QED BY <1>2, <2>1, OneMoves
<1>3. CASE Goes(j, y)
  <2>1. ~Begun(x) /\ x.step # "wire" /\ x.at \in Commands
    BY DEF Begun, Resting, Commands
  <2> HIDE DEF x
  <2>2. /\ y \in MacCalls /\ y.at = x.at /\ y.step = "ensure" /\ y.next = x.next
        /\ y.rechecks = x.rechecks /\ y.lacked = x.lacked
    BY <1>1 DEF Proper, WellPlaced, MacCalls
  <2> HIDE DEF y
  <2>3. WellPlaced(y)
    BY <1>1, <2>2 DEF Proper, WellPlaced
  <2>4. Proper(daemon, grants, macHistory.slow, j, y)
    BY <1>1, <2>2, <2>3, StepsOn
  <2>5. QED BY <1>3, <2>1, <2>4, OneMoves DEF x
<1>4. QED BY <1>2, <1>3 DEF Refused

LEMMA EnsureStep ==
  ASSUME MacInv, NEW j \in MacCall, Ensure(j)
  PROVE  MacInv'
<1> DEFINE x == macCall[j]
           c == x.of
           y == [x EXCEPT !.step = "waits"]
<1>1. /\ x.step = "ensure" /\ x.at \in Commands \cup {"daemon", "back"}
      /\ UNCHANGED <<daemon, grants, macHistory>>
  BY DEF Ensure
<1>2. MacTypeOK /\ Proper(daemon, grants, macHistory.slow, j, x) /\ ~Begun(x) /\ x.step # "wire"
  BY <1>1 DEF MacInv, CallsProper, Begun, Resting, Commands
<1>3. CASE client[c].avail /\ x.at \in Commands
  <2>1. Connects(j)
    BY <1>3 DEF Ensure
  <2>2. CASE daemon.up
    BY <1>1, <1>3, <2>1, <2>2, ConnectStep
  <2>3. CASE ~daemon.up
    <3>1. Refused(j) /\ UNCHANGED requests
      BY <2>1, <2>3 DEF Connects
    <3>2. QED BY <1>1, <1>3, <2>3, <3>1, RefusedStep
  <2>4. QED BY <2>2, <2>3
<1>4. CASE client[c].avail /\ x.at \notin Commands
  <2>1. Goes(j, Ensured(j, TRUE)) /\ UNCHANGED requests
    BY <1>4 DEF Ensure
  <2>2. Proper(daemon, grants, macHistory.slow, j, Ensured(j, TRUE))
    BY <1>1, <1>2, EnsuredIs
  <2>3. QED BY <1>1, <1>2, <2>1, <2>2, OneMoves
<1>5. CASE ~client[c].avail
  <2>1. Goes(j, y) /\ UNCHANGED requests
    BY <1>5 DEF Ensure
  <2> HIDE DEF x
  <2>2. /\ y \in MacCalls /\ y.at = x.at /\ y.step = "waits" /\ y.next = x.next
        /\ y.rechecks = x.rechecks /\ y.lacked = x.lacked
    BY <1>2 DEF Proper, WellPlaced, MacCalls
  <2> HIDE DEF y
  <2>3. WellPlaced(y)
    BY <1>1, <1>2, <2>2 DEF Proper, WellPlaced
  <2>4. Proper(daemon, grants, macHistory.slow, j, y)
    BY <1>2, <2>2, <2>3, StepsOn
  <2>5. QED BY <1>1, <1>2, <2>1, <2>4, OneMoves DEF x
<1>6. QED BY <1>3, <1>4, <1>5

LEMMA DialStep ==
  ASSUME MacInv, NEW j \in MacCall, Dial(j)
  PROVE  MacInv'
<1>1. macCall[j].step = "dial" /\ Connects(j) /\ UNCHANGED <<daemon, grants, macHistory>>
  BY DEF Dial
<1>2. macCall[j].at \in Commands
  BY <1>1 DEF MacInv, CallsProper, Proper, WellPlaced
<1>3. CASE daemon.up
  BY <1>1, <1>2, <1>3, ConnectStep
<1>4. CASE ~daemon.up
  <2>1. Refused(j) /\ UNCHANGED requests
    BY <1>1, <1>4 DEF Connects
  <2>2. QED BY <1>1, <1>2, <1>4, <2>1, RefusedStep
<1>5. QED BY <1>3, <1>4

LEMMA BreaksStep ==
  ASSUME MacInv, NEW j \in MacCall, Breaks(j)
  PROVE  MacInv'
<1> DEFINE x == macCall[j]
<1>1. MacTypeOK /\ Proper(daemon, grants, macHistory.slow, j, x)
  BY DEF MacInv, CallsProper
<1>2. /\ macCall' = [macCall EXCEPT ![j] = Rejected(j)] /\ requests' = Unheard(j) /\ UNCHANGED <<daemon, grants>>
      /\ macHistory' = [macHistory EXCEPT !.slow = @ \/ x.at = "shutdown"]
  BY DEF Breaks, Goes
<1>3. SameWork /\ (x.at = "shutdown" => macHistory'.slow)
  BY <1>1, <1>2 DEF MacTypeOK, MacHistories, SameWork
<1>4. Proper(daemon, grants, macHistory'.slow, j, x)
  BY <1>1, <1>3, SlowIsLenient DEF SameWork
<1>5. /\ Proper(daemon, grants, macHistory'.slow, j, Rejected(j)) /\ Rejected(j).step # "wire"
      /\ Begun(x) => Begun(Rejected(j))
  BY <1>1, <1>3, <1>4, RejectedIs
<1>6. QED BY <1>2, <1>3, <1>5, LeavesStep

LEMMA AbortStep ==
  ASSUME MacInv, NEW j \in MacCall, AbortMac(j)
  PROVE  MacInv'
<1>1. "failed" \in MacPlaces /\ "failed" \in Resting \cup {"work"} /\ MacTypeOK
  BY DEF MacPlaces, Resting, MacInv
<1>2. /\ macCall' = [macCall EXCEPT ![j] = To(j, "failed")] /\ requests' = Unheard(j)
      /\ UNCHANGED <<daemon, grants, macHistory>>
  BY DEF AbortMac, Goes
<1>3. SameWork
  BY <1>1, <1>2 DEF MacTypeOK, SameWork
<1>4. Proper(daemon, grants, macHistory'.slow, j, To(j, "failed")) /\ To(j, "failed").at = "failed" /\ To(j, "failed").step # "wire"
  BY <1>1, RestIsProper
<1>5. Begun(To(j, "failed"))
  BY <1>4 DEF Begun, Resting
<1>6. QED BY <1>2, <1>3, <1>4, <1>5, LeavesStep

LEMMA InstallStep ==
  ASSUME MacInv, HostTypeOK, NEW j \in MacCall, EnsureInstalled(j)
  PROVE  MacInv'
<1> DEFINE x == macCall[j]
           z == To(j, "daemon")
           b == client[x.of].granted
           y == [z EXCEPT !.trusts = b]
<1>1. MacTypeOK /\ Proper(daemon, grants, macHistory.slow, j, x)
  BY DEF MacInv, CallsProper
<1>2. x.at = "new" /\ UNCHANGED <<daemon, grants, requests, macHistory>> /\ (Goes(j, y) \/ Goes(j, To(j, "failed")))
  BY DEF EnsureInstalled
<1>3. ~Begun(x) /\ x.step # "wire" /\ x.at \notin Behind \cup {"recheck"}
  BY <1>1, <1>2 DEF Begun, Resting, Behind, Proper, WellPlaced, Commands
<1>4. CASE Goes(j, y)
  <2>1. x.of \in MacClient
    BY <1>1 DEF MacTypeOK, MacCalls
  <2>2. b \in BOOLEAN
    BY <2>1 DEF HostTypeOK, MacClients
  <2>3. "daemon" \in MacPlaces /\ "daemon" \notin Behind \cup Resting \cup {"work", "new"} /\ "daemon" \in Early
    BY DEF MacPlaces, Behind, Resting, Early
  <2>4. Proper(daemon, grants, macHistory.slow, j, z)
    BY <1>1, <1>3, <2>3, OnIsProper
  <2> HIDE DEF x, b, z
  <2>5. z \in MacCalls
    BY <2>4 DEF Proper, WellPlaced
  <2>6. /\ y \in MacCalls /\ y.at = z.at /\ y.step = z.step /\ y.next = z.next
        /\ y.rechecks = z.rechecks /\ y.lacked = z.lacked
    BY <2>2, <2>5 DEF MacCalls
  <2> HIDE DEF y
  <2>7. Proper(daemon, grants, macHistory.slow, j, y)
    BY <2>4, <2>6, LooksAlike
  <2>8. QED BY <1>2, <1>3, <1>4, <2>7, OneMoves DEF x
<1>5. CASE Goes(j, To(j, "failed"))
  <2>1. "failed" \in MacPlaces /\ "failed" \in Resting \cup {"work"}
    BY DEF MacPlaces, Resting
  <2>2. Proper(daemon, grants, macHistory.slow, j, To(j, "failed"))
    BY <1>1, <2>1, RestIsProper
  <2>3. QED BY <1>2, <1>3, <1>5, <2>2, OneMoves
<1>6. QED BY <1>2, <1>4, <1>5

\* After the pause the daemon that answered this call's shutdown is gone.
LEMMA PauseStep ==
  ASSUME MacInv, NEW j \in MacCall, Pause(j)
  PROVE  MacInv'
<1> DEFINE x == macCall[j]
           y == To(j, "back")
<1>1. MacTypeOK /\ Proper(daemon, grants, macHistory.slow, j, x)
  BY DEF MacInv, CallsProper
<1>2. x.at = "pause" /\ j \notin daemon.stops /\ Goes(j, y) /\ UNCHANGED <<daemon, grants, requests, macHistory>>
  BY DEF Pause
<1>3. ~Begun(x) /\ x.step # "wire" /\ x.at \in Behind
  BY <1>1, <1>2 DEF Begun, Resting, Behind, Proper, WellPlaced, Commands
<1>4. "back" \in MacPlaces /\ "back" \notin Resting \cup {"work", "new"}
  BY DEF MacPlaces, Behind, Resting
<1>5. /\ y \in MacCalls /\ y.at = "back" /\ y.step \in {"", "ensure"} /\ y.next = x.next
      /\ y.rechecks = x.rechecks /\ y.lacked = x.lacked
  BY <1>1, <1>4, GoesOn
<1> HIDE DEF x, y
<1>6. WellPlaced(y)
  BY <1>1, <1>3, <1>5 DEF Proper, WellPlaced
<1>7. StaysEarly(daemon, j, y)
  BY <1>1, <1>3, <1>5 DEF Proper, StaysEarly, Early, Behind
<1>8. ASSUME SeesGrant(daemon, grants, j, x) PROVE SeesGrant(daemon, grants, j, y)
  <2>1. Asking(y) <=> Asking(x)
    BY <1>5 DEF Asking
  <2>2. QED BY <1>2, <1>3, <1>5, <1>8, <2>1 DEF SeesGrant, Behind
<1>9. Proper(daemon, grants, macHistory.slow, j, y)
  BY <1>1, <1>6, <1>7, <1>8 DEF Proper
<1>10. QED BY <1>2, <1>3, <1>9, OneMoves DEF x

LEMMA ChooseStep ==
  ASSUME MacInv, NEW j \in MacCall, Choose(j)
  PROVE  MacInv'
<1> DEFINE x == macCall[j]
           z == MustRestart(j, "recheck")
           lacks == grants # Kind
           y == [z EXCEPT !.rechecks = @ + 1, !.lacked = lacks]
<1>1. MacTypeOK /\ Proper(daemon, grants, macHistory.slow, j, x)
  BY DEF MacInv, CallsProper
<1>2. /\ x.at = "ask" /\ UNCHANGED <<daemon, grants, requests, macHistory>>
      /\ Goes(j, To(j, "pane")) \/ Goes(j, To(j, "failed")) \/ Goes(j, y)
  BY DEF Choose
<1>3. ~Begun(x) /\ x.step # "wire" /\ x.at \notin Behind \cup {"recheck"} /\ ~Strange(daemon, j)
  BY <1>1, <1>2 DEF Begun, Resting, Behind, Proper, WellPlaced, Commands, StaysEarly, Early
<1>4. CASE Goes(j, To(j, "pane"))
  <2>1. "pane" \in MacPlaces /\ "pane" \notin Behind \cup Resting \cup {"work", "new"}
    BY DEF MacPlaces, Commands, Behind, Resting
  <2>2. Proper(daemon, grants, macHistory.slow, j, To(j, "pane"))
    BY <1>1, <1>3, <2>1, OnIsProper
  <2>3. QED BY <1>2, <1>3, <1>4, <2>2, OneMoves
<1>5. CASE Goes(j, To(j, "failed"))
  <2>1. "failed" \in MacPlaces /\ "failed" \in Resting \cup {"work"}
    BY DEF MacPlaces, Resting
  <2>2. Proper(daemon, grants, macHistory.slow, j, To(j, "failed"))
    BY <1>1, <2>1, RestIsProper
  <2>3. QED BY <1>2, <1>3, <1>5, <2>2, OneMoves
<1>6. CASE Goes(j, y)
  <2>1. z \in MacCalls /\ z.at = "shutdown" /\ z.step \in {"", "ensure"} /\ z.next = "recheck"
    BY <1>1, RestartIs
  <2>0. lacks \in BOOLEAN
    BY Zenon
  <2> HIDE DEF x, z, lacks
  <2>2. y \in MacCalls /\ y.at = "shutdown" /\ y.step \in {"", "ensure"} /\ y.next = "recheck" /\ y.lacked = lacks
    <3> DEFINE n == z.rechecks + 1
    <3>1. n \in Nat
      <4>1. z.rechecks \in Nat
        BY <2>1 DEF MacCalls
      <4>2. QED BY <4>1
    <3>2. y = [z EXCEPT !.rechecks = n, !.lacked = lacks]
      OBVIOUS
    <3> HIDE DEF n, y
    <3>3. QED BY <2>1, <2>0, <3>1, <3>2 DEF MacCalls
  <2> HIDE DEF y
  <2>3. WellPlaced(y)
    BY <2>2 DEF WellPlaced
  <2>4. StaysEarly(daemon, j, y)
    BY <1>3 DEF StaysEarly
  <2>5. SeesGrant(daemon, grants, j, y)
    BY <2>2 DEF SeesGrant, Asking, Behind, lacks
  <2>6. Proper(daemon, grants, macHistory.slow, j, y)
    BY <2>3, <2>4, <2>5 DEF Proper
  <2>7. QED BY <1>2, <1>3, <1>6, <2>6, OneMoves DEF x
<1>7. QED BY <1>2, <1>4, <1>5, <1>6

\* A probe that finds the daemon, or gives it up: who waits for it moves on.
LEMMA SettlesStep ==
  ASSUME MacInv, NEW c \in MacClient, NEW up \in BOOLEAN, Settles(c, up),
         up \/ ~daemon.up \/ macHistory'.slow, UNCHANGED <<daemon, grants, requests>>, SameWork
  PROVE  MacInv'
<1> DEFINE moved == {i \in MacCall : macCall[i].of = c /\ macCall[i].step = "waits"}
<1>1. /\ macCall' = [i \in MacCall |-> macCall'[i]]
      /\ \A i \in MacCall : macCall'[i] = IF i \in moved THEN Ensured(i, up) ELSE macCall[i]
  BY DEF Settles
<1>2. MacTypeOK
  BY DEF MacInv
<1>3. ASSUME NEW i \in moved
      PROVE  /\ Proper(daemon, grants, macHistory'.slow, i, Ensured(i, up))
             /\ macCall[i].step # "wire" /\ (Begun(macCall[i]) => Begun(Ensured(i, up)))
  <2> DEFINE x == macCall[i]
  <2>1. i \in MacCall /\ x.step = "waits"
    OBVIOUS
  <2>2. Proper(daemon, grants, macHistory.slow, i, x)
    BY <2>1 DEF MacInv, CallsProper
  <2>3. x.at \in Commands \cup {"daemon", "back"}
    BY <2>1, <2>2 DEF Proper, WellPlaced
  <2>4. Proper(daemon, grants, macHistory'.slow, i, x)
    BY <2>2, SlowIsLenient DEF SameWork
  <2>5. CASE up
    <3>1. up = TRUE
      BY <2>5
    <3>2. Proper(daemon, grants, macHistory'.slow, i, Ensured(i, TRUE))
      BY <1>2, <2>1, <2>3, <2>4, EnsuredIs
    <3>3. ~Begun(x)
      BY <2>1, <2>3 DEF Begun, Resting, Commands
    <3>4. QED BY <2>1, <3>1, <3>2, <3>3
  <2>6. CASE ~up
    <3>1. Ensured(i, up) = Rejected(i)
      BY <2>6 DEF Ensured
    <3>2. macHistory'.slow \/ Heeds(daemon)
      BY <2>6, NobodyListens
    <3>3. Proper(daemon, grants, macHistory'.slow, i, Rejected(i)) /\ (Begun(x) => Begun(Rejected(i)))
      BY <1>2, <2>1, <2>4, <3>2, RejectedIs
    <3>4. QED BY <2>1, <3>1, <3>3
  <2>7. QED BY <2>5, <2>6
<1>4. moved \in SUBSET MacCall
  OBVIOUS
<1> HIDE DEF moved
<1>5. \A i \in moved : /\ Proper(daemon, grants, macHistory'.slow, i, macCall'[i])
                       /\ macCall[i].step # "wire" /\ (Begun(macCall[i]) => Begun(macCall'[i]))
  BY <1>1, <1>3, <1>4
<1>6. \A i \in MacCall \ moved : macCall'[i] = macCall[i]
  BY <1>1
<1>7. QED BY <1>1, <1>4, <1>5, <1>6, CallsMove

LEMMA ProbeStep ==
  ASSUME MacInv, NEW c \in MacClient, Probe(c)
  PROVE  MacInv'
<1>1. MacTypeOK /\ UNCHANGED <<daemon, grants, requests>>
  BY DEF MacInv, Probe
<1>2. SameWork /\ (macHistory' = macHistory \/ macHistory' = [macHistory EXCEPT !.slow = @ \/ daemon.up])
  <2>1. macHistory' = macHistory \/ macHistory' = [macHistory EXCEPT !.slow = @ \/ daemon.up]
    BY DEF Probe
  <2>2. QED BY <1>1, <2>1 DEF MacTypeOK, MacHistories, SameWork
<1>3. \/ Settles(c, TRUE)
      \/ Settles(c, FALSE) /\ macHistory' = [macHistory EXCEPT !.slow = @ \/ daemon.up]
      \/ UNCHANGED macCall
  BY Zenon DEF Probe
<1>4. CASE Settles(c, TRUE)
  BY <1>1, <1>2, <1>4, SettlesStep
<1>5. CASE Settles(c, FALSE) /\ macHistory' = [macHistory EXCEPT !.slow = @ \/ daemon.up]
  <2>1. ~daemon.up \/ macHistory'.slow
    BY <1>1, <1>5 DEF MacTypeOK, MacHistories
  <2>2. QED BY <1>1, <1>2, <1>5, <2>1, SettlesStep
<1>6. CASE UNCHANGED macCall
  <2> DEFINE moved == {}
  <2>1. macCall' = [i \in MacCall |-> macCall'[i]]
    BY <1>1, <1>6 DEF MacTypeOK
  <2>2. moved \in SUBSET MacCall /\ \A i \in moved : FALSE
    OBVIOUS
  <2>3. \A i \in MacCall \ moved : macCall'[i] = macCall[i]
    BY <1>6
  <2> HIDE DEF moved
  <2>4. QED BY <1>1, <1>2, <2>1, <2>2, <2>3, CallsMove
<1>7. QED BY <1>3, <1>4, <1>5, <1>6

LEMMA MacStepKeeps == MacInv /\ HostTypeOK /\ [MacNext]_macVars => MacInv'
<1> SUFFICES ASSUME MacInv, HostTypeOK, [MacNext]_macVars PROVE MacInv'
  OBVIOUS
<1>1. CASE UNCHANGED macVars
  <2>1. daemon' = daemon /\ requests' = requests /\ UNCHANGED <<grants, macCall, macHistory>>
    BY <1>1 DEF macVars
  <2>2. QED BY <2>1, DaemonStep
<1>2. ASSUME NEW j \in MacCall, MacStep(j) \/ AbortMac(j) \/ Choose(j) PROVE MacInv'
  BY <1>2, EnsureStep, DialStep, BreaksStep, InstallStep, PauseStep, AbortStep, ChooseStep DEF MacStep
<1>3. ASSUME NEW c \in MacClient, Probe(c) PROVE MacInv'
  BY <1>3, ProbeStep
<1>4. CASE Boots
  <2>1. daemon' \in {NoDaemon, Booted(TRUE), Booted(FALSE), daemon} /\ UNCHANGED <<grants, macCall, requests, macHistory>>
    <3>1. (bundle = "ours") \in BOOLEAN
      BY Zenon
    <3>2. daemon' = daemon \/ daemon' = Booted(bundle = "ours")
      BY <1>4 DEF Boots, Booted
    <3>3. daemon' \in {NoDaemon, Booted(TRUE), Booted(FALSE), daemon}
      BY <3>1, <3>2
    <3>4. QED BY <1>4, <3>3 DEF Boots
  <2>2. daemon' = daemon \/ requests' = {}
    BY <1>4 DEF Boots, MacInv, ServerInv
  <2>3. QED BY <2>1, <2>2, DaemonStep
<1>5. CASE DaemonEnds
  BY <1>5, DaemonStep DEF DaemonEnds
<1>6. ASSUME NEW r \in requests, Serve(r) PROVE MacInv'
  BY <1>6, ServeStep
<1>7. ASSUME NEW k \in Kind, Switch(k) PROVE MacInv'
  BY <1>7, SwitchStep
<1>8. CASE Elsewhere
  <2>1. daemon' = daemon /\ requests' = requests /\ UNCHANGED <<grants, macCall, macHistory>>
    BY <1>8 DEF Elsewhere
  <2>2. QED BY <2>1, DaemonStep
<1>9. QED BY <1>1, <1>2, <1>3, <1>4, <1>5, <1>6, <1>7, <1>8 DEF MacNext

LEMMA HostStart == MacInit => HostTypeOK
<1> SUFFICES ASSUME MacInit PROVE HostTypeOK
  OBVIOUS
<1>1. PICK crew \in Crews, b \in Bundles, g \in SUBSET Kind,
           d \in {NoDaemon, [NewDaemon EXCEPT !.ours = FALSE], [NewDaemon EXCEPT !.answer = {}]} : MacState(crew, b, d, g, 0, "new")
  BY DEF MacInit
<1>2. bundle = b /\ booting = FALSE /\ upsets = 0
      /\ client = [c \in MacClient |-> [avail |-> FALSE, ensure |-> "none", polls |-> 0, granted |-> FALSE]]
  BY <1>1 DEF MacState
<1>3. [avail |-> FALSE, ensure |-> "none", polls |-> 0, granted |-> FALSE] \in MacClients
  BY DEF MacClients
<1>4. QED BY <1>2, <1>3 DEF HostTypeOK

\* What a process believes of the daemon.
LEMMA BeliefChanges ==
  ASSUME HostTypeOK, NEW c \in MacClient, NEW y, y \in MacClients, client' = [client EXCEPT ![c] = y]
  PROVE  client' \in [MacClient -> MacClients]
BY DEF HostTypeOK

LEMMA HostStepKeeps == MacInv /\ HostTypeOK /\ [MacNext]_macVars => HostTypeOK'
<1> SUFFICES ASSUME MacInv, HostTypeOK, [MacNext]_macVars PROVE HostTypeOK'
  OBVIOUS
<1>1. \A j \in MacCall : macCall[j].of \in MacClient /\ macCall[j].at \in MacPlaces
  BY DEF MacInv, MacTypeOK, MacCalls
<1>2. upsets' \in {upsets, upsets + 1} /\ upsets' \in Nat
  <2>1. upsets' \in {upsets, upsets + 1}
    BY Zenon DEF MacNext, MacStep, macVars, Ensure, Dial, Breaks, EnsureInstalled, Pause, AbortMac, Choose, Probe, Boots,
       DaemonEnds, Elsewhere, Serve, Switch
  <2>2. QED BY <2>1 DEF HostTypeOK
<1>3. bundle' \in Bundles
  BY Zenon DEF MacNext, MacStep, macVars, Ensure, Dial, Breaks, EnsureInstalled, Pause, AbortMac, Choose, Probe, Boots,
     DaemonEnds, Elsewhere, Serve, Switch, HostTypeOK, Bundles
<1>4. booting' \in BOOLEAN
  BY Zenon DEF MacNext, MacStep, macVars, Ensure, Dial, Breaks, EnsureInstalled, Pause, AbortMac, Choose, Probe, Boots,
     DaemonEnds, Elsewhere, Serve, Switch, LaunchDaemon, HostTypeOK
<1>5. ASSUME NEW c \in MacClient, NEW is \in BOOLEAN, client' = [client EXCEPT ![c].avail = is] PROVE client' \in [MacClient -> MacClients]
  <2> DEFINE x == client[c]
             y == [x EXCEPT !.avail = is]
  <2>1. x \in MacClients /\ client' = [client EXCEPT ![c] = y]
    BY <1>5 DEF HostTypeOK
  <2> HIDE DEF x
  <2>2. y \in MacClients
    BY <2>1 DEF MacClients
  <2> HIDE DEF y
  <2>3. QED BY <2>1, <2>2, BeliefChanges
<1>6. ASSUME NEW j \in MacCall, Connects(j) \/ Avail(j, FALSE) \/ UNCHANGED client PROVE client' \in [MacClient -> MacClients]
  <2>1. UNCHANGED client \/ Avail(j, FALSE)
    BY <1>6 DEF Connects, Refused
  <2>2. CASE Avail(j, FALSE)
    BY <1>1, <1>5, <2>2 DEF Avail
  <2>3. CASE UNCHANGED client
    BY <2>3 DEF HostTypeOK
  <2>4. QED BY <2>1, <2>2, <2>3
<1>7. ASSUME NEW c \in MacClient, client' = [client EXCEPT ![c].ensure = "probing", ![c].polls = 0]
      PROVE  client' \in [MacClient -> MacClients]
  <2> DEFINE x == client[c]
             y == [x EXCEPT !.ensure = "probing", !.polls = 0]
  <2>1. x \in MacClients /\ client' = [client EXCEPT ![c] = y]
    BY <1>7 DEF HostTypeOK
  <2> HIDE DEF x
  <2>2. y \in MacClients
    BY <2>1 DEF MacClients
  <2> HIDE DEF y
  <2>3. QED BY <2>1, <2>2, BeliefChanges
<1>8. ASSUME NEW c \in MacClient, LaunchDaemon(c) PROVE client' \in [MacClient -> MacClients]
  <2> DEFINE x == client[c]
             y == [x EXCEPT !.ensure = "polling"]
  <2>1. x \in MacClients /\ client' = [client EXCEPT ![c] = y]
    BY <1>8 DEF HostTypeOK, LaunchDaemon
  <2> HIDE DEF x
  <2>2. y \in MacClients
    BY <2>1 DEF MacClients
  <2> HIDE DEF y
  <2>3. QED BY <2>1, <2>2, BeliefChanges
<1>9. ASSUME NEW c \in MacClient, client' = [client EXCEPT ![c].polls = @ + 1] PROVE client' \in [MacClient -> MacClients]
  <2> DEFINE x == client[c]
             n == x.polls + 1
             y == [x EXCEPT !.polls = n]
  <2>1. x \in MacClients /\ client' = [client EXCEPT ![c] = y]
    BY <1>9 DEF HostTypeOK
  <2>2. n \in Nat
    <3>1. x.polls \in Nat
      BY <2>1 DEF MacClients
    <3>2. QED BY <3>1
  <2> HIDE DEF x, n
  <2>3. y \in MacClients
    BY <2>1, <2>2 DEF MacClients
  <2> HIDE DEF y
  <2>4. QED BY <2>1, <2>3, BeliefChanges
<1>10. ASSUME NEW c \in MacClient, NEW up \in BOOLEAN, Settles(c, up) PROVE client' \in [MacClient -> MacClients]
  <2> DEFINE x == client[c]
             y == [x EXCEPT !.ensure = "none", !.polls = 0, !.avail = up]
  <2>1. x \in MacClients /\ client' = [client EXCEPT ![c] = y]
    BY <1>10 DEF HostTypeOK, Settles
  <2> HIDE DEF x
  <2>2. y \in MacClients
    BY <2>1 DEF MacClients
  <2> HIDE DEF y
  <2>3. QED BY <2>1, <2>2, BeliefChanges
<1>11. ASSUME NEW j \in MacCall, NEW call, Learns(j, call) PROVE client' \in [MacClient -> MacClients]
  <2> DEFINE c == macCall[j].of
             x == client[c]
             is == x.avail /\ ~Restarts(j) /\ (macCall[j].at = "rediag" => daemon.ours)
             granted == x.granted \/ (call.at = "work")
             y == [x EXCEPT !.avail = is, !.granted = granted]
  <2>1. x \in MacClients /\ c \in MacClient
    BY <1>1 DEF HostTypeOK
  <2>2. client' = [client EXCEPT ![c].avail = is, ![c].granted = granted]
    BY Zenon, <1>11 DEF Learns
  <2>3. is \in BOOLEAN
    BY Zenon
  <2>4. granted \in BOOLEAN
    BY Zenon
  <2> HIDE DEF is, granted, c
  <2>5. client' = [client EXCEPT ![c] = y]
    BY <2>1, <2>2 DEF HostTypeOK
  <2> HIDE DEF x
  <2>6. y \in MacClients
    BY <2>1, <2>3, <2>4 DEF MacClients
  <2> HIDE DEF y
  <2>7. QED BY <2>1, <2>5, <2>6, BeliefChanges
<1>12. client' \in [MacClient -> MacClients]
  <2>1. CASE UNCHANGED client
    BY <2>1 DEF HostTypeOK
  <2>2. ASSUME NEW j \in MacCall, Ensure(j) PROVE client' \in [MacClient -> MacClients]
    <3>1. \/ Connects(j) \/ UNCHANGED client
          \/ client' = [client EXCEPT ![macCall[j].of].ensure = "probing", ![macCall[j].of].polls = 0]
      BY Zenon, <2>2 DEF Ensure
    <3>2. QED BY <1>1, <1>6, <1>7, <3>1
  <2>3. ASSUME NEW j \in MacCall, Dial(j) \/ Breaks(j) PROVE client' \in [MacClient -> MacClients]
    BY <1>6, <2>3 DEF Dial, Breaks
  <2>4. ASSUME NEW c \in MacClient, Probe(c) PROVE client' \in [MacClient -> MacClients]
    <3>1. LaunchDaemon(c) \/ Settles(c, TRUE) \/ Settles(c, FALSE) \/ client' = [client EXCEPT ![c].polls = @ + 1]
      BY Zenon, <2>4 DEF Probe
    <3>2. QED BY <1>8, <1>9, <1>10, <3>1
  <2>5. ASSUME NEW r \in requests, Serve(r) PROVE client' \in [MacClient -> MacClients]
    <3>1. UNCHANGED client \/ \E call \in Answered(r.by) : Learns(r.by, call)
      BY Zenon, <2>5 DEF Serve
    <3>2. r.by \in MacCall
      BY DEF MacInv, MacTypeOK, MacRequests
    <3>3. QED BY <1>11, <2>1, <3>1, <3>2
  <2>6. QED BY Zenon, <2>1, <2>2, <2>3, <2>4, <2>5 DEF MacNext, MacStep, macVars, EnsureInstalled, Pause, AbortMac, Choose,
       Boots, DaemonEnds, Elsewhere, Switch
<1>13. QED BY <1>2, <1>3, <1>4, <1>12 DEF HostTypeOK

MacServed == MacInv /\ HostTypeOK
LEMMA MacHolds == MacSpec => []MacServed
<1>1. MacInit => MacServed
  BY MacStart, HostStart DEF MacServed
<1>2. MacServed /\ [MacNext]_macVars => MacServed'
  BY MacStepKeeps, HostStepKeeps DEF MacServed
<1>3. QED BY <1>1, <1>2, PTL DEF MacSpec

\* WorkRunsOnce: the work of a call reaches a daemon at most once, and one of
\* another version only if that started after the call had asked for the protocol
\* (platform/macos/helper.ts: command, ensureProtocol).
THEOREM MacWorkIsDoneOnce == MacSpec => []WorkRunsOnce
<1>1. MacServed => WorkRunsOnce
  <2> SUFFICES ASSUME MacServed PROVE WorkRunsOnce
    OBVIOUS
  <2>1. \A j \in MacCall : macHistory.ran[j] \in {0, 1}
    BY DEF MacServed, MacInv, WorkInv
  <2>2. \A n \in {0, 1} : n <= 1
    OBVIOUS
  <2>3. QED BY <2>1, <2>2 DEF WorkRunsOnce, MacServed, MacInv, ServerInv
<1>2. QED BY <1>1, MacHolds, PTL

\* RecheckSeesGrant: who has granted everything and asks for a recheck is not
\* told that something is missing (platform/macos/permissions.ts: the restart
\* before a recheck; native/macos/bridge.swift caches its first answer).
THEOREM MacRecheckLooksAgain == MacSpec => []RecheckSeesGrant
<1>1. MacServed => RecheckSeesGrant
  <2> SUFFICES ASSUME MacServed, NEW j \in MacCall, macCall[j].at = "ask", macCall[j].rechecks > 0, ~macHistory.slow
               PROVE  macCall[j].lacked
    BY DEF RecheckSeesGrant
  <2>1. SeesGrant(daemon, grants, j, macCall[j])
    BY DEF MacServed, MacInv, CallsProper, Proper
  <2>2. QED BY <2>1 DEF SeesGrant, Asking, Behind
<1>2. QED BY <1>1, MacHolds, PTL
=============================================================================
