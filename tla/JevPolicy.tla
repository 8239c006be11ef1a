----------------------------- MODULE JevPolicy -----------------------------
(***************************************************************************)
(* src/jev-policy.ts: how one decision of a goal worker is made.  A plain  *)
(* arithmetic objective over a stable bank of buttons is compiled without  *)
(* a model; everything else is a tournament of questions to the remote     *)
(* model, at most MaxChoice candidates to a question and MaxQuestions      *)
(* questions to a request, in which the terminal choices stand in every    *)
(* group.  The model may answer anything.                                  *)
(***************************************************************************)
EXTENDS Integers, Sequences, SequencesExt, FiniteSets

CONSTANTS MaxChoice,     \* 250 criteria of a question
          MaxQuestions,  \* 16 questions of a request
          Surfaces       \* the candidate lists of the instance

\* A candidate; control is what the label of a stable button stands for.
Kind == {"action", "done", "wait", "escalate"}
Candidate == [id : Nat, kind : Kind, control : STRING, stable : BOOLEAN]
Action(id) == [id |-> id, kind |-> "action", control |-> "", stable |-> FALSE]
Button(id, control) == [id |-> id, kind |-> "action", control |-> control, stable |-> TRUE]
Terminal(id, kind) == [id |-> id, kind |-> kind, control |-> "", stable |-> FALSE]

ASSUME JevAssumption == MaxChoice \in Nat /\ MaxQuestions \in Nat \ {0} /\ Surfaces \subseteq Seq(Candidate)

UniqueIds(candidates) == \A i, j \in DOMAIN candidates : candidates[i].id = candidates[j].id => i = j

(***************************************************************************)
(* The compiled sequence: for every key the one button that stands for it. *)
(***************************************************************************)
StableButtons(candidates) == {c \in candidates : c.stable /\ c.kind = "action"}
ButtonsFor(candidates, control) == {c \in StableButtons(candidates) : c.control = control}

\* The key presses an objective spells out (empty: it is no expression), with
\* a press of clear before them if it asks for one and none is recent.
Keys(objective, recent) ==
  (IF objective.clears /\ "clear" \notin Range(recent) THEN <<"clear">> ELSE <<>>) \o objective.keys

\* recent: the controls of the last actions; they must not spell the keys already.
CompiledSequence(objective, recent, candidates, maxActions) ==
  LET keys == Keys(objective, recent)
      tail == SubSeq(recent, Len(recent) - Len(keys) + 1, Len(recent))
  IN IF \/ maxActions < 2 \/ objective.keys = <<>>
        \/ Len(keys) \notin 2..maxActions
        \/ Len(recent) >= Len(keys) /\ tail = keys
        \/ \E i \in DOMAIN keys : Cardinality(ButtonsFor(candidates, keys[i])) # 1
     THEN <<>>
     ELSE [i \in DOMAIN keys |-> CHOOSE c \in ButtonsFor(candidates, keys[i]) : TRUE]

(***************************************************************************)
(* The tournament.                                                         *)
(***************************************************************************)
\* Mutant: only whole batches.
BatchesWhole(values, size) == [i \in 1..(Len(values) \div size) |-> SubSeq(values, (i - 1) * size + 1, i * size)]
Batches(values, size) ==
  [i \in 1..((Len(values) + size - 1) \div size) |->
     SubSeq(values, (i - 1) * size + 1, IF i * size < Len(values) THEN i * size ELSE Len(values))]

\* The candidates of some kinds, in their order.
OfKinds(candidates, kinds) ==
  LET kept[k \in 0..Len(candidates)] ==
        IF k = 0 THEN <<>>
        ELSE IF candidates[k].kind \in kinds THEN Append(kept[k - 1], candidates[k]) ELSE kept[k - 1]
  IN kept[Len(candidates)]
Terminals(candidates) == OfKinds(candidates, Kind \ {"action"})
Actions(candidates) == OfKinds(candidates, {"action"})

CandidateGroups(candidates) ==
  IF Len(candidates) <= MaxChoice THEN <<candidates>>
  ELSE LET groups == Batches(Actions(candidates), MaxChoice - Len(Terminals(candidates)))
       IN [i \in DOMAIN groups |-> groups[i] \o Terminals(candidates)]
TooManyTerminals(candidates) == Len(candidates) > MaxChoice /\ Len(Terminals(candidates)) >= MaxChoice

\* Winners by id, in the order in which they first won.
Dedup(chosen) ==
  LET kept[k \in 0..Len(chosen)] ==
        IF k = 0 THEN <<>>
        ELSE IF chosen[k] \in Range(kept[k - 1]) THEN kept[k - 1] ELSE Append(kept[k - 1], chosen[k])
  IN kept[Len(chosen)]

VARIABLES surface,     \* the candidates of the decision
          remaining,   \* those still in the tournament
          winners,     \* of the groups of this round, so far
          asked,       \* requests of this round
          rounds,      \* rounds begun
          lastAnswer,  \* the last answer taken: what it chose and how surely
          shown,       \* candidates that have been put to the model
          selection    \* phase of the decision, or the candidate chosen

jevVars == <<surface, remaining, winners, asked, rounds, lastAnswer, shown, selection>>

NoAnswer == [choice |-> Terminal(0, "escalate"), sure |-> FALSE]
Pending == [phase |-> "pending", candidate |-> NoAnswer.choice, sure |-> FALSE]
Ended(how) == [Pending EXCEPT !.phase = how]

JevInit ==
  /\ surface \in Surfaces
  /\ remaining = surface /\ winners = <<>> /\ asked = 0 /\ rounds = 0
  /\ lastAnswer = NoAnswer /\ shown = {}
  /\ selection = IF Len(surface) < 2 \/ ~UniqueIds(surface) THEN Ended("refused") ELSE Pending

NoSelection ==
  /\ surface = <<>>
  /\ remaining = <<>> /\ winners = <<>> /\ asked = 0 /\ rounds = 0
  /\ lastAnswer = NoAnswer /\ shown = {}
  /\ selection = Ended("idle")

\* The groups of the next request.
Questions == Batches(CandidateGroups(remaining), MaxQuestions)
RoundOver == asked = Len(Questions)

\* One request: every question of it is answered with a candidate of its group.
AskBatch ==
  /\ selection = Pending
  /\ ~TooManyTerminals(remaining)
  /\ ~RoundOver
  /\ LET groups == Questions[asked + 1] IN
       \E answers \in [DOMAIN groups -> UNION {Range(groups[i]) : i \in DOMAIN groups}], sure \in BOOLEAN :
         /\ \A i \in DOMAIN groups : answers[i] \in Range(groups[i])
         /\ winners' = winners \o answers
         /\ lastAnswer' = [choice |-> answers[Len(groups)], sure |-> sure]
         /\ shown' = shown \cup UNION {Range(groups[i]) : i \in DOMAIN groups}
  /\ asked' = asked + 1
  /\ rounds' = IF asked = 0 THEN rounds + 1 ELSE rounds
  /\ UNCHANGED <<surface, remaining, selection>>

\* A round over more candidates than one question holds narrows them down;
\* the last round has a single group.
NextRound ==
  /\ selection = Pending
  /\ asked > 0 /\ RoundOver
  /\ remaining' = Dedup(winners)
  /\ winners' = <<>> /\ asked' = 0
  /\ selection' = IF Len(remaining) > MaxChoice /\ Len(remaining') > 1 THEN Pending
                  ELSE [phase |-> "chosen", candidate |-> remaining'[1], sure |-> lastAnswer.sure]
  /\ UNCHANGED <<surface, rounds, lastAnswer, shown>>

\* The request fails, is aborted, times out, or names what was not asked for.
SelectionFails ==
  /\ selection = Pending
  /\ asked = 0 \/ ~RoundOver
  /\ selection' = Ended("failed")
  /\ UNCHANGED <<surface, remaining, winners, asked, rounds, lastAnswer, shown>>

JevNext == AskBatch \/ NextRound \/ SelectionFails
JevFairness == WF_jevVars(JevNext)
JevSpec == JevInit /\ [][JevNext]_jevVars /\ JevFairness

(***************************************************************************)
(* The allocation of roots to workers.                                     *)
(***************************************************************************)
Waves(maxWaves) == 0..((IF maxWaves < 1 THEN 1 ELSE IF maxWaves > 4 THEN 4 ELSE maxWaves) - 1)

\* An answer leaves a root out or gives it a wave and a role; what the role is
\* decides nothing but the wording of the objective.
PlanningChoices(maxWaves) == {[wave |-> w, sure |-> s] : w \in Waves(maxWaves), s \in 0..1} \cup {[wave |-> -1, sure |-> 1]}
Excluded(answer) == answer.wave = -1
SelectedRoots(roots, answers) == {r \in roots : ~Excluded(answers[r])}

(***************************************************************************)
(* Properties.                                                             *)
(***************************************************************************)
\* Whatever the model answers, the candidate that is chosen is one of those
\* submitted, every one of which has been put to the model, and the confidence
\* that is reported is that of the answer which chose it.
SelectionSound ==
  selection.phase = "chosen" =>
    /\ selection.candidate \in Range(surface)
    /\ shown = Range(surface)
    /\ lastAnswer.choice = selection.candidate /\ lastAnswer.sure = selection.sure

\* A tournament ends.
SelectionEnds == selection = Pending ~> selection # Pending
=============================================================================
