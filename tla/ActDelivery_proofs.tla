--------------------------- MODULE ActDelivery_proofs ---------------------------
(***************************************************************************)
(* Theorems about ActDelivery, for any calls, applications and settings:   *)
(* the leases of a call are those of where it is, no call acts on what it  *)
(* has not seen, and what is delivered in one piece is delivered once and  *)
(* reported truthfully.                                                    *)
(*                                                                         *)
(* The steps are first summed up (Leases, Writes, OthersStay), so that an  *)
(* invariant is shown of a few kinds of steps instead of 26 actions.       *)
(***************************************************************************)
EXTENDS ActDelivery, FiniteSetTheorems, SequenceTheorems, TLAPS

--------------------------------------------------------------------------------
(* The inductive invariant.                                                  *)

\* The state is well formed; which leases a call holds is said by Holds.
ActTypes ==
  /\ holder \in [App \cup {Attention} -> Call \cup {Nobody}]
  /\ epoch \in [App \cup {Attention} -> Nat] /\ base \in [Call -> Nat]
  /\ setting \in Settings
  /\ pc \in [Call -> Place] /\ attempt \in [Call -> 1 .. 2]
  /\ at \in [Call -> Nat] /\ \A c \in Call : at[c] \in Index(c) \/ (Index(c) = {} /\ pc[c] = "done")
  /\ stale \in [Call -> BOOLEAN] /\ spent \in [Call -> BOOLEAN] /\ missed \in [Call -> BOOLEAN]
  /\ mend \in [Call -> {"no", "running", "over"}]
  /\ verdict \in [Call -> {"", "completed", "never", "maybe"}]
  /\ user \in {"quiet", "active"} /\ front \in App \cup {Nobody}
  /\ DOMAIN landed = Call /\ \A c \in Call : landed[c] \in [Index(c) -> Nat]
  /\ DOMAIN late = Call /\ \A c \in Call : late[c] \subseteq Index(c)

\* A call holds its application from its admission to its end, and the attention
\* in the foreground.
Out == {"idle", "observe", "done"}
Holding(c, r) == (r = On[c] /\ pc[c] \notin Out) \/ (r = Attention /\ pc[c] = "front")
Holds == \A r \in App \cup {Attention}, c \in Call : holder[r] = c <=> Holding(c, r)

\* Who has been admitted has the newest epoch, and the others must look again.
Admitted == {"batch", "deliver", "quiet", "attend", "front", "verify"}
IsNewest(c) == base[c] = epoch[On[c]] /\ \A d \in Call \ {c} : On[d] = On[c] => base[d] < epoch[On[c]]
Fenced ==
  \A c \in Call : /\ base[c] <= epoch[On[c]] /\ (missed[c] => base[c] < epoch[On[c]])
                  /\ pc[c] \in Admitted => IsNewest(c)

\* Each way of delivery has its own places, and only a single text is mended.
Routed ==
  \A c \in Call : /\ pc[c] = "batch" => Batched(c)
                  /\ pc[c] = "deliver" => ~Batched(c) /\ ~Chained(c)
                  /\ pc[c] \in {"quiet", "attend", "front"} => ~Batched(c)
                  /\ mend[c] # "no" => Actions[c] = <<"text">>
                  /\ mend[c] = "running" => pc[c] \in {"quiet", "attend", "front"}

\* What does not change holds still: who has the attention is in front.
Still ==
  /\ ~setting.user => user = "quiet" /\ \A c \in Call : pc[c] = "front" => front = On[c]
  /\ ~setting.changes => \A c \in Call : ~stale[c]

LeaseInv == ActTypes /\ Holds /\ Fenced

\* The sequence of a call, and where it stands.
LEMMA CallActions ==
  ASSUME ActTypes, NEW c \in Call
  PROVE  /\ Actions[c] \in Seq(Kind) /\ Index(c) = 1 .. Len(Actions[c]) /\ Len(Actions[c]) \in Nat
         /\ setting.stable \subseteq Call /\ (c \in setting.stable => Len(Actions[c]) > 1)
         /\ Len(Actions[c]) = 1 => Actions[c] # <<"type">> /\ at[c] = 1 /\ Index(c) = {1} /\ Actions[c][1] # "type"
         /\ On[c] \in App /\ On[c] # Attention
<1>1. /\ Actions \in [Call -> Seq(Kind)] /\ setting.stable \subseteq Call
  BY SettingAssumption DEF ActTypes, Actions, Setting
<1>2. Actions[c] \in Seq(Kind) /\ Index(c) = 1 .. Len(Actions[c]) /\ Len(Actions[c]) \in Nat
  BY <1>1 DEF Index
<1>3. /\ c \in setting.stable => Len(Actions[c]) > 1
      /\ \A i \in Index(c) : Actions[c][i] = "type" => \E j \in 1 .. i - 1 : Actions[c][j] = "field"
  BY SettingAssumption DEF ActTypes, Actions, Index
<1>4. ASSUME Len(Actions[c]) = 1 PROVE Actions[c] # <<"type">> /\ at[c] = 1 /\ Index(c) = {1} /\ Actions[c][1] # "type"
  <2>1. 1 \in Index(c) /\ Index(c) = {1}
    BY <1>2, <1>4
  <2>2. Actions[c][1] # "type"
    BY <1>3, <2>1
  <2>3. at[c] = 1
    BY <2>1 DEF ActTypes
  <2>4. <<"type">>[1] = "type"
    OBVIOUS
  <2>5. QED BY <2>1, <2>2, <2>3, <2>4
<1>5. On[c] \in App /\ On[c] # Attention
  BY CallAssumption
<1>6. QED BY <1>1, <1>2, <1>3, <1>4, <1>5

LEMMA ActStart == Init => LeaseInv /\ Routed /\ Still
<1> SUFFICES ASSUME Init PROVE LeaseInv /\ Routed /\ Still
  OBVIOUS
<1>0. Actions \in [Call -> Seq(Kind)]
  BY SettingAssumption DEF Init, Actions, Setting
<1>1. \A c \in Call : Index(c) = 1 .. Len(Actions[c]) /\ Len(Actions[c]) \in Nat
  BY <1>0 DEF Index
<1>2. /\ holder = [r \in App \cup {Attention} |-> Nobody] /\ epoch = [r \in App \cup {Attention} |-> 0] /\ base = [c \in Call |-> 0]
  BY DEF Init, Lease!Init
<1>3. pc \in [Call -> {"idle", "done"}]
  BY DEF Init
<1>4. ActTypes
  <2>1. at = [c \in Call |-> 1] /\ \A c \in Call : at[c] \in Index(c) \/ (Index(c) = {} /\ pc[c] = "done")
    <3>1. at = [c \in Call |-> 1] /\ \A c \in Call : Actions[c] = <<>> => pc[c] = "done"
      BY DEF Init
    <3>2. \A c \in Call : Len(Actions[c]) = 0 => Actions[c] = <<>>
      BY <1>0
    <3>3. QED BY <1>1, <3>1, <3>2
  <2>2. DOMAIN landed = Call /\ (\A c \in Call : landed[c] \in [Index(c) -> Nat]) /\ DOMAIN late = Call /\ \A c \in Call : late[c] \subseteq Index(c)
    BY DEF Init
  <2>3. /\ holder \in [App \cup {Attention} -> Call \cup {Nobody}] /\ epoch \in [App \cup {Attention} -> Nat] /\ base \in [Call -> Nat]
        /\ pc \in [Call -> Place]
    BY <1>2, <1>3 DEF Place
  <2>4. /\ setting \in Settings /\ attempt \in [Call -> 1 .. 2] /\ at \in [Call -> Nat]
        /\ stale \in [Call -> BOOLEAN] /\ spent \in [Call -> BOOLEAN] /\ missed \in [Call -> BOOLEAN]
        /\ mend \in [Call -> {"no", "running", "over"}] /\ verdict \in [Call -> {"", "completed", "never", "maybe"}]
        /\ user \in {"quiet", "active"} /\ front \in App \cup {Nobody}
    <3>1. /\ setting \in Settings /\ user = "quiet" /\ front = Nobody
          /\ attempt = [c \in Call |-> 1] /\ at = [c \in Call |-> 1]
          /\ stale = [c \in Call |-> FALSE] /\ spent = [c \in Call |-> FALSE] /\ missed = [c \in Call |-> FALSE]
          /\ mend = [c \in Call |-> "no"] /\ verdict = [c \in Call |-> ""]
      BY DEF Init
    <3>2. attempt \in [Call -> 1 .. 2]
      <4>1. 1 \in 1 .. 2
        OBVIOUS
      <4>2. QED BY <3>1, <4>1
    <3>a. at \in [Call -> Nat]
      BY <3>1
    <3>3. stale \in [Call -> BOOLEAN] /\ spent \in [Call -> BOOLEAN] /\ missed \in [Call -> BOOLEAN]
      BY <3>1
    <3>4. mend \in [Call -> {"no", "running", "over"}]
      BY <3>1
    <3>5. verdict \in [Call -> {"", "completed", "never", "maybe"}]
      BY <3>1
    <3>6. QED BY <3>1, <3>2, <3>a, <3>3, <3>4, <3>5
  <2>5. QED BY <2>1, <2>2, <2>3, <2>4 DEF ActTypes
<1>5. Holds
  BY <1>2, <1>3, CallAssumption DEF Holds, Holding, Out
<1>6. Fenced
  <2>1. \A c \in Call : On[c] \in App /\ ~missed[c] /\ pc[c] \notin Admitted
    BY <1>3, CallAssumption DEF Init, Admitted
  <2>2. \A c \in Call : base[c] = 0 /\ epoch[On[c]] = 0
    BY <1>2, <2>1
  <2>3. QED BY <2>1, <2>2 DEF Fenced
<1>7. Routed /\ Still
  BY <1>3 DEF Init, Routed, Still
<1>8. QED BY <1>4, <1>5, <1>6, <1>7 DEF LeaseInv

\* What the pieces of an action leave well formed.
LEMMA LandTypes ==
  ASSUME ActTypes, UNCHANGED setting, NEW c \in Call, NEW I, Land(c, I)
  PROVE  /\ DOMAIN landed' = Call /\ \A d \in Call : landed'[d] \in [Index(d)' -> Nat]
         /\ \A i \in Index(c) : landed'[c][i] = landed[c][i] + IF i \in I THEN 1 ELSE 0
         /\ \A d \in Call \ {c} : landed'[d] = landed[d]
         /\ missed' \in [Call -> BOOLEAN] /\ \A d \in Call : missed'[d] <=> (missed[d] \/ (I # {} /\ d # c /\ On[d] = On[c]))
<1> DEFINE f == [i \in Index(c) |-> landed[c][i] + IF i \in I THEN 1 ELSE 0]
<1>0. DOMAIN landed = Call /\ (\A d \in Call : landed[d] \in [Index(d) -> Nat]) /\ missed \in [Call -> BOOLEAN]
      /\ \A d \in Call : Index(d)' = Index(d)
  BY DEF ActTypes, Index, Actions
<1>1. landed' = [landed EXCEPT ![c] = f]
  BY DEF Land
<1>2. f \in [Index(c) -> Nat] /\ \A i \in Index(c) : f[i] = landed[c][i] + IF i \in I THEN 1 ELSE 0
  BY <1>0
<1> HIDE DEF f
<1>3. DOMAIN landed' = Call /\ landed'[c] = f /\ \A d \in Call \ {c} : landed'[d] = landed[d]
  BY <1>0, <1>1
<1>4. missed' \in [Call -> BOOLEAN] /\ \A d \in Call : missed'[d] <=> (missed[d] \/ (I # {} /\ d # c /\ On[d] = On[c]))
  BY <1>0 DEF Land
<1>5. QED BY <1>0, <1>2, <1>3, <1>4

LEMMA NothingTypes ==
  ASSUME ActTypes, UNCHANGED setting, NEW c \in Call, at[c] \in Index(c), Nothing(c)
  PROVE  /\ DOMAIN late' = Call /\ \A d \in Call : late'[d] \subseteq Index(d)' /\ (d # c => late'[d] = late[d])
         /\ late'[c] = late[c] \/ (late'[c] = late[c] \cup {at[c]} /\ setting.late /\ Is(c, {"text", "type"}))
         /\ UNCHANGED <<landed, missed>>
<1>1. \A d \in Call : Index(d)' = Index(d)
  BY DEF Index, Actions
<1>2. late' = late \/ (late' = [late EXCEPT ![c] = @ \cup {at[c]}] /\ setting.late /\ Is(c, {"text", "type"}))
  BY DEF Nothing
<1>3. UNCHANGED <<landed, missed>> /\ DOMAIN late = Call /\ \A d \in Call : late[d] \subseteq Index(d)
  BY DEF ActTypes, Nothing
<1>4. CASE late' = late
  BY <1>1, <1>3, <1>4
<1>5. CASE late' = [late EXCEPT ![c] = @ \cup {at[c]}] /\ setting.late /\ Is(c, {"text", "type"})
  <2>1. DOMAIN late' = Call /\ late'[c] = late[c] \cup {at[c]} /\ \A d \in Call \ {c} : late'[d] = late[d]
    BY <1>3, <1>5
  <2>2. QED BY <1>1, <1>3, <1>5, <2>1
<1>6. QED BY <1>2, <1>4, <1>5

LEMMA GotoTypes ==
  ASSUME ActTypes, NEW c \in Call, NEW there \in Place, Goto(c, there)
  PROVE  pc' \in [Call -> Place] /\ pc'[c] = there /\ \A d \in Call \ {c} : pc'[d] = pc[d]
BY DEF ActTypes, Goto

LEMMA AdvanceTypes ==
  ASSUME ActTypes, UNCHANGED setting, NEW c \in Call, at[c] \in Index(c), NEW there \in Place, Advance(c, there)
  PROVE  /\ pc' \in [Call -> Place] /\ \A d \in Call \ {c} : pc'[d] = pc[d] /\ at'[d] = at[d]
         /\ at' \in [Call -> Nat] /\ at'[c] \in Index(c)
         /\ \/ at[c] < Len(Actions[c]) /\ at'[c] = at[c] + 1 /\ pc'[c] = there
            \/ at[c] = Len(Actions[c]) /\ at'[c] = at[c] /\ pc'[c] = "verify"
<1>1. Index(c) = 1 .. Len(Actions[c]) /\ Len(Actions[c]) \in Nat /\ at \in [Call -> Nat] /\ pc \in [Call -> Place]
  BY CallActions DEF ActTypes
<1>2. CASE at[c] < Len(Actions[c])
  <2>1. at' = [at EXCEPT ![c] = @ + 1] /\ pc' = [pc EXCEPT ![c] = there]
    BY <1>2 DEF Advance, Goto
  <2>2. QED BY <1>1, <1>2, <2>1
<1>3. CASE ~(at[c] < Len(Actions[c]))
  <2>1. at' = at /\ pc' = [pc EXCEPT ![c] = "verify"]
    BY <1>3 DEF Advance, Goto
  <2>2. QED BY <1>1, <1>3, <2>1 DEF Place
<1>4. QED BY <1>2, <1>3

LEMMA DropTypes ==
  ASSUME ActTypes, NEW R, Lease!Drop(R)
  PROVE  /\ holder' \in [App \cup {Attention} -> Call \cup {Nobody}] /\ UNCHANGED <<epoch, base>>
         /\ \A r \in App \cup {Attention} : holder'[r] = IF r \in R THEN Nobody ELSE holder[r]
BY DEF ActTypes, Lease!Drop

LEMMA TakeTypes ==
  ASSUME ActTypes, NEW c \in Call, NEW r \in App \cup {Attention}, Lease!Take(c, r)
  PROVE  /\ holder' \in [App \cup {Attention} -> Call \cup {Nobody}] /\ UNCHANGED <<epoch, base>>
         /\ holder[r] = Nobody /\ holder'[r] = c /\ \A s \in (App \cup {Attention}) \ {r} : holder'[s] = holder[s]
BY DEF ActTypes, Lease!Take

\* An error ends the section, the attempt or the call.
LEMMA ThrowTypes ==
  ASSUME ActTypes, NEW c \in Call, NEW retried \in BOOLEAN, NEW told \in {"never", "maybe"}, Throw(c, retried, told)
  PROVE  /\ pc' \in [Call -> Place] /\ \A d \in Call \ {c} : pc'[d] = pc[d] /\ mend'[d] = mend[d] /\ verdict'[d] = verdict[d] /\ spent'[d] = spent[d]
         /\ mend' \in [Call -> {"no", "running", "over"}] /\ verdict' \in [Call -> {"", "completed", "never", "maybe"}]
         /\ spent' \in [Call -> BOOLEAN] /\ UNCHANGED <<at, attempt, stale, world>>
         /\ \/ mend[c] = "running" /\ pc'[c] = "verify" /\ mend'[c] = "over" /\ verdict'[c] = verdict[c] /\ Lease!Drop(Held(c) \cap {Attention})
            \/ /\ mend[c] # "running" /\ mend'[c] = mend[c] /\ Lease!Drop(Held(c))
               /\ \/ retried /\ pc'[c] = "observe" /\ verdict'[c] = verdict[c]
                  \/ pc'[c] = "done" /\ verdict'[c] = told
<1>0. /\ pc \in [Call -> Place] /\ mend \in [Call -> {"no", "running", "over"}] /\ verdict \in [Call -> {"", "completed", "never", "maybe"}]
      /\ spent \in [Call -> BOOLEAN]
  BY DEF ActTypes
<1>1. spent' = [spent EXCEPT ![c] = FALSE] /\ UNCHANGED <<at, attempt, stale, world>>
  BY DEF Throw
<1>2. spent' \in [Call -> BOOLEAN] /\ \A d \in Call \ {c} : spent'[d] = spent[d]
  BY <1>0, <1>1
<1>3. CASE mend[c] = "running"
  <2>1. pc' = [pc EXCEPT ![c] = "verify"] /\ mend' = [mend EXCEPT ![c] = "over"] /\ UNCHANGED verdict /\ Lease!Drop(Held(c) \cap {Attention})
    BY <1>3 DEF Throw, Goto
  <2>2. QED BY <1>0, <1>1, <1>2, <1>3, <2>1 DEF Place
<1>4. CASE mend[c] # "running"
  <2>1. mend' = mend /\ Lease!Drop(Held(c))
    BY <1>4 DEF Throw
  <2>2. \/ retried /\ pc' = [pc EXCEPT ![c] = "observe"] /\ UNCHANGED verdict
        \/ pc' = [pc EXCEPT ![c] = "done"] /\ verdict' = [verdict EXCEPT ![c] = told]
    BY <1>4 DEF Throw, Goto
  <2>3. CASE retried /\ pc' = [pc EXCEPT ![c] = "observe"] /\ UNCHANGED verdict
    BY <1>0, <1>1, <1>2, <1>4, <2>1, <2>3 DEF Place
  <2>4. CASE pc' = [pc EXCEPT ![c] = "done"] /\ verdict' = [verdict EXCEPT ![c] = told]
    BY <1>0, <1>1, <1>2, <1>4, <2>1, <2>4 DEF Place
  <2>5. QED BY <2>2, <2>3, <2>4
<1>5. QED BY <1>3, <1>4

--------------------------------------------------------------------------------
(* Leases, epochs and what others have missed, step by step.                 *)

\* What a step of a call does with its leases, with the epochs, and with what
\* the others have missed.
Leases(c) ==
  \/ holder' = holder /\ (pc[c] \in Out <=> pc'[c] \in Out) /\ (pc[c] = "front" <=> pc'[c] = "front")
  \/ Lease!Take(c, On[c]) /\ pc[c] \in Out /\ pc'[c] \notin Out /\ pc'[c] # "front"
  \/ Lease!Take(c, Attention) /\ pc[c] = "attend" /\ pc'[c] = "front" /\ front' = On[c] /\ user' = user
  \/ Lease!Drop(Held(c)) /\ pc'[c] \in Out
  \/ Lease!Drop(Held(c) \cap {Attention}) /\ pc[c] \notin Out /\ pc'[c] \notin Out /\ pc'[c] # "front"
MissedBy(c) == \A d \in Call : missed'[d] => missed[d] \/ (pc[c] \in Admitted /\ d # c /\ On[d] = On[c])
Writes(c) ==
  \/ UNCHANGED <<epoch, base>> /\ (pc'[c] \in Admitted => pc[c] \in Admitted) /\ MissedBy(c)
  \/ Lease!Mutate(c) /\ missed' = missed
  \/ Lease!Observe(c) /\ missed' = [missed EXCEPT ![c] = FALSE] /\ pc[c] = "looking" /\ pc'[c] = "looked"
OthersStay(c) == \A d \in Call \ {c} : pc'[d] = pc[d] /\ at'[d] = at[d] /\ mend'[d] = mend[d] /\ verdict'[d] = verdict[d]

\* The parts of ActTypes that the steps of a call seldom touch.
LEMMA TypesKept ==
  ASSUME ActTypes, UNCHANGED setting, NEW c \in Call, OthersStay(c),
         pc' \in [Call -> Place], at' \in [Call -> Nat], at'[c] \in Index(c),
         holder' \in [App \cup {Attention} -> Call \cup {Nobody}],
         epoch' \in [App \cup {Attention} -> Nat], base' \in [Call -> Nat],
         attempt' \in [Call -> 1 .. 2], stale' \in [Call -> BOOLEAN], spent' \in [Call -> BOOLEAN], missed' \in [Call -> BOOLEAN],
         mend' \in [Call -> {"no", "running", "over"}], verdict' \in [Call -> {"", "completed", "never", "maybe"}],
         user' \in {"quiet", "active"}, front' \in App \cup {Nobody},
         DOMAIN landed' = Call /\ \A d \in Call : landed'[d] \in [Index(d)' -> Nat],
         DOMAIN late' = Call /\ \A d \in Call : late'[d] \subseteq Index(d)'
  PROVE  ActTypes'
<1>1. \A d \in Call : Index(d)' = Index(d)
  BY DEF Index, Actions
<1>2. \A d \in Call : at'[d] \in Index(d)' \/ (Index(d)' = {} /\ pc'[d] = "done")
  BY <1>1 DEF ActTypes, OthersStay
<1>3. QED BY <1>2 DEF ActTypes

\* Fewer of them at a time: a step that leaves the world, the attempt and the
\* knowledge of staleness alone.
LEMMA CalmTypes ==
  ASSUME ActTypes, UNCHANGED setting, NEW c \in Call, OthersStay(c),
         pc' \in [Call -> Place], at' \in [Call -> Nat], at'[c] \in Index(c),
         holder' \in [App \cup {Attention} -> Call \cup {Nobody}], UNCHANGED <<epoch, base>>,
         spent' \in [Call -> BOOLEAN], missed' \in [Call -> BOOLEAN],
         mend' \in [Call -> {"no", "running", "over"}], verdict' \in [Call -> {"", "completed", "never", "maybe"}],
         UNCHANGED <<attempt, stale, world>>,
         DOMAIN landed' = Call /\ \A d \in Call : landed'[d] \in [Index(d)' -> Nat],
         DOMAIN late' = Call /\ \A d \in Call : late'[d] \subseteq Index(d)'
  PROVE  ActTypes'
<1>1. UNCHANGED <<user, front>>
  BY DEF world
<1>2. epoch' \in [App \cup {Attention} -> Nat] /\ base' \in [Call -> Nat] /\ attempt' \in [Call -> 1 .. 2] /\ stale' \in [Call -> BOOLEAN]
      /\ user' \in {"quiet", "active"} /\ front' \in App \cup {Nobody}
  BY <1>1 DEF ActTypes
<1>3. QED BY <1>2, TypesKept

LEMMA EffectsKept ==
  ASSUME ActTypes, UNCHANGED setting
  PROVE  /\ late' = late => DOMAIN late' = Call /\ \A d \in Call : late'[d] \subseteq Index(d)'
         /\ landed' = landed => DOMAIN landed' = Call /\ \A d \in Call : landed'[d] \in [Index(d)' -> Nat]
         /\ missed' = missed => missed' \in [Call -> BOOLEAN]
BY DEF ActTypes, Index, Actions

\* An error, whatever was delivered before it.
LEMMA ThrowStep ==
  ASSUME ActTypes, Holds, Routed, UNCHANGED setting, NEW c \in Call, pc[c] # "done",
         NEW retried \in BOOLEAN, NEW told \in {"never", "maybe"}, Throw(c, retried, told),
         missed' \in [Call -> BOOLEAN], MissedBy(c),
         DOMAIN landed' = Call /\ \A d \in Call : landed'[d] \in [Index(d)' -> Nat],
         DOMAIN late' = Call /\ \A d \in Call : late'[d] \subseteq Index(d)'
  PROVE  ActTypes' /\ OthersStay(c) /\ Leases(c) /\ Writes(c)
<1>1. at[c] \in Index(c) /\ at \in [Call -> Nat]
  BY DEF ActTypes
<1>2. /\ pc' \in [Call -> Place] /\ \A d \in Call \ {c} : pc'[d] = pc[d] /\ mend'[d] = mend[d] /\ verdict'[d] = verdict[d] /\ spent'[d] = spent[d]
      /\ mend' \in [Call -> {"no", "running", "over"}] /\ verdict' \in [Call -> {"", "completed", "never", "maybe"}]
      /\ spent' \in [Call -> BOOLEAN] /\ UNCHANGED <<at, attempt, stale, world>>
      /\ \/ mend[c] = "running" /\ pc'[c] = "verify" /\ Lease!Drop(Held(c) \cap {Attention})
         \/ Lease!Drop(Held(c)) /\ pc'[c] \in {"observe", "done"}
  BY ThrowTypes
<1>3. /\ holder' \in [App \cup {Attention} -> Call \cup {Nobody}] /\ UNCHANGED <<epoch, base>>
  BY <1>2, DropTypes
<1>4. OthersStay(c)
  BY <1>2 DEF OthersStay
<1>5. ActTypes'
  BY <1>1, <1>2, <1>3, <1>4, CalmTypes
<1>6. mend[c] = "running" => pc[c] \in {"quiet", "attend", "front"}
  BY DEF Routed
<1>7. Leases(c)
  BY <1>2, <1>6 DEF Leases, Out
<1>8. Writes(c)
  BY <1>2, <1>3, <1>6 DEF Writes, Admitted
<1>9. QED BY <1>4, <1>5, <1>7, <1>8

LEMMA LandMisses ==
  ASSUME ActTypes, UNCHANGED setting, NEW c \in Call, NEW I, Land(c, I), pc[c] \in Admitted
  PROVE  MissedBy(c)
BY LandTypes DEF MissedBy

\* The lease of a step, action by action: admission,
LEMMA AdmissionLeases ==
  ASSUME ActTypes, Holds, Routed, UNCHANGED setting, NEW c \in Call,
         Diverted(c) \/ Enter(c) \/ Refuse(c) \/ Admit(c) \/ LeaseTimesOut(c)
  PROVE  ActTypes' /\ OthersStay(c) /\ Leases(c) /\ Writes(c)
<1>0. /\ pc[c] # "done" /\ at[c] \in Index(c) /\ at \in [Call -> Nat] /\ On[c] \in App \cup {Attention} /\ On[c] \in App
      /\ missed \in [Call -> BOOLEAN] /\ Attention \notin App
  <2>1. pc[c] # "done"
    BY DEF Diverted, Enter, Refuse, Admit, LeaseTimesOut
  <2>2. QED BY <2>1, CallAssumption DEF ActTypes
<1>1. CASE Diverted(c) \/ Refuse(c) \/ LeaseTimesOut(c)
  <2>1. \E b \in BOOLEAN : Throw(c, b, "never")
    BY <1>1 DEF Diverted, Refuse, LeaseTimesOut
  <2>2. UNCHANGED <<landed, late, missed>>
    BY <1>1 DEF Diverted, Refuse, LeaseTimesOut, effects
  <2>3. MissedBy(c)
    BY <2>2 DEF MissedBy
  <2>4. QED BY <1>0, <2>1, <2>2, <2>3, ThrowStep, EffectsKept
<1>2. CASE Enter(c)
  <2>1. pc[c] = "idle" /\ Lease!Take(c, On[c]) /\ Goto(c, "admit") /\ UNCHANGED <<attempt, stale, spent, mend, verdict, world, at, landed, late, missed>>
    BY <1>2 DEF Enter, Calm, effects
  <2>2. pc' \in [Call -> Place] /\ pc'[c] = "admit" /\ \A d \in Call \ {c} : pc'[d] = pc[d]
    BY <2>1, GotoTypes DEF Place
  <2>3. holder' \in [App \cup {Attention} -> Call \cup {Nobody}] /\ UNCHANGED <<epoch, base>>
    BY <1>0, <2>1, TakeTypes
  <2>4. OthersStay(c)
    BY <2>1, <2>2 DEF OthersStay
  <2>5. spent' \in [Call -> BOOLEAN] /\ mend' \in [Call -> {"no", "running", "over"}] /\ verdict' \in [Call -> {"", "completed", "never", "maybe"}]
    BY <2>1 DEF ActTypes
  <2>6. ActTypes'
    BY <1>0, <2>1, <2>2, <2>3, <2>4, <2>5, EffectsKept, CalmTypes
  <2>7. QED BY <2>1, <2>2, <2>3, <2>4, <2>6 DEF Leases, Writes, MissedBy, Out, Admitted
<1>3. CASE Admit(c)
  <2>1. pc[c] = "admit" /\ Lease!Mutate(c) /\ Goto(c, FirstStop(c)) /\ UNCHANGED <<attempt, stale, spent, mend, verdict, user, front, at, landed, late, missed>>
    BY <1>3 DEF Admit, Calm, effects, world
  <2>a. FirstStop(c) \in {"batch", "quiet", "deliver"}
    BY DEF FirstStop
  <2>2. pc' \in [Call -> Place] /\ pc'[c] = FirstStop(c) /\ \A d \in Call \ {c} : pc'[d] = pc[d]
    BY <2>1, <2>a, GotoTypes DEF Place
  <2>3. holder' = holder /\ holder' \in [App \cup {Attention} -> Call \cup {Nobody}]
        /\ epoch' \in [App \cup {Attention} -> Nat] /\ base' \in [Call -> Nat]
    <3>1. holder' = holder /\ epoch' = [epoch EXCEPT ![On[c]] = epoch[On[c]] + 1] /\ base' = [base EXCEPT ![c] = base[c] + 1]
      BY <2>1 DEF Lease!Mutate
    <3>2. epoch \in [App \cup {Attention} -> Nat] /\ base \in [Call -> Nat] /\ holder \in [App \cup {Attention} -> Call \cup {Nobody}]
      BY DEF ActTypes
    <3>3. epoch[On[c]] \in Nat /\ base[c] \in Nat
      BY <1>0, <3>2
    <3>4. epoch[On[c]] + 1 \in Nat /\ base[c] + 1 \in Nat
      BY <3>3
    <3>5. QED BY <1>0, <3>1, <3>2, <3>4
  <2>4. OthersStay(c)
    BY <2>1, <2>2 DEF OthersStay
  <2>5. /\ spent' \in [Call -> BOOLEAN] /\ mend' \in [Call -> {"no", "running", "over"}] /\ verdict' \in [Call -> {"", "completed", "never", "maybe"}]
        /\ attempt' \in [Call -> 1 .. 2] /\ stale' \in [Call -> BOOLEAN] /\ user' \in {"quiet", "active"} /\ front' \in App \cup {Nobody}
    BY <2>1 DEF ActTypes
  <2>6. ActTypes'
    BY <1>0, <2>1, <2>2, <2>3, <2>4, <2>5, EffectsKept, TypesKept
  <2>7. QED BY <2>1, <2>2, <2>3, <2>4, <2>6, <2>a DEF Leases, Writes, Out
<1>4. QED BY <1>1, <1>2, <1>3

\* A step that leaves leases, epochs and the world alone.
LEMMA PlainStep ==
  ASSUME ActTypes, UNCHANGED setting, NEW c \in Call, OthersStay(c), UNCHANGED leaseVars,
         UNCHANGED <<attempt, stale, world>>, at[c] \in Index(c),
         spent' \in [Call -> BOOLEAN], mend' \in [Call -> {"no", "running", "over"}], verdict' = verdict,
         missed' \in [Call -> BOOLEAN], MissedBy(c),
         pc' \in [Call -> Place], at' \in [Call -> Nat], at'[c] \in Index(c),
         pc[c] \in Admitted, pc'[c] \in Admitted, pc[c] = "front" <=> pc'[c] = "front",
         DOMAIN landed' = Call /\ \A d \in Call : landed'[d] \in [Index(d)' -> Nat],
         DOMAIN late' = Call /\ \A d \in Call : late'[d] \subseteq Index(d)'
  PROVE  ActTypes' /\ OthersStay(c) /\ Leases(c) /\ Writes(c)
<1>1. UNCHANGED <<holder, epoch, base>>
  BY DEF leaseVars
<1>2. holder' \in [App \cup {Attention} -> Call \cup {Nobody}] /\ verdict' \in [Call -> {"", "completed", "never", "maybe"}]
  BY <1>1 DEF ActTypes
<1>3. ActTypes'
  BY <1>1, <1>2, CalmTypes
<1>4. QED BY <1>1, <1>3 DEF Leases, Writes, Out, Admitted

\* delivery in the background,
LEMMA DeliveryLeases ==
  ASSUME ActTypes, Holds, Routed, UNCHANGED setting, NEW c \in Call,
         Batch(c) \/ Escalate(c) \/ BackgroundLands(c) \/ BackgroundDidnt(c) \/ BackgroundRefused(c) \/ TargetGone(c) \/ HelperLost(c)
  PROVE  ActTypes' /\ OthersStay(c) /\ Leases(c) /\ Writes(c)
<1>0. /\ pc[c] \in {"batch", "deliver", "front"} /\ at[c] \in Index(c) /\ at \in [Call -> Nat] /\ missed \in [Call -> BOOLEAN]
      /\ spent \in [Call -> BOOLEAN] /\ mend \in [Call -> {"no", "running", "over"}]
  <2>1. pc[c] \in {"batch", "deliver", "front"}
    BY DEF Batch, Escalate, BackgroundLands, BackgroundDidnt, BackgroundRefused, TargetGone, HelperLost, InBackground, Delivering
  <2>2. QED BY <2>1 DEF ActTypes
<1>a. pc[c] \in Admitted /\ pc[c] # "done"
  BY <1>0 DEF Admitted
<1>b. ASSUME NEW I, Land(c, I)
      PROVE  /\ DOMAIN landed' = Call /\ \A d \in Call : landed'[d] \in [Index(d)' -> Nat]
             /\ missed' \in [Call -> BOOLEAN] /\ MissedBy(c)
  BY <1>b, <1>a, LandTypes, LandMisses
<1>c. missed' = missed => MissedBy(c)
  BY DEF MissedBy
<1>d. ASSUME NEW there \in {"quiet", "verify", "deliver"}, Goto(c, there)
      PROVE  pc' \in [Call -> Place] /\ pc'[c] = there /\ pc'[c] \in Admitted /\ pc'[c] # "front" /\ \A d \in Call \ {c} : pc'[d] = pc[d]
  BY <1>d, GotoTypes DEF Place, Admitted
<1>1. CASE Batch(c)
  <2>1. /\ pc[c] = "batch" /\ Goto(c, "verify") /\ UNCHANGED <<attempt, stale, spent, mend, verdict, world, at, late>> /\ UNCHANGED leaseVars
        /\ \E k \in 0 .. Len(Actions[c]) : Land(c, 1 .. k)
    BY <1>1 DEF Batch, Calm
  <2>2. OthersStay(c)
    BY <1>d, <2>1 DEF OthersStay
  <2>3. QED BY <1>0, <1>a, <1>b, <1>d, <2>1, <2>2, EffectsKept, PlainStep
<1>2. CASE Escalate(c)
  <2>1. pc[c] = "deliver" /\ Goto(c, "quiet") /\ UNCHANGED <<attempt, stale, spent, mend, verdict, world, at, late, landed, missed>> /\ UNCHANGED leaseVars
    BY <1>2 DEF Escalate, Calm, effects
  <2>2. OthersStay(c)
    BY <1>d, <2>1 DEF OthersStay
  <2>3. QED BY <1>0, <1>a, <1>c, <1>d, <2>1, <2>2, EffectsKept, PlainStep
<1>3. CASE BackgroundLands(c)
  <2>1. pc[c] = "deliver" /\ Advance(c, "deliver") /\ UNCHANGED <<attempt, stale, spent, mend, verdict, world, late>> /\ UNCHANGED leaseVars /\ Land(c, {at[c]})
    BY <1>3 DEF BackgroundLands, InBackground, Calm
  <2>2. /\ pc' \in [Call -> Place] /\ at' \in [Call -> Nat] /\ at'[c] \in Index(c) /\ pc'[c] \in {"deliver", "verify"}
        /\ \A d \in Call \ {c} : pc'[d] = pc[d] /\ at'[d] = at[d]
    BY <1>0, <2>1, AdvanceTypes DEF Place
  <2>3. OthersStay(c)
    BY <2>1, <2>2 DEF OthersStay
  <2>4. QED BY <1>0, <1>a, <1>b, <2>1, <2>2, <2>3, EffectsKept, PlainStep DEF Admitted
<1>4. CASE BackgroundDidnt(c)
  <2>1. /\ pc[c] = "deliver" /\ Nothing(c) /\ (Goto(c, "quiet") \/ Goto(c, "verify"))
        /\ UNCHANGED <<attempt, stale, spent, mend, verdict, world, at>> /\ UNCHANGED leaseVars
    BY <1>4 DEF BackgroundDidnt, InBackground, Calm
  <2>2. OthersStay(c)
    BY <1>d, <2>1 DEF OthersStay
  <2>3. /\ DOMAIN late' = Call /\ \A d \in Call : late'[d] \subseteq Index(d)'
        /\ UNCHANGED <<landed, missed>>
    BY <1>0, <2>1, NothingTypes
  <2>4. QED BY <1>0, <1>a, <1>c, <1>d, <2>1, <2>2, <2>3, EffectsKept, PlainStep
<1>5. CASE BackgroundRefused(c)
  <2>0. pc[c] = "deliver" /\ Nothing(c)
    BY <1>5 DEF BackgroundRefused, InBackground
  <2>1. /\ pc[c] = "deliver" /\ UNCHANGED <<landed, missed>>
        /\ DOMAIN late' = Call /\ \A d \in Call : late'[d] \subseteq Index(d)'
    BY <1>0, <2>0, NothingTypes
  <2>2. CASE Throw(c, FALSE, "never")
    BY <1>a, <1>c, <2>1, <2>2, ThrowStep, EffectsKept
  <2>3. CASE Goto(c, "quiet") /\ Calm(c) /\ UNCHANGED <<leaseVars, at>>
    <3>1. UNCHANGED <<attempt, stale, spent, mend, verdict, world, at>> /\ UNCHANGED leaseVars
      BY <2>3 DEF Calm
    <3>2. OthersStay(c)
      BY <1>d, <2>3, <3>1 DEF OthersStay
    <3>3. QED BY <1>0, <1>a, <1>c, <1>d, <2>1, <2>3, <3>1, <3>2, EffectsKept, PlainStep
  <2>4. QED BY <1>5, <2>2, <2>3 DEF BackgroundRefused
<1>6. CASE TargetGone(c)
  <2>1. Throw(c, TRUE, "never") /\ UNCHANGED <<landed, late, missed>>
    BY <1>6 DEF TargetGone, effects
  <2>2. QED BY <1>a, <1>c, <2>1, ThrowStep, EffectsKept
<1>7. CASE HelperLost(c)
  <2>1. Throw(c, FALSE, "maybe") /\ UNCHANGED late /\ \E I \in SUBSET Nat : Land(c, I)
    <3>1. at[c] \in Nat /\ \A k \in 0 .. Len(Actions[c]) : 1 .. k \subseteq Nat
      BY <1>0
    <3>2. QED BY <1>7, <3>1 DEF HelperLost
  <2>2. QED BY <1>a, <1>b, <2>1, ThrowStep, EffectsKept
<1>8. QED BY <1>1, <1>2, <1>3, <1>4, <1>5, <1>6, <1>7

\* the foreground,
LEMMA ForegroundLeases ==
  ASSUME ActTypes, Holds, Routed, UNCHANGED setting, NEW c \in Call,
         Wait(c) \/ Quiet(c) \/ UserStays(c) \/ Attend(c) \/ AttendYields(c) \/ FrontLands(c) \/ FrontDidnt(c) \/ FrontYields(c)
  PROVE  ActTypes' /\ OthersStay(c) /\ Leases(c) /\ Writes(c)
<1>0. /\ pc[c] \in {"deliver", "quiet", "attend", "front"} /\ at[c] \in Index(c) /\ at \in [Call -> Nat] /\ missed \in [Call -> BOOLEAN]
      /\ spent \in [Call -> BOOLEAN] /\ mend \in [Call -> {"no", "running", "over"}] /\ verdict \in [Call -> {"", "completed", "never", "maybe"}]
      /\ holder \in [App \cup {Attention} -> Call \cup {Nobody}] /\ Attention \in App \cup {Attention} /\ Attention \notin App /\ On[c] \in App
      /\ mend[c] \in {"no", "running", "over"}
  <2>1. pc[c] \in {"deliver", "quiet", "attend", "front"}
    BY DEF Wait, Quiet, UserStays, Attend, AttendYields, FrontLands, FrontDidnt, FrontYields, InFront
  <2>2. QED BY <2>1, CallAssumption DEF ActTypes
<1>a. pc[c] \in Admitted /\ pc[c] # "done"
  BY <1>0 DEF Admitted
<1>b. ASSUME NEW I, Land(c, I)
      PROVE  /\ DOMAIN landed' = Call /\ \A d \in Call : landed'[d] \in [Index(d)' -> Nat]
             /\ missed' \in [Call -> BOOLEAN] /\ MissedBy(c)
  BY <1>b, <1>a, LandTypes, LandMisses
<1>c. missed' = missed => MissedBy(c)
  BY DEF MissedBy
<1>d. ASSUME NEW there \in {"quiet", "verify", "deliver", "attend", "front"}, Goto(c, there)
      PROVE  pc' \in [Call -> Place] /\ pc'[c] = there /\ pc'[c] \in Admitted /\ \A d \in Call \ {c} : pc'[d] = pc[d]
  BY <1>d, GotoTypes DEF Place, Admitted
<1>e. ASSUME NEW R, Lease!Drop(R) PROVE holder' \in [App \cup {Attention} -> Call \cup {Nobody}] /\ UNCHANGED <<epoch, base>>
  BY <1>e, DropTypes
\* What is left to show when a section ends.
<1>f. ASSUME OthersStay(c), UNCHANGED <<attempt, stale, world>>, verdict' = verdict,
             spent' \in [Call -> BOOLEAN], mend' \in [Call -> {"no", "running", "over"}],
             missed' \in [Call -> BOOLEAN], MissedBy(c),
             pc' \in [Call -> Place], at' \in [Call -> Nat], at'[c] \in Index(c), pc'[c] \in Admitted, pc'[c] # "front",
             Lease!Drop(Held(c) \cap {Attention}),
             DOMAIN landed' = Call /\ \A d \in Call : landed'[d] \in [Index(d)' -> Nat],
             DOMAIN late' = Call /\ \A d \in Call : late'[d] \subseteq Index(d)'
      PROVE  ActTypes' /\ OthersStay(c) /\ Leases(c) /\ Writes(c)
  <2>1. holder' \in [App \cup {Attention} -> Call \cup {Nobody}] /\ UNCHANGED <<epoch, base>> /\ verdict' \in [Call -> {"", "completed", "never", "maybe"}]
    BY <1>0, <1>e, <1>f
  <2>2. ActTypes'
    BY <1>f, <2>1, CalmTypes
  <2>3. QED BY <1>a, <1>f, <2>1, <2>2 DEF Leases, Writes, Out, Admitted
<1>1. CASE Wait(c)
  <2>1. UNCHANGED <<attempt, stale, spent, mend, verdict, world, late, landed, missed>>
    BY <1>1 DEF Wait, Calm, effects
  <2>2. ASSUME NEW there \in {"deliver", "front"}, Advance(c, there)
        PROVE  /\ pc' \in [Call -> Place] /\ at' \in [Call -> Nat] /\ at'[c] \in Index(c) /\ pc'[c] \in {there, "verify"} /\ OthersStay(c)
    BY <1>0, <2>1, <2>2, AdvanceTypes DEF Place, OthersStay
  <2>3. CASE pc[c] = "deliver" /\ Advance(c, "deliver") /\ UNCHANGED leaseVars
    BY <1>0, <1>a, <1>c, <2>1, <2>2, <2>3, EffectsKept, PlainStep DEF Admitted
  <2>4. CASE pc[c] = "front" /\ Advance(c, "front") /\ (IF pc'[c] = "verify" THEN Lease!Drop({Attention}) ELSE UNCHANGED leaseVars)
    <3>1. CASE pc'[c] = "verify"
      <4>1. holder[Attention] = c
        BY <1>0, <2>4 DEF Holds, Holding
      <4>2. Held(c) \cap {Attention} = {Attention}
        BY <1>0, <4>1 DEF Held
      <4>3. QED BY <1>0, <1>c, <1>f, <2>1, <2>2, <2>4, <3>1, <4>2, EffectsKept DEF Admitted
    <3>2. CASE pc'[c] # "verify"
      BY <1>0, <1>a, <1>c, <2>1, <2>2, <2>4, <3>2, EffectsKept, PlainStep DEF Admitted
    <3>3. QED BY <3>1, <3>2
  <2>5. QED BY <1>1, <2>3, <2>4 DEF Wait
<1>2. CASE Quiet(c)
  <2>1. pc[c] = "quiet" /\ Goto(c, "attend") /\ UNCHANGED <<attempt, stale, spent, mend, verdict, world, at, late, landed, missed>> /\ UNCHANGED leaseVars
    BY <1>2 DEF Quiet, Calm, effects
  <2>2. OthersStay(c)
    BY <1>d, <2>1 DEF OthersStay
  <2>3. QED BY <1>0, <1>a, <1>c, <1>d, <2>1, <2>2, EffectsKept, PlainStep
<1>g. ASSUME Throw(c, FALSE, "never"), UNCHANGED effects PROVE ActTypes' /\ OthersStay(c) /\ Leases(c) /\ Writes(c)
  <2>1. UNCHANGED <<landed, late, missed>>
    BY <1>g DEF effects
  <2>2. QED BY <1>a, <1>c, <1>g, <2>1, ThrowStep, EffectsKept
<1>3. CASE UserStays(c)
  BY <1>3, <1>g DEF UserStays
<1>4. CASE Attend(c)
  <2>1. /\ pc[c] = "attend" /\ Lease!Take(c, Attention) /\ front' = On[c] /\ Goto(c, "front")
        /\ UNCHANGED <<at, attempt, stale, spent, mend, verdict, user, landed, late, missed>>
    BY <1>4 DEF Attend, effects
  <2>2. OthersStay(c)
    BY <1>d, <2>1 DEF OthersStay
  <2>3. /\ holder' \in [App \cup {Attention} -> Call \cup {Nobody}] /\ UNCHANGED <<epoch, base>>
    BY <1>0, <2>1, TakeTypes
  <2>4. /\ spent' \in [Call -> BOOLEAN] /\ mend' \in [Call -> {"no", "running", "over"}] /\ verdict' \in [Call -> {"", "completed", "never", "maybe"}]
        /\ attempt' \in [Call -> 1 .. 2] /\ stale' \in [Call -> BOOLEAN] /\ user' \in {"quiet", "active"} /\ front' \in App \cup {Nobody}
        /\ epoch' \in [App \cup {Attention} -> Nat] /\ base' \in [Call -> Nat]
    BY <1>0, <2>1, <2>3 DEF ActTypes
  <2>5. ActTypes'
    BY <1>0, <1>d, <2>1, <2>2, <2>3, <2>4, EffectsKept, TypesKept
  <2>6. QED BY <1>a, <1>c, <1>d, <2>1, <2>2, <2>3, <2>5 DEF Leases, Writes
<1>5. CASE AttendYields(c)
  <2>1. CASE Throw(c, FALSE, "never")
    BY <1>5, <1>g, <2>1 DEF AttendYields
  <2>2. CASE Goto(c, "quiet") /\ Calm(c) /\ UNCHANGED <<leaseVars, at>>
    <3>1. pc[c] = "attend" /\ UNCHANGED <<attempt, stale, spent, mend, verdict, world, at, late, landed, missed>> /\ UNCHANGED leaseVars
      BY <1>5, <2>2 DEF AttendYields, Calm, effects
    <3>2. OthersStay(c)
      BY <1>d, <2>2, <3>1 DEF OthersStay
    <3>3. QED BY <1>0, <1>a, <1>c, <1>d, <2>2, <3>1, <3>2, EffectsKept, PlainStep
  <2>3. QED BY <1>5, <2>1, <2>2 DEF AttendYields
<1>6. CASE FrontLands(c)
  <2>1. pc[c] = "front" /\ Land(c, {at[c]}) /\ AfterFront(c) /\ UNCHANGED late
    BY <1>6 DEF FrontLands, InFront
  <2>2. UNCHANGED <<attempt, stale, verdict, world>>
    BY <2>1 DEF AfterFront
  <2>3. /\ pc' \in [Call -> Place] /\ at' \in [Call -> Nat] /\ at'[c] \in Index(c) /\ pc'[c] \in Admitted
        /\ mend' \in [Call -> {"no", "running", "over"}] /\ \A d \in Call \ {c} : pc'[d] = pc[d] /\ at'[d] = at[d] /\ mend'[d] = mend[d]
    <3>1. CASE mend[c] = "running"
      <4>1. mend' = [mend EXCEPT ![c] = "over"] /\ Goto(c, "verify") /\ UNCHANGED at
        BY <2>1, <3>1 DEF AfterFront
      <4>2. QED BY <1>0, <1>d, <4>1
    <3>2. CASE mend[c] # "running"
      <4>1. PICK there \in {"front", "deliver"} : Advance(c, there) /\ UNCHANGED mend
        BY <2>1, <3>2 DEF AfterFront
      <4>2. QED BY <1>0, <4>1, AdvanceTypes DEF Place, Admitted
    <3>3. QED BY <3>1, <3>2
  <2>4. OthersStay(c)
    BY <2>2, <2>3 DEF OthersStay
  <2>5. CASE pc'[c] = "front"
    <3>1. UNCHANGED <<leaseVars, spent>>
      BY <2>1, <2>5 DEF AfterFront
    <3>2. QED BY <1>0, <1>a, <1>b, <2>1, <2>2, <2>3, <2>4, <2>5, <3>1, EffectsKept, PlainStep
  <2>6. CASE pc'[c] # "front"
    <3>1. Lease!Drop(Held(c) \cap {Attention}) /\ spent' = [spent EXCEPT ![c] = FALSE]
      BY <2>1, <2>6 DEF AfterFront, LeaveFront
    <3>2. spent' \in [Call -> BOOLEAN]
      BY <1>0, <3>1
    <3>3. QED BY <1>b, <1>f, <2>1, <2>2, <2>3, <2>4, <2>6, <3>1, <3>2, EffectsKept
  <2>7. QED BY <2>5, <2>6
<1>7. CASE FrontDidnt(c)
  <2>1. /\ pc[c] = "front" /\ Nothing(c) /\ Goto(c, "verify") /\ mend' = [mend EXCEPT ![c] = IF mend[c] = "running" THEN "over" ELSE mend[c]]
        /\ Lease!Drop(Held(c) \cap {Attention}) /\ spent' = [spent EXCEPT ![c] = FALSE] /\ UNCHANGED <<at, attempt, stale, verdict, world>>
    BY <1>7 DEF FrontDidnt, InFront, LeaveFront
  <2>2. spent' \in [Call -> BOOLEAN] /\ mend' \in [Call -> {"no", "running", "over"}] /\ \A d \in Call \ {c} : mend'[d] = mend[d]
    BY <1>0, <2>1
  <2>3. OthersStay(c)
    BY <1>d, <2>1, <2>2 DEF OthersStay
  <2>4. /\ DOMAIN late' = Call /\ \A d \in Call : late'[d] \subseteq Index(d)'
        /\ UNCHANGED <<landed, missed>>
    BY <1>0, <2>1, NothingTypes
  <2>5. QED BY <1>0, <1>c, <1>d, <1>f, <2>1, <2>2, <2>3, <2>4, EffectsKept
<1>8. CASE FrontYields(c)
  <2>0. /\ UNCHANGED <<landed, late>>
        /\ \/ missed' = missed
           \/ missed' = [d \in Call |-> missed[d] \/ (d # c /\ On[d] = On[c])]
    BY <1>8 DEF FrontYields, Tears, effects
  <2>a. missed' \in [Call -> BOOLEAN] /\ MissedBy(c)
    BY <1>0, <1>a, <2>0 DEF MissedBy
  <2>1. CASE Throw(c, FALSE, "never")
    BY <1>a, <2>0, <2>1, <2>a, ThrowStep, EffectsKept
  <2>2. CASE Goto(c, "quiet") /\ at' = [at EXCEPT ![c] = IF Chained(c) THEN 1 ELSE @] /\ Lease!Drop(Held(c) \cap {Attention}) /\ Calm(c)
    <3>1. UNCHANGED <<attempt, stale, spent, mend, verdict, world, late, landed>>
      BY <2>0, <2>2 DEF Calm
    <3>2. at' \in [Call -> Nat] /\ at'[c] \in Index(c) /\ \A d \in Call \ {c} : at'[d] = at[d]
      <4>1. 1 \in Index(c)
        <5>1. Index(c) = 1 .. Len(Actions[c]) /\ Len(Actions[c]) \in Nat
          BY CallActions
        <5>2. at[c] \in Index(c)
          BY <1>0
        <5>3. 1 \in 1 .. Len(Actions[c])
          BY <5>1, <5>2
        <5>4. QED BY <5>1, <5>3
      <4>2. at' = [at EXCEPT ![c] = 1] \/ at' = at
        BY <1>0, <2>2
      <4>3. CASE at' = [at EXCEPT ![c] = 1]
        BY <1>0, <4>1, <4>3
      <4>4. QED BY <1>0, <4>2, <4>3
    <3>3. OthersStay(c)
      BY <1>d, <2>2, <3>1, <3>2 DEF OthersStay
    <3>4. QED BY <1>0, <1>d, <1>f, <2>2, <2>a, <3>1, <3>2, <3>3, EffectsKept
  <2>3. QED BY <1>8, <2>1, <2>2 DEF FrontYields
<1>9. QED BY <1>1, <1>2, <1>3, <1>4, <1>5, <1>6, <1>7, <1>8

\* and the end of an attempt or of the call.
LEMMA EndLeases ==
  ASSUME ActTypes, Holds, Routed, UNCHANGED setting, NEW c \in Call,
         Finish(c) \/ Mend(c) \/ LookAgain(c) \/ Look(c) \/ Rebind(c) \/ RebindFails(c)
  PROVE  ActTypes' /\ OthersStay(c) /\ Leases(c) /\ Writes(c)
<1>0. /\ pc[c] \in {"verify", "observe", "looking", "looked"} /\ at[c] \in Index(c) /\ at \in [Call -> Nat] /\ missed \in [Call -> BOOLEAN]
      /\ spent \in [Call -> BOOLEAN] /\ mend \in [Call -> {"no", "running", "over"}] /\ verdict \in [Call -> {"", "completed", "never", "maybe"}]
      /\ stale \in [Call -> BOOLEAN] /\ user \in {"quiet", "active"} /\ front \in App \cup {Nobody} /\ attempt \in [Call -> 1 .. 2]
      /\ holder \in [App \cup {Attention} -> Call \cup {Nobody}] /\ epoch \in [App \cup {Attention} -> Nat] /\ base \in [Call -> Nat]
      /\ Attention \notin App /\ On[c] \in App /\ On[c] \in App \cup {Attention}
  <2>1. pc[c] \in {"verify", "observe", "looking", "looked"}
    BY DEF Finish, Mend, LookAgain, Look, Rebind, RebindFails
  <2>2. QED BY <2>1, CallAssumption DEF ActTypes
<1>a. ASSUME pc[c] \in {"verify", "looking", "looked"} PROVE Held(c) = {On[c]}
  <2>1. holder[On[c]] = c /\ \A r \in App \cup {Attention} : holder[r] = c => r = On[c]
    <3>1. \A r \in App \cup {Attention} : holder[r] = c <=> Holding(c, r)
      BY DEF Holds
    <3>2. Holding(c, On[c]) /\ \A r : Holding(c, r) => r = On[c]
      BY <1>a DEF Holding, Out
    <3>3. QED BY <1>0, <3>1, <3>2
  <2>2. QED BY <1>0, <2>1 DEF Held
<1>b. ASSUME NEW there \in {"done", "quiet", "looking", "looked", "idle"}, Goto(c, there)
      PROVE  pc' \in [Call -> Place] /\ pc'[c] = there /\ \A d \in Call \ {c} : pc'[d] = pc[d]
  BY <1>b, GotoTypes DEF Place
<1>c. missed' = missed => MissedBy(c)
  BY DEF MissedBy
<1>1. CASE Finish(c)
  <2>1. /\ pc[c] = "verify" /\ Lease!Drop({On[c]}) /\ Goto(c, "done") /\ verdict' = [verdict EXCEPT ![c] = "completed"]
        /\ UNCHANGED <<at, attempt, stale, spent, mend, world, landed, late, missed>>
    BY <1>1 DEF Finish, effects
  <2>2. verdict' \in [Call -> {"", "completed", "never", "maybe"}] /\ \A d \in Call \ {c} : verdict'[d] = verdict[d]
    BY <1>0, <2>1
  <2>3. OthersStay(c)
    BY <1>b, <2>1, <2>2 DEF OthersStay
  <2>4. holder' \in [App \cup {Attention} -> Call \cup {Nobody}] /\ UNCHANGED <<epoch, base>>
    BY <2>1, DropTypes
  <2>5. ActTypes'
    BY <1>0, <1>b, <2>1, <2>2, <2>3, <2>4, EffectsKept, CalmTypes
  <2>6. QED BY <1>a, <1>b, <1>c, <2>1, <2>3, <2>4, <2>5 DEF Leases, Writes, Out, Admitted
<1>2. CASE Mend(c)
  <2>1. /\ pc[c] = "verify" /\ Goto(c, "quiet") /\ landed[c][1] > 0 /\ Actions[c] = <<"text">>
        /\ landed' = [landed EXCEPT ![c][1] = landed[c][1] - 1] /\ mend' = [mend EXCEPT ![c] = "running"]
        /\ UNCHANGED <<at, attempt, stale, spent, verdict, world, late, missed>> /\ UNCHANGED leaseVars
    BY <1>2 DEF Mend
  <2>2. mend' \in [Call -> {"no", "running", "over"}] /\ \A d \in Call \ {c} : mend'[d] = mend[d]
    BY <1>0, <2>1
  <2>3. OthersStay(c)
    BY <1>b, <2>1, <2>2 DEF OthersStay
  <2>4. DOMAIN landed' = Call /\ \A d \in Call : landed'[d] \in [Index(d)' -> Nat]
    <3>1. DOMAIN landed = Call /\ (\A d \in Call : landed[d] \in [Index(d) -> Nat]) /\ \A d \in Call : Index(d)' = Index(d)
      BY DEF ActTypes, Index, Actions
    <3>2. Len(Actions[c]) = 1
      BY <2>1
    <3>3. 1 \in Index(c)
      BY <3>2, CallActions
    <3>4. landed[c][1] - 1 \in Nat
      BY <2>1, <3>1, <3>3
    <3> DEFINE f == [landed[c] EXCEPT ![1] = landed[c][1] - 1]
    <3>5. landed' = [landed EXCEPT ![c] = f]
      BY <2>1
    <3>6. f \in [Index(c) -> Nat]
      BY <3>1, <3>4
    <3> HIDE DEF f
    <3>7. QED BY <3>1, <3>5, <3>6
  <2>5. QED BY <1>0, <1>b, <1>c, <2>1, <2>2, <2>3, <2>4, EffectsKept, PlainStep DEF Admitted
<1>3. CASE LookAgain(c)
  <2>1. /\ pc[c] = "observe" /\ Lease!Take(c, On[c]) /\ Goto(c, "looking")
        /\ UNCHANGED <<at, attempt, stale, spent, mend, verdict, world, landed, late, missed>>
    BY <1>3 DEF LookAgain, Calm, effects
  <2>2. OthersStay(c)
    BY <1>b, <2>1 DEF OthersStay
  <2>3. holder' \in [App \cup {Attention} -> Call \cup {Nobody}] /\ UNCHANGED <<epoch, base>>
    BY <1>0, <2>1, TakeTypes
  <2>4. ActTypes'
    BY <1>0, <1>b, <2>1, <2>2, <2>3, EffectsKept, CalmTypes
  <2>5. QED BY <1>b, <1>c, <2>1, <2>2, <2>3, <2>4 DEF Leases, Writes, Out, Admitted
<1>4. CASE Look(c)
  <2>1. /\ pc[c] = "looking" /\ Lease!Observe(c) /\ stale' = [stale EXCEPT ![c] = FALSE] /\ missed' = [missed EXCEPT ![c] = FALSE]
        /\ Goto(c, "looked") /\ UNCHANGED <<at, attempt, spent, mend, verdict, user, front, landed, late>>
    BY <1>4 DEF Look, world
  <2>2. OthersStay(c)
    BY <1>b, <2>1 DEF OthersStay
  <2>3. /\ holder' = holder /\ epoch' = epoch /\ base' = [base EXCEPT ![c] = epoch[On[c]]]
    BY <2>1 DEF Lease!Observe
  <2>4. base' \in [Call -> Nat] /\ stale' \in [Call -> BOOLEAN] /\ missed' \in [Call -> BOOLEAN]
    BY <1>0, <2>1, <2>3
  <2>5. ActTypes'
    BY <1>0, <1>b, <2>1, <2>2, <2>3, <2>4, EffectsKept, TypesKept
  <2>6. QED BY <1>b, <2>1, <2>2, <2>3, <2>5 DEF Leases, Writes, Out
<1>5. CASE Rebind(c)
  <2>1. /\ pc[c] = "looked" /\ Lease!Drop({On[c]}) /\ Goto(c, "idle") /\ at' = [at EXCEPT ![c] = 1] /\ attempt' = [attempt EXCEPT ![c] = 2]
        /\ UNCHANGED <<stale, spent, mend, verdict, user, front, landed, late, missed>>
    BY <1>5 DEF Rebind, effects, world
  <2>2. 1 \in Index(c)
    <3>1. Index(c) = 1 .. Len(Actions[c]) /\ Len(Actions[c]) \in Nat
      BY CallActions
    <3>2. at[c] \in Index(c)
      BY <1>0
    <3>3. 1 \in 1 .. Len(Actions[c])
      BY <3>1, <3>2
    <3>4. QED BY <3>1, <3>3
  <2>3. at' \in [Call -> Nat] /\ at'[c] \in Index(c) /\ \A d \in Call \ {c} : at'[d] = at[d]
    BY <1>0, <2>1, <2>2
  <2>4. attempt' \in [Call -> 1 .. 2]
    <3>1. 2 \in 1 .. 2
      OBVIOUS
    <3>2. QED BY <1>0, <2>1, <3>1
  <2>5. OthersStay(c)
    BY <1>b, <2>1, <2>3 DEF OthersStay
  <2>6. holder' \in [App \cup {Attention} -> Call \cup {Nobody}] /\ UNCHANGED <<epoch, base>>
    BY <2>1, DropTypes
  <2>7. ActTypes'
    BY <1>0, <1>b, <2>1, <2>3, <2>4, <2>5, <2>6, EffectsKept, TypesKept
  <2>8. QED BY <1>a, <1>b, <1>c, <2>1, <2>5, <2>6, <2>7 DEF Leases, Writes, Out, Admitted
<1>6. CASE RebindFails(c)
  <2>1. Throw(c, FALSE, "never") /\ UNCHANGED <<landed, late, missed>>
    BY <1>6 DEF RebindFails, effects
  <2>2. QED BY <1>0, <1>c, <2>1, ThrowStep, EffectsKept
<1>7. QED BY <1>1, <1>2, <1>3, <1>4, <1>5, <1>6

LEMMA StepLeases ==
  ASSUME ActTypes, Holds, Routed, UNCHANGED setting, NEW c \in Call, Step(c)
  PROVE  ActTypes' /\ OthersStay(c) /\ Leases(c) /\ Writes(c)
BY AdmissionLeases, DeliveryLeases, ForegroundLeases, EndLeases DEF Step

\* Leases are held exactly where they are needed, and admission is fenced.
LEMMA LeaseKept ==
  ASSUME LeaseInv, ActTypes', NEW c \in Call, OthersStay(c), Leases(c), Writes(c)
  PROVE  Holds' /\ Fenced'
<1>0. /\ ActTypes /\ Holds /\ Fenced /\ On \in [Call -> App] /\ Attention \notin App /\ Nobody \notin Call
      /\ holder \in [App \cup {Attention} -> Call \cup {Nobody}] /\ epoch \in [App \cup {Attention} -> Nat] /\ base \in [Call -> Nat]
      /\ missed \in [Call -> BOOLEAN]
  BY CallAssumption DEF LeaseInv, ActTypes
<1>1. Holds'
  <2> SUFFICES ASSUME NEW r \in App \cup {Attention}, NEW d \in Call PROVE holder'[r] = d <=> Holding(d, r)'
    BY DEF Holds, Holding
  <2>1. \A e \in Call : holder[r] = e <=> Holding(e, r)
    BY <1>0 DEF Holds
  <2>2. d # c => (Holding(d, r)' <=> Holding(d, r))
    BY DEF OthersStay, Holding
  <2>3. CASE holder' = holder /\ (pc[c] \in Out <=> pc'[c] \in Out) /\ (pc[c] = "front" <=> pc'[c] = "front")
    BY <2>1, <2>2, <2>3 DEF Holding
  <2>4. CASE Lease!Take(c, On[c]) /\ pc[c] \in Out /\ pc'[c] \notin Out /\ pc'[c] # "front"
    <3>1. holder[On[c]] = Nobody /\ holder' = [holder EXCEPT ![On[c]] = c]
      BY <2>4 DEF Lease!Take
    <3>2. QED BY <1>0, <2>1, <2>2, <2>4, <3>1 DEF Holding, Out
  <2>5. CASE Lease!Take(c, Attention) /\ pc[c] = "attend" /\ pc'[c] = "front"
    <3>1. holder[Attention] = Nobody /\ holder' = [holder EXCEPT ![Attention] = c]
      BY <2>5 DEF Lease!Take
    <3>2. QED BY <1>0, <2>1, <2>2, <2>5, <3>1 DEF Holding, Out
  <2>6. CASE Lease!Drop(Held(c)) /\ pc'[c] \in Out
    <3>1. holder'[r] = IF holder[r] = c THEN Nobody ELSE holder[r]
      BY <1>0, <2>6, DropTypes DEF Held
    <3>2. QED BY <1>0, <2>1, <2>2, <2>6, <3>1 DEF Holding, Out
  <2>7. CASE Lease!Drop(Held(c) \cap {Attention}) /\ pc[c] \notin Out /\ pc'[c] \notin Out /\ pc'[c] # "front"
    <3>1. holder'[r] = IF holder[r] = c /\ r = Attention THEN Nobody ELSE holder[r]
      BY <1>0, <2>7, DropTypes DEF Held
    <3>2. QED BY <1>0, <2>1, <2>2, <2>7, <3>1 DEF Holding, Out
  <2>8. QED BY <2>3, <2>4, <2>5, <2>6, <2>7 DEF Leases
\* Who has been admitted to an application is alone there.
<1>2. \A d, e \in Call : pc[d] \in Admitted \cup {"admit", "looking", "looked"} /\ pc[e] \in Admitted \cup {"admit", "looking", "looked"} /\ On[d] = On[e] => d = e
  BY <1>0 DEF Holds, Holding, Out, Admitted
<1>3. Fenced'
  <2> SUFFICES ASSUME NEW d \in Call
               PROVE  /\ base'[d] <= epoch'[On[d]] /\ (missed'[d] => base'[d] < epoch'[On[d]])
                      /\ pc'[d] \in Admitted => IsNewest(d)'
    BY DEF Fenced, Admitted
  <2>1. \A e \in Call : /\ base[e] <= epoch[On[e]] /\ (missed[e] => base[e] < epoch[On[e]])
                        /\ pc[e] \in Admitted => IsNewest(e)
    BY <1>0 DEF Fenced
  <2>2. \A e \in Call : base[e] \in Nat /\ epoch[On[e]] \in Nat
    BY <1>0
  <2>3. CASE UNCHANGED <<epoch, base>> /\ (pc'[c] \in Admitted => pc[c] \in Admitted) /\ MissedBy(c)
    <3>1. pc'[d] \in Admitted => pc[d] \in Admitted
      BY <2>3 DEF OthersStay
    <3>2. IsNewest(d) => IsNewest(d)'
      BY <2>3 DEF IsNewest
    <3>3. missed'[d] => base'[d] < epoch'[On[d]]
      BY <2>1, <2>3 DEF MissedBy, IsNewest
    <3>4. QED BY <2>1, <2>3, <3>1, <3>2, <3>3
  <2>4. CASE Lease!Mutate(c) /\ missed' = missed
    <3>1. /\ holder[On[c]] = c /\ base[c] = epoch[On[c]] /\ epoch' = [epoch EXCEPT ![On[c]] = epoch[On[c]] + 1]
          /\ base' = [base EXCEPT ![c] = base[c] + 1]
      BY <2>4 DEF Lease!Mutate
    <3>2. On[c] \in App \cup {Attention} /\ \A e \in Call : On[e] \in App \cup {Attention}
      BY <1>0
    <3>3. /\ \A e \in Call : On[e] = On[c] => epoch'[On[e]] = epoch[On[e]] + 1
          /\ \A e \in Call : On[e] # On[c] => epoch'[On[e]] = epoch[On[e]]
          /\ base'[c] = base[c] + 1 /\ \A e \in Call \ {c} : base'[e] = base[e]
      BY <1>0, <3>1, <3>2
    <3>4. base'[d] <= epoch'[On[d]] /\ (missed'[d] => base'[d] < epoch'[On[d]])
      <4>1. CASE d = c
        <5>1. ~missed[c]
          BY <2>1, <2>2, <3>1
        <5>2. QED BY <2>4, <2>2, <3>1, <3>3, <4>1, <5>1
      <4>2. CASE d # c
        BY <2>1, <2>2, <2>4, <3>3, <4>2
      <4>3. QED BY <4>1, <4>2
    <3>5. ASSUME pc'[d] \in Admitted PROVE IsNewest(d)'
      <4>1. CASE d = c
        BY <2>1, <2>2, <3>1, <3>3, <4>1 DEF IsNewest
      <4>2. CASE d # c
        <5>1. pc[d] \in Admitted /\ IsNewest(d)
          BY <2>1, <3>5, <4>2 DEF OthersStay
        <5>2. On[d] # On[c]
          BY <1>0, <3>1, <4>2, <5>1 DEF Holds, Holding, Out, Admitted
        <5>3. QED BY <2>2, <3>3, <4>2, <5>1, <5>2 DEF IsNewest
      <4>3. QED BY <4>1, <4>2
    <3>6. QED BY <3>4, <3>5
  <2>5. CASE Lease!Observe(c) /\ missed' = [missed EXCEPT ![c] = FALSE] /\ pc[c] = "looking" /\ pc'[c] = "looked"
    <3>1. epoch' = epoch /\ base' = [base EXCEPT ![c] = epoch[On[c]]]
      BY <2>5 DEF Lease!Observe
    <3>2. base'[c] = epoch[On[c]] /\ \A e \in Call \ {c} : base'[e] = base[e]
      BY <1>0, <3>1
    <3>3. ~missed'[c] /\ \A e \in Call \ {c} : missed'[e] = missed[e]
      BY <1>0, <2>5
    <3>4. base'[d] <= epoch'[On[d]] /\ (missed'[d] => base'[d] < epoch'[On[d]])
      BY <2>1, <2>2, <3>1, <3>2, <3>3
    <3>5. ASSUME pc'[d] \in Admitted PROVE IsNewest(d)'
      <4>1. d # c
        BY <2>5, <3>5 DEF Admitted
      <4>2. pc[d] \in Admitted /\ IsNewest(d)
        BY <2>1, <3>5, <4>1 DEF OthersStay
      <4>3. On[d] # On[c]
        BY <1>2, <2>5, <4>1, <4>2
      <4>4. QED BY <3>1, <3>2, <4>1, <4>2, <4>3 DEF IsNewest
    <3>6. QED BY <3>4, <3>5
  <2>6. QED BY <2>3, <2>4, <2>5 DEF Writes
<1>4. QED BY <1>1, <1>3

--------------------------------------------------------------------------------
(* The way of delivery, and what holds still.                                *)

\* The ways of delivery keep to their places.
Route(c) == /\ pc[c] = "batch" => Batched(c)
            /\ pc[c] = "deliver" => ~Batched(c) /\ ~Chained(c)
            /\ pc[c] \in {"quiet", "attend", "front"} => ~Batched(c)
            /\ mend[c] # "no" => Actions[c] = <<"text">>
            /\ mend[c] = "running" => pc[c] \in {"quiet", "attend", "front"}

LEMMA SingleText ==
  ASSUME ActTypes, NEW c \in Call, Actions[c] = <<"text">>
  PROVE  ~Is(c, {"wait"}) /\ ~Chained(c) /\ (~Headless => ~Batched(c)) /\ Len(Actions[c]) = 1
<1>1. Len(Actions[c]) = 1 /\ Actions[c][1] = "text"
  OBVIOUS
<1>2. at[c] = 1 /\ Index(c) = {1} /\ (c \in setting.stable => Len(Actions[c]) > 1)
  BY <1>1, CallActions
<1>a. c \notin setting.stable
  BY <1>1, <1>2
<1>3. QED BY <1>1, <1>2, <1>a DEF Is, Chained, Batched

LEMMA RouteStep ==
  ASSUME ActTypes, Routed, UNCHANGED setting, NEW c \in Call, Step(c)
  PROVE  Route(c)'
<1>0. /\ Route(c) /\ (Batched(c)' <=> Batched(c)) /\ (Chained(c)' <=> Chained(c)) /\ Actions' = Actions
      /\ pc \in [Call -> Place] /\ mend \in [Call -> {"no", "running", "over"}]
  BY DEF Routed, Route, Batched, Chained, Headless, Index, Actions, ActTypes
<1> SUFFICES /\ pc'[c] = "batch" => Batched(c)
             /\ pc'[c] = "deliver" => ~Batched(c) /\ ~Chained(c)
             /\ pc'[c] \in {"quiet", "attend", "front"} => ~Batched(c)
             /\ mend'[c] # "no" => Actions[c] = <<"text">>
             /\ mend'[c] = "running" => pc'[c] \in {"quiet", "attend", "front"}
  BY <1>0 DEF Route
<1>a. mend[c] = "running" => pc[c] \in {"quiet", "attend", "front"} /\ ~Is(c, {"wait"})
  BY <1>0, SingleText DEF Route
<1>b. ASSUME NEW there, Goto(c, there) PROVE pc'[c] = there
  BY <1>0, <1>b DEF Goto
<1>c. ASSUME NEW retried \in BOOLEAN, NEW told \in {"never", "maybe"}, Throw(c, retried, told)
      PROVE  pc'[c] \in {"verify", "observe", "done"} /\ mend'[c] \in {mend[c], "over"} /\ mend'[c] # "running" /\ (mend'[c] # "no" => mend[c] # "no")
  BY <1>c, ThrowTypes
<1>d. ASSUME NEW retried \in BOOLEAN, NEW told \in {"never", "maybe"}, Throw(c, retried, told)
      PROVE  /\ pc'[c] = "batch" => Batched(c)
             /\ pc'[c] = "deliver" => ~Batched(c) /\ ~Chained(c)
             /\ pc'[c] \in {"quiet", "attend", "front"} => ~Batched(c)
             /\ mend'[c] # "no" => Actions[c] = <<"text">>
             /\ mend'[c] = "running" => pc'[c] \in {"quiet", "attend", "front"}
  BY <1>0, <1>c, <1>d DEF Route
<1>e. ASSUME NEW there, Advance(c, there) PROVE pc'[c] \in {there, "verify"}
  BY <1>0, <1>b, <1>e DEF Advance
<1>1. CASE Diverted(c) \/ Refuse(c) \/ LeaseTimesOut(c) \/ TargetGone(c) \/ UserStays(c) \/ RebindFails(c)
  BY <1>1, <1>d DEF Diverted, Refuse, LeaseTimesOut, TargetGone, UserStays, RebindFails
<1>2. CASE HelperLost(c)
  BY <1>2, <1>d DEF HelperLost
<1>3. CASE Enter(c) \/ LookAgain(c) \/ Look(c) \/ Rebind(c) \/ Finish(c)
  <2>1. UNCHANGED mend /\ pc[c] \in {"idle", "observe", "looking", "looked", "verify"} /\ \E there \in {"admit", "looking", "looked", "idle", "done"} : Goto(c, there)
    BY <1>3 DEF Enter, LookAgain, Look, Rebind, Finish, Calm
  <2>2. QED BY <1>0, <1>b, <2>1 DEF Route
<1>4. CASE Admit(c)
  <2>1. UNCHANGED mend /\ pc[c] = "admit" /\ pc'[c] = FirstStop(c)
    BY <1>4, <1>b DEF Admit, Calm
  <2>2. QED BY <1>0, <2>1 DEF Route, FirstStop, Chained
<1>5. CASE Batch(c)
  BY <1>0, <1>5, <1>b DEF Batch, Calm, Route
<1>6. CASE Wait(c)
  <2>1. UNCHANGED mend /\ Is(c, {"wait"}) /\ pc[c] \in {"deliver", "front"} /\ pc'[c] \in {pc[c], "verify"}
    BY <1>6, <1>e DEF Wait, Calm
  <2>2. QED BY <1>0, <1>a, <2>1 DEF Route
<1>7. CASE Escalate(c) \/ BackgroundDidnt(c) \/ Quiet(c)
  <2>1. UNCHANGED mend /\ pc[c] \in {"deliver", "quiet"} /\ (pc'[c] \in {"quiet", "attend"} \/ (pc[c] = "deliver" /\ pc'[c] = "verify"))
    BY <1>7, <1>b DEF Escalate, BackgroundDidnt, Quiet, InBackground, Calm
  <2>2. QED BY <1>0, <1>a, <2>1 DEF Route
<1>8. CASE BackgroundLands(c)
  <2>1. UNCHANGED mend /\ pc[c] = "deliver" /\ pc'[c] \in {"deliver", "verify"}
    BY <1>8, <1>e DEF BackgroundLands, InBackground, Calm
  <2>2. QED BY <1>0, <1>a, <2>1 DEF Route
<1>9. CASE BackgroundRefused(c)
  <2>1. CASE Throw(c, FALSE, "never")
    BY <1>d, <2>1
  <2>2. CASE Goto(c, "quiet") /\ Calm(c)
    <3>1. UNCHANGED mend /\ pc[c] = "deliver" /\ pc'[c] = "quiet"
      BY <1>9, <1>b, <2>2 DEF BackgroundRefused, InBackground, Calm
    <3>2. QED BY <1>0, <3>1 DEF Route
  <2>3. QED BY <1>9, <2>1, <2>2 DEF BackgroundRefused
<1>10. CASE Attend(c)
  <2>1. UNCHANGED mend /\ pc[c] = "attend" /\ pc'[c] = "front"
    BY <1>10, <1>b DEF Attend
  <2>2. QED BY <1>0, <2>1 DEF Route
<1>11. CASE AttendYields(c) \/ FrontYields(c)
  <2>1. CASE Throw(c, FALSE, "never")
    BY <1>d, <2>1
  <2>2. CASE Goto(c, "quiet") /\ Calm(c)
    <3>1. UNCHANGED mend /\ pc[c] \in {"attend", "front"} /\ pc'[c] = "quiet"
      BY <1>11, <1>b, <2>2 DEF AttendYields, FrontYields, InFront, Calm
    <3>2. QED BY <1>0, <3>1 DEF Route
  <2>3. QED BY <1>11, <2>1, <2>2 DEF AttendYields, FrontYields
<1>12. CASE FrontLands(c)
  <2>1. pc[c] = "front" /\ AfterFront(c)
    BY <1>12 DEF FrontLands, InFront
  <2>2. CASE mend[c] = "running"
    <3>1. mend' = [mend EXCEPT ![c] = "over"] /\ pc'[c] = "verify"
      BY <1>b, <2>1, <2>2 DEF AfterFront
    <3>2. QED BY <1>0, <2>2, <3>1 DEF Route
  <2>3. CASE mend[c] # "running"
    <3>1. UNCHANGED mend /\ pc'[c] \in {IF Chained(c) THEN "front" ELSE "deliver", "verify"}
      BY <1>e, <2>1, <2>3 DEF AfterFront
    <3>2. QED BY <1>0, <2>1, <2>3, <3>1 DEF Route
  <2>4. QED BY <2>2, <2>3
<1>13. CASE FrontDidnt(c)
  <2>1. pc'[c] = "verify" /\ mend' = [mend EXCEPT ![c] = IF mend[c] = "running" THEN "over" ELSE mend[c]]
    BY <1>13, <1>b DEF FrontDidnt
  <2>2. QED BY <1>0, <2>1 DEF Route
<1>14. CASE Mend(c)
  <2>1. pc'[c] = "quiet" /\ mend' = [mend EXCEPT ![c] = "running"] /\ Actions[c] = <<"text">> /\ ~Headless
    BY <1>14, <1>b DEF Mend
  <2>2. ~Batched(c)
    BY <2>1, SingleText
  <2>3. QED BY <1>0, <2>1, <2>2
<1>15. QED BY <1>1, <1>2, <1>3, <1>4, <1>5, <1>6, <1>7, <1>8, <1>9, <1>10, <1>11, <1>12, <1>13, <1>14 DEF Step

LEMMA RoutedKept ==
  ASSUME ActTypes, Routed, UNCHANGED setting, NEW c \in Call, Step(c), OthersStay(c)
  PROVE  Routed'
<1>1. \A d \in Call : (Batched(d)' <=> Batched(d)) /\ (Chained(d)' <=> Chained(d)) /\ Actions' = Actions
  BY DEF Batched, Chained, Headless, Index, Actions
<1>2. ASSUME NEW d \in Call \ {c} PROVE Route(d)'
  BY <1>1 DEF Routed, Route, OthersStay
<1>3. \A d \in Call : Route(d)'
  BY <1>2, RouteStep
<1>4. QED BY <1>3 DEF Routed, Route

\* Only the attention brings an application to the front.
LEMMA StepWorld ==
  ASSUME NEW c \in Call, Step(c)
  PROVE  (UNCHANGED world \/ Attend(c)) /\ (UNCHANGED stale \/ Look(c))
<1>1. ASSUME NEW retried, NEW told, Throw(c, retried, told) PROVE UNCHANGED world /\ UNCHANGED stale
  BY <1>1 DEF Throw
<1>2. ASSUME AfterFront(c) PROVE UNCHANGED world /\ UNCHANGED stale
  BY <1>2 DEF AfterFront
<1>3. ASSUME Calm(c) PROVE UNCHANGED world /\ UNCHANGED stale
  BY <1>3 DEF Calm
<1>4. CASE Diverted(c) \/ Enter(c) \/ Refuse(c) \/ Admit(c) \/ LeaseTimesOut(c) \/ Batch(c) \/ Wait(c) \/ Escalate(c)
  BY <1>1, <1>3, <1>4 DEF Diverted, Enter, Refuse, Admit, LeaseTimesOut, Batch, Wait, Escalate
<1>5. CASE BackgroundLands(c) \/ BackgroundDidnt(c) \/ BackgroundRefused(c) \/ TargetGone(c) \/ HelperLost(c)
  BY <1>1, <1>3, <1>5 DEF BackgroundLands, BackgroundDidnt, BackgroundRefused, TargetGone, HelperLost
<1>6. CASE Quiet(c) \/ UserStays(c) \/ Attend(c) \/ AttendYields(c) \/ FrontLands(c) \/ FrontDidnt(c) \/ FrontYields(c)
  BY <1>1, <1>2, <1>3, <1>6 DEF Quiet, UserStays, Attend, AttendYields, FrontLands, FrontDidnt, FrontYields
<1>7. CASE Finish(c) \/ Mend(c) \/ LookAgain(c) \/ Look(c) \/ Rebind(c) \/ RebindFails(c)
  BY <1>1, <1>3, <1>7 DEF Finish, Mend, LookAgain, Look, Rebind, RebindFails, world
<1>8. QED BY <1>4, <1>5, <1>6, <1>7 DEF Step

LEMMA StillKept ==
  ASSUME ActTypes, Holds, Still, UNCHANGED setting, NEW c \in Call, Step(c), OthersStay(c), Leases(c)
  PROVE  Still'
<1>0. pc \in [Call -> Place] /\ stale \in [Call -> BOOLEAN] /\ On \in [Call -> App] /\ Nobody \notin Call
  BY CallAssumption DEF ActTypes
<1>1. ASSUME ~setting.changes PROVE \A d \in Call : ~stale'[d]
  <2>1. CASE UNCHANGED stale
    BY <1>1, <2>1 DEF Still
  <2>2. CASE Look(c)
    BY <1>0, <1>1, <2>2 DEF Still, Look
  <2>3. QED BY <2>1, <2>2, StepWorld
<1>2. ASSUME ~setting.user PROVE user' = "quiet" /\ \A d \in Call : pc'[d] = "front" => front' = On[d]
  <2>1. user = "quiet" /\ \A d \in Call : pc[d] = "front" => front = On[d]
    BY <1>2 DEF Still
  <2>2. CASE pc'[c] = "front" => pc[c] = "front"
    <3>1. UNCHANGED world
      BY <1>0, <2>2, StepWorld DEF Attend, Goto
    <3>2. QED BY <2>1, <2>2, <3>1 DEF OthersStay, world
  <2>3. CASE Lease!Take(c, Attention) /\ front' = On[c] /\ user' = user
    <3>1. holder[Attention] = Nobody
      BY <2>3 DEF Lease!Take
    <3>2. \A d \in Call : pc[d] # "front"
      BY <1>0, <3>1 DEF Holds, Holding
    <3>3. QED BY <2>1, <2>3, <3>2 DEF OthersStay
  <2>4. QED BY <2>2, <2>3 DEF Leases, Out
<1>3. QED BY <1>1, <1>2 DEF Still

\* An action that is cut off is one of the call's.
TornOK == DOMAIN torn = Call /\ \A c \in Call : torn[c] \subseteq Index(c)

\* Only an admitted call sends input, and only its own.
LEMMA StepEffects ==
  ASSUME ActTypes, TornOK, UNCHANGED setting, NEW c \in Call, Step(c)
  PROVE  /\ pc[c] \in Admitted \/ UNCHANGED <<landed, late, torn>>
         /\ \A d \in Call \ {c} : landed'[d] = landed[d] /\ late'[d] = late[d] /\ torn'[d] = torn[d]
<1>0. pc[c] # "done" => at[c] \in Index(c)
  BY DEF ActTypes
<1>1. CASE Diverted(c) \/ Enter(c) \/ Refuse(c) \/ Admit(c) \/ LeaseTimesOut(c) \/ Finish(c) \/ LookAgain(c) \/ Rebind(c) \/ RebindFails(c)
           \/ Wait(c) \/ Escalate(c) \/ TargetGone(c) \/ Quiet(c) \/ UserStays(c) \/ Attend(c) \/ AttendYields(c)
  BY <1>1 DEF Diverted, Enter, Refuse, Admit, LeaseTimesOut, Finish, LookAgain, Rebind, RebindFails, Wait, Escalate,
              TargetGone, Quiet, UserStays, Attend, AttendYields, effects
<1>2. CASE Look(c)
  BY <1>2 DEF Look
<1>t. CASE FrontYields(c)
  <2>1. UNCHANGED <<landed, late, torn>> \/ (pc[c] \in Admitted /\ UNCHANGED <<landed, late>> /\ torn' = [torn EXCEPT ![c] = torn[c] \cup {at[c]}])
    BY <1>t DEF FrontYields, Tears, InFront, effects, Admitted
  <2>2. \A d \in Call \ {c} : torn'[d] = torn[d]
    BY <2>1 DEF TornOK
  <2>3. QED BY <2>1, <2>2
<1>3. CASE Batch(c) \/ BackgroundLands(c) \/ FrontLands(c) \/ HelperLost(c)
  <2>1. pc[c] \in Admitted /\ late' = late /\ torn' = torn /\ \E I : Land(c, I)
    BY <1>3 DEF Batch, BackgroundLands, FrontLands, HelperLost, InBackground, InFront, Delivering, Admitted, Land
  <2>2. QED BY <2>1, LandTypes
<1>4. CASE BackgroundDidnt(c) \/ BackgroundRefused(c) \/ FrontDidnt(c)
  <2>1. pc[c] \in Admitted /\ pc[c] # "done" /\ Nothing(c) /\ torn' = torn
    BY <1>4 DEF BackgroundDidnt, BackgroundRefused, FrontDidnt, InBackground, InFront, Admitted, Nothing
  <2>2. QED BY <1>0, <2>1, NothingTypes
<1>5. CASE Mend(c)
  <2>1. pc[c] \in Admitted /\ late' = late /\ torn' = torn /\ landed' = [landed EXCEPT ![c][1] = landed[c][1] - 1]
    BY <1>5 DEF Mend, Admitted
  <2>2. QED BY <2>1 DEF ActTypes
<1>6. QED BY <1>1, <1>2, <1>3, <1>4, <1>5, <1>t DEF Step

LEMMA TornStart == Init => TornOK
BY DEF Init, TornOK

LEMMA TornKept == ActTypes /\ TornOK /\ [Next]_vars => TornOK'
<1> SUFFICES ASSUME ActTypes, TornOK, [Next]_vars PROVE TornOK'
  OBVIOUS
<1>1. \A c \in Call : Index(c)' = Index(c)
  BY DEF Next, vars, Index, Actions
<1>2. CASE UNCHANGED torn
  BY <1>1, <1>2 DEF TornOK
<1>3. ASSUME NEW c \in Call, Step(c), torn' # torn PROVE TornOK'
  <2>1. FrontYields(c) /\ Tears(c)
    BY <1>3 DEF Step, Diverted, Enter, Refuse, Admit, LeaseTimesOut, Batch, Wait, Escalate, BackgroundLands, BackgroundDidnt, BackgroundRefused,
              TargetGone, HelperLost, Quiet, UserStays, Attend, AttendYields, FrontLands, FrontDidnt, FrontYields, Finish, Mend, LookAgain, Look,
              Rebind, RebindFails, Land, Nothing, effects
  <2>2. torn' = [torn EXCEPT ![c] = torn[c] \cup {at[c]}] /\ at[c] \in Index(c)
    BY <2>1 DEF Tears, FrontYields, InFront, ActTypes
  <2>3. QED BY <1>1, <2>2 DEF TornOK
<1>4. ASSUME Environment PROVE UNCHANGED torn
  BY <1>4 DEF Environment, Changes, UserComes, UserRests, TimeUp, ShowsUp, effects
<1>5. UNCHANGED vars => UNCHANGED torn
  BY DEF vars, callVars, effects
<1>6. QED BY <1>2, <1>3, <1>4, <1>5 DEF Next

\* Applications and the user change nothing of that; what was sent shows up.
LEMMA EnvironmentKeeps ==
  ASSUME LeaseInv, Routed, Still, Environment, UNCHANGED setting
  PROVE  /\ LeaseInv' /\ Routed' /\ Still'
         /\ UNCHANGED <<pc, at, mend, verdict, missed>>
         /\ UNCHANGED torn /\ (UNCHANGED <<landed, late>> \/ \E c \in Call : \E i \in Index(c) : ShowsUp(c, i))
<1>0. ActTypes /\ Holds /\ Fenced /\ \A c \in Call : Index(c)' = Index(c) /\ (Batched(c)' <=> Batched(c)) /\ (Chained(c)' <=> Chained(c)) /\ Actions' = Actions
  BY DEF LeaseInv, Index, Actions, Batched, Chained, Headless
<1>1. UNCHANGED <<holder, epoch, base>> /\ UNCHANGED <<pc, at, mend, verdict, torn, missed, attempt>>
  BY DEF Environment, Changes, UserComes, UserRests, TimeUp, ShowsUp, leaseVars, effects
<1>2. UNCHANGED <<landed, late>> \/ \E c \in Call : \E i \in Index(c) : ShowsUp(c, i)
  BY DEF Environment, Changes, UserComes, UserRests, TimeUp, effects
<1>3. DOMAIN landed' = Call /\ (\A d \in Call : landed'[d] \in [Index(d)' -> Nat]) /\ DOMAIN late' = Call /\ \A d \in Call : late'[d] \subseteq Index(d)'
  <2>0. DOMAIN landed = Call /\ (\A d \in Call : landed[d] \in [Index(d) -> Nat]) /\ DOMAIN late = Call /\ \A d \in Call : late[d] \subseteq Index(d)
    BY <1>0 DEF ActTypes
  <2>1. CASE UNCHANGED <<landed, late>>
    BY <1>0, <2>0, <2>1
  <2>2. ASSUME NEW c \in Call, NEW i \in Index(c), ShowsUp(c, i)
        PROVE DOMAIN landed' = Call /\ (\A d \in Call : landed'[d] \in [Index(d)' -> Nat]) /\ DOMAIN late' = Call /\ \A d \in Call : late'[d] \subseteq Index(d)'
    <3> DEFINE f == [landed[c] EXCEPT ![i] = landed[c][i] + 1]
               s == late[c] \ {i}
    <3>1. landed' = [landed EXCEPT ![c] = f] /\ late' = [late EXCEPT ![c] = s]
      BY <2>2 DEF ShowsUp
    <3>2. f \in [Index(c) -> Nat] /\ s \subseteq Index(c)
      BY <2>0
    <3> HIDE DEF f, s
    <3>3. QED BY <1>0, <2>0, <3>1, <3>2
  <2>3. QED BY <1>2, <2>1, <2>2
<1>4. /\ stale' \in [Call -> BOOLEAN] /\ spent' \in [Call -> BOOLEAN] /\ user' \in {"quiet", "active"} /\ front' \in App \cup {Nobody}
      /\ (~setting.changes => stale' = stale) /\ (~setting.user => user' = "quiet" /\ front' = front)
  <2>0. stale \in [Call -> BOOLEAN] /\ spent \in [Call -> BOOLEAN] /\ user \in {"quiet", "active"} /\ front \in App \cup {Nobody}
        /\ (~setting.user => user = "quiet")
    BY <1>0 DEF ActTypes, Still
  <2>1. CASE \E a \in App : Changes(a)
    BY <2>0, <2>1 DEF Changes, world
  <2>2. CASE UserComes \/ UserRests
    BY <2>0, <2>2 DEF UserComes, UserRests
  <2>3. CASE \E c \in Call : TimeUp(c) \/ \E i \in Index(c) : ShowsUp(c, i)
    BY <2>0, <2>3 DEF TimeUp, ShowsUp, world
  <2>4. QED BY <2>1, <2>2, <2>3 DEF Environment
<1>5. ActTypes'
  BY <1>0, <1>1, <1>3, <1>4 DEF ActTypes
<1>6. Holds' /\ Fenced'
  BY <1>0, <1>1 DEF Holds, Holding, Fenced, IsNewest
<1>7. Routed'
  BY <1>0, <1>1 DEF Routed
<1>8. Still'
  BY <1>1, <1>4 DEF Still
<1>9. QED BY <1>1, <1>2, <1>5, <1>6, <1>7, <1>8 DEF LeaseInv

DeliveryInv == LeaseInv /\ Routed /\ Still /\ TornOK

LEMMA DeliveryKept == DeliveryInv /\ [Next]_vars => DeliveryInv'
<1> SUFFICES ASSUME DeliveryInv, [Next]_vars PROVE DeliveryInv'
  OBVIOUS
<1>0. LeaseInv /\ Routed /\ Still /\ ActTypes /\ Holds
  BY DEF DeliveryInv, LeaseInv
<1>t. TornOK'
  BY <1>0, TornKept DEF DeliveryInv
<1>1. ASSUME NEW c \in Call, Step(c), UNCHANGED setting PROVE DeliveryInv'
  <2>1. ActTypes' /\ OthersStay(c) /\ Leases(c) /\ Writes(c)
    BY <1>0, <1>1, StepLeases
  <2>2. QED BY <1>0, <1>1, <1>t, <2>1, LeaseKept, RoutedKept, StillKept DEF DeliveryInv, LeaseInv
<1>2. CASE Environment /\ UNCHANGED setting
  BY <1>0, <1>2, <1>t, EnvironmentKeeps DEF DeliveryInv
<1>3. CASE UNCHANGED vars
  <2>1. /\ UNCHANGED <<setting, holder, epoch, base, pc, at, attempt, stale, spent, mend, verdict, user, front>>
        /\ UNCHANGED <<landed, late, missed>> /\ Actions' = Actions /\ \A c \in Call : Index(c)' = Index(c)
    BY <1>3 DEF vars, callVars, leaseVars, world, effects, Actions, Index
  <2>2. ActTypes'
    <3>1. \A c \in Call : at'[c] \in Index(c)' \/ (Index(c)' = {} /\ pc'[c] = "done")
      BY <1>0, <2>1 DEF ActTypes
    <3>2. /\ DOMAIN landed' = Call /\ \A c \in Call : landed'[c] \in [Index(c)' -> Nat]
          /\ DOMAIN late' = Call /\ \A c \in Call : late'[c] \subseteq Index(c)'
      BY <1>0, <2>1, EffectsKept
    <3>3. /\ holder' \in [App \cup {Attention} -> Call \cup {Nobody}] /\ epoch' \in [App \cup {Attention} -> Nat] /\ base' \in [Call -> Nat]
          /\ setting' \in Settings /\ pc' \in [Call -> Place] /\ attempt' \in [Call -> 1 .. 2] /\ at' \in [Call -> Nat]
      BY <1>0, <2>1 DEF ActTypes
    <3>4. /\ stale' \in [Call -> BOOLEAN] /\ spent' \in [Call -> BOOLEAN] /\ missed' \in [Call -> BOOLEAN]
          /\ mend' \in [Call -> {"no", "running", "over"}] /\ verdict' \in [Call -> {"", "completed", "never", "maybe"}]
          /\ user' \in {"quiet", "active"} /\ front' \in App \cup {Nobody}
      BY <1>0, <2>1 DEF ActTypes
    <3>5. QED BY <3>1, <3>2, <3>3, <3>4 DEF ActTypes
  <2>3. Holds' /\ Fenced'
    BY <1>0, <2>1 DEF LeaseInv, Holds, Holding, Fenced, IsNewest
  <2>4. Routed'
    BY <1>0, <2>1 DEF Routed, Batched, Chained, Headless
  <2>5. Still'
    BY <1>0, <2>1 DEF Still
  <2>6. QED BY <1>t, <2>2, <2>3, <2>4, <2>5 DEF DeliveryInv, LeaseInv
<1>4. QED BY <1>1, <1>2, <1>3 DEF Next

\* A call holds the lease of its application from its admission to its end, and
\* that of the attention in the foreground (withWindowWriteLock,
\* withForegroundAttention).
THEOREM LeasesWhereNeeded == Spec => []TypeOK
<1>1. DeliveryInv => TypeOK
  <2> SUFFICES ASSUME DeliveryInv PROVE TypeOK
    OBVIOUS
  <2>0. ActTypes /\ Holds /\ DOMAIN holder = App \cup {Attention} /\ On \in [Call -> App] /\ \A r \in App : r # Attention
    BY CallAssumption DEF DeliveryInv, LeaseInv, ActTypes
  <2>1. ASSUME NEW c \in Call
        PROVE Held(c) = (IF pc[c] \in {"idle", "observe", "done"} THEN {} ELSE {On[c]}) \cup (IF pc[c] = "front" THEN {Attention} ELSE {})
    <3>1. \A r \in App \cup {Attention} : holder[r] = c <=> Holding(c, r)
      BY <2>0 DEF Holds
    <3>2. Held(c) = {r \in App \cup {Attention} : Holding(c, r)}
      BY <2>0, <3>1 DEF Held
    <3>3. On[c] \in App
      BY <2>0
    <3>4. QED BY <3>2, <3>3 DEF Holding, Out
  <2>2. TornOK
    BY DEF DeliveryInv
  <2>3. QED BY <2>0, <2>1, <2>2 DEF ActTypes, TypeOK, TornOK
<1>2. Init => DeliveryInv
  BY ActStart, TornStart DEF DeliveryInv
<1>3. QED BY <1>1, <1>2, DeliveryKept, PTL DEF Spec

\* No call acts on an application on the strength of an observation that an
\* action of another call has come after (writeGuarded, withWindowWriteLock).
THEOREM ActsOnWhatItSaw == Spec => Isolated
<1>1. ASSUME DeliveryInv, [Next]_vars
      PROVE  [\A c \in Call : (\E i \in Index(c) : Sent(c, i)' > Sent(c, i)) => ~missed[c]]_vars
  <2> SUFFICES ASSUME Next, NEW c \in Call, NEW i \in Index(c), Sent(c, i)' > Sent(c, i) PROVE ~missed[c]
    BY <1>1
  <2>0. LeaseInv /\ Routed /\ Still /\ TornOK /\ ActTypes /\ Fenced /\ UNCHANGED setting
    BY <1>1 DEF DeliveryInv, LeaseInv, Next
  <2>1. landed[c] \in [Index(c) -> Nat] /\ landed[c][i] \in Nat /\ DOMAIN landed = Call /\ DOMAIN late = Call
    BY <2>0 DEF ActTypes
  <2>2. ~UNCHANGED <<landed, late, torn>>
    <3>1. Sent(c, i) \in Nat
      BY <2>1 DEF Sent
    <3>2. UNCHANGED <<landed, late, torn>> => Sent(c, i)' = Sent(c, i)
      BY DEF Sent
    <3>3. QED BY <3>1, <3>2
  <2>3. CASE \E d \in Call : Step(d)
    <3>1. PICK d \in Call : Step(d)
      BY <2>3
    <3>2. pc[d] \in Admitted /\ \A e \in Call \ {d} : landed'[e] = landed[e] /\ late'[e] = late[e] /\ torn'[e] = torn[e]
      BY <2>0, <2>2, <3>1, StepEffects
    <3>3. CASE d = c
      <4>1. IsNewest(c) /\ (missed[c] => base[c] < epoch[On[c]])
        BY <2>0, <3>2, <3>3 DEF Fenced
      <4>2. base[c] \in Nat
        BY <2>0 DEF ActTypes
      <4>3. QED BY <4>1, <4>2 DEF IsNewest
    <3>4. CASE d # c
      <4>1. Sent(c, i)' = Sent(c, i) /\ Sent(c, i) \in Nat
        BY <2>1, <3>2, <3>4 DEF Sent
      <4>2. QED BY <4>1
    <3>5. QED BY <3>3, <3>4
  <2>4. CASE Environment
    <3>t. UNCHANGED torn
      BY <2>0, <2>4, EnvironmentKeeps
    <3>a. PICK d \in Call : \E j \in Index(d) : ShowsUp(d, j)
      BY <2>0, <2>2, <2>4, <3>t, EnvironmentKeeps
    <3>1. PICK j \in Index(d) : ShowsUp(d, j)
      BY <3>a
    <3>2. j \in late[d] /\ late' = [late EXCEPT ![d] = late[d] \ {j}] /\ landed' = [landed EXCEPT ![d] = [landed[d] EXCEPT ![j] = landed[d][j] + 1]]
      BY <3>1 DEF ShowsUp
    <3>3. CASE d = c /\ j = i
      <4>1. landed'[c][i] = landed[c][i] + 1 /\ i \notin late'[c] /\ i \in late[c]
        BY <2>1, <3>2, <3>3
      <4>2. Sent(c, i)' = Sent(c, i) /\ Sent(c, i) \in Nat
        BY <2>1, <3>t, <4>1 DEF Sent
      <4>3. QED BY <4>2
    <3>4. CASE ~(d = c /\ j = i)
      <4>1. landed'[c][i] = landed[c][i] /\ (i \in late'[c] <=> i \in late[c])
        BY <2>1, <3>2, <3>4
      <4>2. Sent(c, i)' = Sent(c, i) /\ Sent(c, i) \in Nat
        BY <2>1, <3>t, <4>1 DEF Sent
      <4>3. QED BY <4>2
    <3>5. QED BY <3>3, <3>4
  <2>5. QED BY <2>3, <2>4 DEF Next
<1>2. Init => DeliveryInv
  BY ActStart, TornStart DEF DeliveryInv
<1>3. QED BY <1>1, <1>2, DeliveryKept, PTL DEF Spec, Isolated

--------------------------------------------------------------------------------
(* Delivery in one piece.                                                    *)

\* Nothing of a call is under way or has taken effect; nothing from its current
\* action on; no action more than once, what is under way included.
Untouched(c) == late[c] = {} /\ \A i \in Index(c) : landed[c][i] = 0
Ahead(c) == late[c] = {} /\ \A i \in Index(c) : i >= at[c] => landed[c][i] = 0
OnceAll(c) == \A i \in Index(c) : landed[c][i] \in {0, 1} /\ (i \in late[c] => landed[c][i] = 0)

\* A transaction that is delivered as one leaves nothing whole behind when it
\* goes back.  What is cut off between two events is kept apart (torn).
Piece(c) ==
  /\ verdict[c] # "" => pc[c] = "done"
  /\ Undivided(c) =>
       /\ pc[c] \notin {"front", "verify", "done"} => Untouched(c)
       /\ pc[c] = "front" => Ahead(c)
       /\ OnceAll(c)
       /\ Len(Actions[c]) = 1 => late[c] = {}
       /\ verdict[c] = "never" => Untouched(c)

LEMMA PieceStarts == ASSUME Init, NEW c \in Call PROVE Piece(c)
<1>1. /\ verdict[c] = "" /\ late[c] = {} /\ pc[c] \in {"idle", "done"} /\ \A i \in Index(c) : landed[c][i] = 0
  BY DEF Init
<1>2. Untouched(c)
  BY <1>1 DEF Untouched
<1>a. OnceAll(c)
  <2> SUFFICES ASSUME NEW i \in Index(c) PROVE landed[c][i] \in {0, 1} /\ (i \in late[c] => landed[c][i] = 0)
    BY DEF OnceAll
  <2>1. landed[c][i] = 0
    BY <1>1
  <2>2. QED BY <2>1
<1>3. QED BY <1>1, <1>2, <1>a DEF Piece

\* A plan is the same after the step.
LEMMA WholeSame ==
  ASSUME UNCHANGED setting, NEW c \in Call
  PROVE  /\ Index(c)' = Index(c) /\ Actions' = Actions /\ (Undivided(c)' <=> Undivided(c))
         /\ (Chained(c)' <=> Chained(c)) /\ (Batched(c)' <=> Batched(c))
BY DEF Undivided, Chained, Batched, Headless, Index, Actions

LEMMA PieceClean ==
  ASSUME ActTypes, UNCHANGED setting, NEW c \in Call, Undivided(c) => Untouched(c), landed'[c] = landed[c], late'[c] = late[c],
         verdict'[c] # "" => pc'[c] = "done"
  PROVE  Piece(c)'
<1>1. Index(c)' = Index(c) /\ (Undivided(c)' <=> Undivided(c))
  BY WholeSame
<1>2. ASSUME Undivided(c) PROVE Untouched(c)' /\ Ahead(c)' /\ OnceAll(c)'
  <2>1. late'[c] = {} /\ \A i \in Index(c)' : landed'[c][i] = 0
    BY <1>1, <1>2 DEF Untouched
  <2>2. Untouched(c)' /\ Ahead(c)'
    BY <2>1 DEF Untouched, Ahead
  <2>3. OnceAll(c)'
    <3> SUFFICES ASSUME NEW i \in Index(c)' PROVE landed'[c][i] \in {0, 1} /\ (i \in late'[c] => landed'[c][i] = 0)
      BY DEF OnceAll
    <3>1. landed'[c][i] = 0
      BY <2>1
    <3>2. QED BY <3>1
  <2>4. QED BY <2>2, <2>3
<1>3. QED BY <1>1, <1>2 DEF Piece, Untouched

\* A single action is where its call is, and no late text.
LEMMA SingleWhole ==
  ASSUME ActTypes, NEW c \in Call, Undivided(c), Len(Actions[c]) = 1
  PROVE  /\ Index(c) = {1} /\ at[c] = 1 /\ ~Chained(c) /\ Actions[c][1] # "type"
         /\ ~(setting.late /\ Is(c, {"text", "type"}))
<1>1. Actions[c] \in Seq(Kind) /\ Index(c) = {1} /\ at[c] = 1 /\ Actions[c][1] # "type"
  BY CallActions
<1>2. ~Chained(c)
  BY <1>1 DEF Chained
<1>3. Actions[c] = <<Actions[c][1]>>
  BY <1>1
<1>4. ~(setting.late /\ Is(c, {"text", "type"}))
  BY <1>1, <1>3 DEF Is, Undivided
<1>5. QED BY <1>1, <1>2, <1>4

\* Where the way of delivery leads: alone outside the foreground, alone or
\* undisturbed in it.
LEMMA WaysWhole ==
  ASSUME ActTypes, Routed, Still, NEW c \in Call, Undivided(c)
  PROVE  /\ pc[c] = "deliver" => Len(Actions[c]) = 1
         /\ pc[c] \in {"quiet", "attend"} => ~Batched(c)
         /\ pc[c] = "front" => Len(Actions[c]) = 1 \/ (Chained(c) /\ ~stale[c] /\ Clear(c))
BY DEF Routed, Still, Undivided, Clear

\* The steps that send nothing, before the foreground.
LEMMA QuietSteps ==
  ASSUME NEW c \in Call, ActTypes, Piece(c), UNCHANGED setting, UNCHANGED <<landed, late>>,
         pc[c] \notin {"front", "verify", "done"},
         verdict'[c] = verdict[c] \/ pc'[c] = "done"
  PROVE  Piece(c)'
<1>1. verdict'[c] # "" => pc'[c] = "done"
  BY DEF Piece
<1>2. ASSUME Undivided(c) PROVE Untouched(c)
  BY <1>2 DEF Piece
<1>3. QED BY <1>1, <1>2, PieceClean

LEMMA LandCount ==
  ASSUME ActTypes, UNCHANGED setting, NEW c \in Call, NEW I, Land(c, I), NEW i \in Index(c)
  PROVE  /\ i \notin I => landed'[c][i] = landed[c][i]
         /\ i \in I /\ landed[c][i] = 0 => landed'[c][i] = 1
<1>1. landed'[c][i] = landed[c][i] + IF i \in I THEN 1 ELSE 0
  BY LandTypes
<1>2. landed[c][i] \in Nat
  BY DEF ActTypes
<1>3. ASSUME i \notin I PROVE landed'[c][i] = landed[c][i]
  <2>1. landed'[c][i] = landed[c][i] + 0
    BY <1>1, <1>3
  <2>2. QED BY <1>2, <2>1
<1>4. ASSUME i \in I, landed[c][i] = 0 PROVE landed'[c][i] = 1
  <2>1. landed'[c][i] = landed[c][i] + 1
    BY <1>1, <1>4
  <2>2. QED BY <1>4, <2>1
<1>5. QED BY <1>3, <1>4

\* The steps that send, and those that fail in the foreground: where a
\* transaction in one piece goes from there.
LEMMA SendingSteps ==
  ASSUME NEW c \in Call, ActTypes, Piece(c), UNCHANGED setting, NEW I, Land(c, I), UNCHANGED late,
         verdict[c] = "", verdict'[c] = "" \/ (pc'[c] = "done" /\ verdict'[c] = "maybe"),
         Undivided(c) =>
           /\ late[c] = {} /\ \A i \in Index(c) \cap I : landed[c][i] = 0
           /\ pc'[c] \in {"verify", "done"} \/ (pc'[c] = "front" /\ Len(Actions[c]) # 1 /\ \A i \in Index(c) : i >= at'[c] => i \notin I /\ landed[c][i] = 0)
  PROVE  Piece(c)'
<1>1. /\ Index(c)' = Index(c) /\ Actions' = Actions /\ (Undivided(c)' <=> Undivided(c))
      /\ landed[c] \in [Index(c) -> Nat] /\ late' = late
  BY WholeSame DEF ActTypes
<1>2. ASSUME Undivided(c)
      PROVE  /\ pc'[c] \in {"verify", "done"} \/ (pc'[c] = "front" /\ Ahead(c)')
             /\ OnceAll(c)' /\ late'[c] = {}
  <2>1. late'[c] = {} /\ \A i \in Index(c) : landed[c][i] \in {0, 1}
    BY <1>1, <1>2 DEF Piece, OnceAll
  <2>2. OnceAll(c)'
    <3> SUFFICES ASSUME NEW i \in Index(c) PROVE landed'[c][i] \in {0, 1} /\ (i \in late'[c] => landed'[c][i] = 0)
      BY <1>1 DEF OnceAll
    <3>1. CASE i \in I
      <4>1. landed[c][i] = 0
        BY <1>2, <3>1
      <4>2. QED BY <2>1, <3>1, <4>1, LandCount
    <3>2. CASE i \notin I
      <4>1. landed'[c][i] = landed[c][i]
        BY <3>2, LandCount
      <4>2. QED BY <2>1, <4>1
    <3>3. QED BY <3>1, <3>2
  <2>3. ASSUME pc'[c] \notin {"verify", "done"} PROVE pc'[c] = "front" /\ Ahead(c)'
    <3>1. pc'[c] = "front" /\ \A i \in Index(c) : i >= at'[c] => i \notin I /\ landed[c][i] = 0
      BY <1>2, <2>3
    <3>2. ASSUME NEW i \in Index(c), i >= at'[c] PROVE landed'[c][i] = 0
      <4>1. i \notin I /\ landed[c][i] = 0
        BY <3>1, <3>2
      <4>2. QED BY <4>1, LandCount
    <3>3. QED BY <1>1, <2>1, <3>1, <3>2 DEF Ahead
  <2>4. QED BY <2>1, <2>2, <2>3
<1>3. verdict'[c] # "never" /\ (verdict'[c] # "" => pc'[c] = "done")
  OBVIOUS
<1>4. QED BY <1>1, <1>2, <1>3 DEF Piece

\* A single action in front has sent nothing either.
LEMMA FrontSingle ==
  ASSUME NEW c \in Call, ActTypes, Piece(c), Undivided(c), pc[c] = "front", Len(Actions[c]) = 1
  PROVE  Untouched(c)
<1>1. late[c] = {} /\ \A i \in Index(c) : i >= at[c] => landed[c][i] = 0
  BY DEF Piece, Ahead
<1>2. Index(c) = {1} /\ at[c] = 1
  BY SingleWhole
<1>3. landed[c][1] = 0
  BY <1>1, <1>2
<1>4. QED BY <1>1, <1>2, <1>3 DEF Untouched

LEMMA PieceBack ==
  ASSUME NEW c \in Call, ActTypes, Piece(c), Routed, Still, UNCHANGED setting,
         Diverted(c) \/ Enter(c) \/ Refuse(c) \/ Admit(c) \/ LeaseTimesOut(c) \/ Escalate(c) \/ TargetGone(c)
           \/ Quiet(c) \/ UserStays(c) \/ Attend(c) \/ AttendYields(c) \/ FrontYields(c)
           \/ LookAgain(c) \/ Look(c) \/ Rebind(c) \/ RebindFails(c)
  PROVE  Piece(c)'
<1>0. ASSUME Throw(c, TRUE, "never") \/ Throw(c, FALSE, "never") PROVE verdict'[c] = verdict[c] \/ pc'[c] = "done"
  BY <1>0, ThrowTypes
<1>1. UNCHANGED <<landed, late>>
  BY DEF Diverted, Enter, Refuse, Admit, LeaseTimesOut, Escalate, TargetGone, Quiet, UserStays, Attend, AttendYields,
         FrontYields, LookAgain, Look, Rebind, RebindFails, Tears, effects
<1>2. verdict'[c] = verdict[c] \/ pc'[c] = "done"
  <2>1. CASE Diverted(c) \/ Enter(c) \/ Refuse(c) \/ Admit(c) \/ LeaseTimesOut(c) \/ Escalate(c) \/ TargetGone(c)
    BY <1>0, <2>1 DEF Diverted, Enter, Refuse, Admit, LeaseTimesOut, Escalate, TargetGone, Calm
  <2>2. CASE Quiet(c) \/ UserStays(c) \/ Attend(c) \/ AttendYields(c) \/ FrontYields(c)
    BY <1>0, <2>2 DEF Quiet, UserStays, Attend, AttendYields, FrontYields, Calm
  <2>3. CASE LookAgain(c) \/ Look(c) \/ Rebind(c) \/ RebindFails(c)
    BY <1>0, <2>3 DEF LookAgain, Look, Rebind, RebindFails, Calm
  <2>4. QED BY <2>1, <2>2, <2>3
<1>3. CASE pc[c] # "front"
  <2>1. pc[c] \notin {"front", "verify", "done"}
    BY <1>3 DEF Diverted, Enter, Refuse, Admit, LeaseTimesOut, Escalate, TargetGone, Quiet, UserStays, Attend, AttendYields,
         FrontYields, LookAgain, Look, Rebind, RebindFails, InBackground, Delivering, InFront
  <2>2. QED BY <1>1, <1>2, <2>1, QuietSteps
<1>4. CASE pc[c] = "front"
  <2>1. stale[c] \/ ~Clear(c)
    BY <1>4 DEF Diverted, Enter, Refuse, Admit, LeaseTimesOut, Escalate, TargetGone, Quiet, UserStays, Attend, AttendYields,
         FrontYields, LookAgain, Look, Rebind, RebindFails, InBackground
  <2>2. ASSUME Undivided(c) PROVE Untouched(c)
    <3>1. Len(Actions[c]) = 1
      BY <1>4, <2>1, <2>2, WaysWhole
    <3>2. QED BY <1>4, <2>2, <3>1, FrontSingle
  <2>3. verdict'[c] # "" => pc'[c] = "done"
    BY <1>2, <1>4 DEF Piece
  <2>4. QED BY <1>1, <2>2, <2>3, PieceClean
<1>5. QED BY <1>3, <1>4

\* Waiting sends nothing; a chain goes on from the next action.
LEMMA PieceWaits ==
  ASSUME NEW c \in Call, ActTypes, Piece(c), UNCHANGED setting, Wait(c)
  PROVE  Piece(c)'
<1>0. UNCHANGED <<landed, late, verdict>> /\ pc[c] \in {"deliver", "front"} /\ at[c] \in Index(c)
  BY DEF Wait, Calm, effects, ActTypes
<1>1. CASE pc[c] = "deliver"
  BY <1>0, <1>1, QuietSteps
<1>2. CASE pc[c] = "front"
  <2>1. Advance(c, "front") /\ "front" \in Place
    BY <1>2 DEF Wait, Place
  <2>2. /\ pc'[c] \in {"front", "verify"} /\ at'[c] \in {at[c], at[c] + 1} /\ at[c] \in Nat
    BY <1>0, <2>1, AdvanceTypes DEF ActTypes
  <2>3. Index(c)' = Index(c) /\ Actions' = Actions /\ (Undivided(c)' <=> Undivided(c)) /\ Index(c) = 1 .. Len(Actions[c]) /\ Len(Actions[c]) \in Nat
    BY WholeSame, CallActions
  <2>4. verdict[c] = ""
    BY <1>2 DEF Piece
  <2>5. ASSUME Undivided(c) PROVE Ahead(c)' /\ OnceAll(c)' /\ late'[c] = {}
    <3>1. late[c] = {} /\ OnceAll(c) /\ \A i \in Index(c) : i >= at[c] => landed[c][i] = 0
      BY <1>2, <2>5 DEF Piece, Ahead
    <3>2. ASSUME NEW i \in Index(c), i >= at'[c] PROVE landed'[c][i] = 0
      <4>1. i >= at[c]
        BY <2>2, <2>3, <3>2
      <4>2. QED BY <1>0, <3>1, <4>1
    <3>3. Ahead(c)'
      BY <1>0, <2>3, <3>1, <3>2 DEF Ahead
    <3>4. OnceAll(c)'
      BY <1>0, <2>3, <3>1 DEF OnceAll
    <3>5. QED BY <1>0, <3>1, <3>3, <3>4
  <2>6. QED BY <1>0, <2>2, <2>3, <2>4, <2>5 DEF Piece
<1>3. QED BY <1>0, <1>1, <1>2

\* The deliveries that may have worked, or whose outcome nobody knows.
LEMMA PieceLands ==
  ASSUME NEW c \in Call, ActTypes, Piece(c), Routed, Still, UNCHANGED setting,
         Batch(c) \/ BackgroundLands(c) \/ HelperLost(c) \/ FrontLands(c)
  PROVE  Piece(c)'
<1>0. /\ UNCHANGED late /\ pc[c] \in {"batch", "deliver", "front"} /\ pc \in [Call -> Place] /\ at \in [Call -> Nat]
      /\ Index(c) = 1 .. Len(Actions[c]) /\ Len(Actions[c]) \in Nat /\ at[c] \in Index(c)
  BY CallActions DEF Batch, BackgroundLands, HelperLost, FrontLands, InBackground, InFront, Delivering, ActTypes
<1>1. verdict[c] = ""
  BY <1>0 DEF Piece
<1>2. ASSUME Undivided(c)
      PROVE  /\ late[c] = {} /\ \A i \in Index(c) : i >= at[c] => landed[c][i] = 0
             /\ pc[c] # "front" => \A i \in Index(c) : landed[c][i] = 0
  BY <1>0, <1>2 DEF Piece, Ahead, Untouched
<1>3. CASE Batch(c)
  <2>1. PICK k \in 0 .. Len(Actions[c]) : Land(c, 1 .. k)
    BY <1>3 DEF Batch
  <2>2. pc[c] = "batch" /\ pc'[c] = "verify" /\ verdict'[c] = ""
    BY <1>0, <1>1, <1>3 DEF Batch, Goto, Calm
  <2>3. QED BY <1>0, <1>1, <1>2, <2>1, <2>2, SendingSteps
<1>4. CASE BackgroundLands(c)
  <2>1. Land(c, {at[c]}) /\ Advance(c, "deliver") /\ pc[c] = "deliver" /\ verdict'[c] = "" /\ "deliver" \in Place
    BY <1>1, <1>4 DEF BackgroundLands, InBackground, Calm, Place
  <2>2. ASSUME Undivided(c) PROVE pc'[c] = "verify"
    <3>1. Len(Actions[c]) = 1 /\ at[c] = 1
      BY <2>1, <2>2, WaysWhole, SingleWhole
    <3>2. \/ at[c] < Len(Actions[c]) /\ at'[c] = at[c] + 1 /\ pc'[c] = "deliver"
          \/ at[c] = Len(Actions[c]) /\ at'[c] = at[c] /\ pc'[c] = "verify"
      BY <1>0, <2>1, AdvanceTypes
    <3>3. QED BY <3>1, <3>2
  <2>3. QED BY <1>0, <1>1, <1>2, <2>1, <2>2, SendingSteps
<1>5. CASE HelperLost(c)
  <2>1. PICK I : Land(c, I) /\ (pc[c] # "batch" => I \in {{}, {at[c]}})
    BY <1>5 DEF HelperLost
  <2>2. Throw(c, FALSE, "maybe")
    BY <1>5 DEF HelperLost
  <2>3. pc'[c] \in {"verify", "done"} /\ (verdict'[c] = "" \/ (pc'[c] = "done" /\ verdict'[c] = "maybe"))
    BY <1>1, <2>2, ThrowTypes
  <2>4. ASSUME Undivided(c) PROVE late[c] = {} /\ \A i \in Index(c) \cap I : landed[c][i] = 0
    <3>1. CASE pc[c] = "front"
      <4>1. I \in {{}, {at[c]}} /\ landed[c][at[c]] = 0
        <5>1. at[c] >= at[c]
          BY <1>0
        <5>2. QED BY <1>0, <1>2, <2>1, <2>4, <3>1, <5>1
      <4>2. QED BY <1>2, <2>4, <4>1
    <3>2. CASE pc[c] # "front"
      BY <1>2, <2>4, <3>2
    <3>3. QED BY <3>1, <3>2
  <2>5. Land(c, I)
    BY <2>1
  <2>6. QED BY <1>0, <1>1, <2>3, <2>4, <2>5, SendingSteps
<1>6. CASE FrontLands(c)
  <2>1. pc[c] = "front" /\ Land(c, {at[c]}) /\ AfterFront(c) /\ verdict'[c] = ""
    BY <1>1, <1>6 DEF FrontLands, InFront, AfterFront
  <2>2. ASSUME Undivided(c) PROVE late[c] = {} /\ \A i \in Index(c) \cap {at[c]} : landed[c][i] = 0
    <3>1. at[c] >= at[c]
      BY <1>0
    <3>2. QED BY <1>0, <1>2, <2>2, <3>1
  <2>3. CASE mend[c] = "running"
    <3>1. pc'[c] = "verify"
      BY <1>0, <2>1, <2>3 DEF AfterFront, Goto
    <3>2. QED BY <1>0, <1>1, <2>1, <2>2, <3>1, SendingSteps
  <2>4. CASE mend[c] # "running"
    <3>1. Advance(c, IF Chained(c) THEN "front" ELSE "deliver") /\ {"front", "deliver", "verify"} \subseteq Place
      BY <2>1, <2>4 DEF AfterFront, Place
    <3>2. \/ at[c] < Len(Actions[c]) /\ at'[c] = at[c] + 1 /\ pc'[c] = IF Chained(c) THEN "front" ELSE "deliver"
          \/ at[c] = Len(Actions[c]) /\ at'[c] = at[c] /\ pc'[c] = "verify"
      BY <1>0, <3>1, AdvanceTypes
    <3>3. CASE pc'[c] = "verify"
      BY <1>0, <1>1, <2>1, <2>2, <3>3, SendingSteps
    <3>4. CASE at[c] < Len(Actions[c]) /\ at'[c] = at[c] + 1 /\ pc'[c] = IF Chained(c) THEN "front" ELSE "deliver"
      <4>1. ASSUME Undivided(c)
            PROVE  pc'[c] = "front" /\ Len(Actions[c]) # 1 /\ \A i \in Index(c) : i >= at'[c] => i \notin {at[c]} /\ landed[c][i] = 0
        <5>1. Len(Actions[c]) # 1
          <6> SUFFICES ASSUME Len(Actions[c]) = 1 PROVE FALSE
            OBVIOUS
          <6>1. at[c] = 1
            BY CallActions
          <6>2. QED BY <3>4, <6>1
        <5>2. Chained(c)
          BY <2>1, <4>1, <5>1, WaysWhole
        <5>3. ASSUME NEW i \in Index(c), i >= at'[c] PROVE i \notin {at[c]} /\ landed[c][i] = 0
          <6>1. at'[c] = at[c] + 1 /\ at[c] \in Nat /\ i \in Nat
            <7>1. at[c] \in Nat /\ at'[c] = at[c] + 1
              BY <1>0, <3>4
            <7>2. i \in 1 .. Len(Actions[c])
              BY <1>0, <5>3
            <7>3. i \in Nat
              BY <1>0, <7>2
            <7>4. QED BY <7>1, <7>3
          <6>2. i >= at[c] /\ i # at[c]
            BY <5>3, <6>1
          <6>3. QED BY <1>2, <4>1, <6>2
        <5>4. QED BY <3>4, <5>1, <5>2, <5>3
      <4>2. QED BY <1>0, <1>1, <2>1, <2>2, <4>1, SendingSteps
    <3>5. QED BY <3>2, <3>3, <3>4
  <2>5. QED BY <2>3, <2>4
<1>7. QED BY <1>3, <1>4, <1>5, <1>6

\* What did not work may be under way all the same, unless nothing follows.
LEMMA PieceDidnt ==
  ASSUME NEW c \in Call, ActTypes, Piece(c), Routed, Still, UNCHANGED setting, BackgroundDidnt(c) \/ FrontDidnt(c)
  PROVE  Piece(c)'
<1>0. /\ Nothing(c) /\ pc[c] \in {"deliver", "front"} /\ pc'[c] \in {"quiet", "verify"} /\ (pc[c] = "front" => pc'[c] = "verify")
      /\ UNCHANGED verdict /\ pc \in [Call -> Place] /\ at[c] \in Index(c) /\ at \in [Call -> Nat]
  BY DEF BackgroundDidnt, FrontDidnt, InBackground, InFront, Calm, Goto, ActTypes
<1>1. verdict'[c] = "" /\ landed'[c] = landed[c]
  BY <1>0 DEF Piece, Nothing
<1>2. ASSUME Undivided(c), Len(Actions[c]) = 1 PROVE Untouched(c) /\ late'[c] = late[c]
  <2>1. late'[c] = late[c]
    BY <1>0, <1>2, NothingTypes, SingleWhole
  <2>2. Untouched(c)
    BY <1>0, <1>2, FrontSingle DEF Piece
  <2>3. QED BY <2>1, <2>2
<1>3. CASE Undivided(c) /\ Len(Actions[c]) # 1
  <2>1. pc[c] = "front" /\ pc'[c] = "verify"
    BY <1>0, <1>3, WaysWhole
  <2>2. late[c] = {} /\ landed[c][at[c]] = 0 /\ OnceAll(c)
    <3>1. at[c] >= at[c]
      BY <1>0
    <3>2. QED BY <1>0, <1>3, <2>1, <3>1 DEF Piece, Ahead
  <2>3. late'[c] \subseteq {at[c]}
    BY <1>0, <2>2, NothingTypes
  <2>4. Index(c)' = Index(c) /\ Actions' = Actions
    BY WholeSame
  <2>5. OnceAll(c)'
    BY <1>1, <2>2, <2>3, <2>4 DEF OnceAll
  <2>6. QED BY <1>1, <1>3, <2>1, <2>4, <2>5 DEF Piece
<1>4. CASE Undivided(c) /\ Len(Actions[c]) = 1
  BY <1>1, <1>2, <1>4, PieceClean
<1>5. CASE ~Undivided(c)
  <2>1. ~Undivided(c)'
    BY <1>5, WholeSame
  <2>2. QED BY <1>1, <2>1 DEF Piece
<1>6. QED BY <1>3, <1>4, <1>5

\* foreground_required leaves nothing under way either.
LEMMA PieceRefused ==
  ASSUME NEW c \in Call, ActTypes, Piece(c), Routed, Still, UNCHANGED setting, BackgroundRefused(c)
  PROVE  Piece(c)'
<1>0. Nothing(c) /\ pc[c] = "deliver" /\ at[c] \in Index(c)
  BY DEF BackgroundRefused, InBackground, ActTypes
<1>1. verdict[c] = "" /\ landed'[c] = landed[c]
  BY <1>0 DEF Piece, Nothing
<1>2. verdict'[c] # "" => pc'[c] = "done"
  <2>1. CASE Throw(c, FALSE, "never")
    BY <1>1, <2>1, ThrowTypes
  <2>2. CASE Calm(c)
    BY <1>1, <2>2 DEF Calm
  <2>3. QED BY <2>1, <2>2 DEF BackgroundRefused
<1>3. CASE Undivided(c)
  <2>1. Len(Actions[c]) = 1
    BY <1>0, <1>3, WaysWhole
  <2>2. late'[c] = late[c]
    BY <1>0, <1>3, <2>1, NothingTypes, SingleWhole
  <2>3. Untouched(c)
    BY <1>0, <1>3 DEF Piece
  <2>4. QED BY <1>1, <1>2, <2>2, <2>3, PieceClean
<1>4. CASE ~Undivided(c)
  <2>1. ~Undivided(c)'
    BY <1>4, WholeSame
  <2>2. QED BY <1>2, <2>1 DEF Piece
<1>5. QED BY <1>3, <1>4

\* The old value comes back, and the text is out again.
LEMMA PieceMends ==
  ASSUME NEW c \in Call, ActTypes, Piece(c), UNCHANGED setting, Mend(c)
  PROVE  Piece(c)'
<1>0. /\ pc[c] = "verify" /\ Actions[c] = <<"text">> /\ landed[c][1] > 0 /\ UNCHANGED <<late, verdict>> /\ pc'[c] = "quiet"
      /\ landed' = [landed EXCEPT ![c][1] = landed[c][1] - 1] /\ pc \in [Call -> Place]
  BY DEF Mend, Goto, ActTypes
<1>1. Len(Actions[c]) = 1 /\ Index(c) = {1} /\ Index(c)' = Index(c) /\ Actions' = Actions /\ (Undivided(c)' <=> Undivided(c)) /\ verdict'[c] = ""
  BY <1>0, SingleText, CallActions, WholeSame DEF Piece
<1>2. ASSUME Undivided(c) PROVE Untouched(c)' /\ OnceAll(c)' /\ late'[c] = {}
  <2>1. landed[c][1] \in {0, 1} /\ late[c] = {}
    BY <1>1, <1>2 DEF Piece, OnceAll
  <2>2. landed[c][1] = 1
    BY <1>0, <2>1
  <2>3. DOMAIN landed = Call /\ landed[c] \in [{1} -> Nat]
    BY <1>1 DEF ActTypes
  <2>4. landed'[c][1] = 0
    BY <1>0, <2>2, <2>3
  <2>5. QED BY <1>0, <1>1, <2>1, <2>4 DEF Untouched, OnceAll
<1>3. QED BY <1>0, <1>1, <1>2 DEF Piece

LEMMA PieceFinishes ==
  ASSUME NEW c \in Call, ActTypes, Piece(c), UNCHANGED setting, Finish(c)
  PROVE  Piece(c)'
<1>0. /\ UNCHANGED <<landed, late>> /\ pc'[c] = "done" /\ verdict'[c] = "completed"
  BY DEF Finish, Goto, effects, ActTypes
<1>1. Index(c)' = Index(c) /\ Actions' = Actions
  BY WholeSame
<1>2. CASE Undivided(c)
  <2>1. OnceAll(c)' /\ (Len(Actions[c]) = 1 => late'[c] = {})
    BY <1>0, <1>1, <1>2 DEF Piece, OnceAll
  <2>2. QED BY <1>0, <1>1, <2>1 DEF Piece
<1>3. CASE ~Undivided(c)
  <2>1. ~Undivided(c)'
    BY <1>3, WholeSame
  <2>2. QED BY <1>0, <2>1 DEF Piece
<1>4. QED BY <1>2, <1>3

LEMMA PieceStep ==
  ASSUME NEW c \in Call, ActTypes, Piece(c), Routed, Still, UNCHANGED setting, Step(c)
  PROVE  Piece(c)'
BY PieceBack, PieceWaits, PieceLands, PieceDidnt, PieceRefused, PieceMends, PieceFinishes DEF Step

\* Other calls, the user and the applications leave it alone.
LEMMA PieceStays ==
  ASSUME NEW c \in Call, Piece(c), UNCHANGED setting, pc'[c] = pc[c], at'[c] = at[c], verdict'[c] = verdict[c],
         landed'[c] = landed[c], late'[c] = late[c]
  PROVE  Piece(c)'
<1>1. Index(c)' = Index(c) /\ Actions' = Actions /\ (Undivided(c)' <=> Undivided(c))
  BY WholeSame
<1>2. (Untouched(c) => Untouched(c)') /\ (Ahead(c) => Ahead(c)') /\ (OnceAll(c) => OnceAll(c)')
  BY <1>1 DEF Untouched, Ahead, OnceAll
<1>3. CASE Undivided(c)
  BY <1>1, <1>2, <1>3 DEF Piece
<1>4. CASE ~Undivided(c)
  <2>1. ~Undivided(c)'
    BY <1>1, <1>4
  <2>2. QED BY <2>1 DEF Piece
<1>5. QED BY <1>3, <1>4

\* What was under way shows up: after the delivery, and only once.
LEMMA PieceShows ==
  ASSUME NEW c \in Call, ActTypes, Piece(c), UNCHANGED setting, NEW i \in Index(c), ShowsUp(c, i)
  PROVE  Piece(c)'
<1>0. /\ i \in late[c] /\ UNCHANGED <<pc, at, verdict>> /\ DOMAIN landed = Call /\ DOMAIN late = Call /\ landed[c] \in [Index(c) -> Nat]
      /\ late' = [late EXCEPT ![c] = late[c] \ {i}] /\ landed' = [landed EXCEPT ![c][i] = landed[c][i] + 1]
  BY DEF ShowsUp, ActTypes
<1>1. /\ late'[c] = late[c] \ {i} /\ landed'[c][i] = landed[c][i] + 1 /\ \A j \in Index(c) \ {i} : landed'[c][j] = landed[c][j]
  BY <1>0
<1>2. Index(c)' = Index(c) /\ Actions' = Actions /\ (Undivided(c)' <=> Undivided(c))
  BY WholeSame
<1>3. CASE Undivided(c)
  <2>0. ~Untouched(c) /\ ~Ahead(c)
    BY <1>0 DEF Untouched, Ahead
  <2>1. pc[c] \in {"verify", "done"} /\ Len(Actions[c]) # 1 /\ verdict[c] # "never" /\ OnceAll(c)
    BY <1>0, <1>3, <2>0 DEF Piece
  <2>2. landed[c][i] = 0
    BY <1>0, <2>1 DEF OnceAll
  <2>3. landed'[c][i] = 1 /\ i \notin late'[c]
    BY <1>1, <2>2
  <2>4. OnceAll(c)'
    BY <1>1, <1>2, <2>1, <2>3 DEF OnceAll
  <2>5. QED BY <1>0, <1>2, <2>1, <2>4 DEF Piece
<1>4. CASE ~Undivided(c)
  <2>1. ~Undivided(c)'
    BY <1>2, <1>4
  <2>2. QED BY <1>0, <2>1 DEF Piece
<1>5. QED BY <1>3, <1>4

Pieces == \A c \in Call : Piece(c)

LEMMA PiecesKept == DeliveryInv /\ Pieces /\ [Next]_vars => Pieces'
<1> SUFFICES ASSUME DeliveryInv, Pieces, [Next]_vars, NEW c \in Call PROVE Piece(c)'
  BY DEF Pieces
<1>0. LeaseInv /\ ActTypes /\ Holds /\ Routed /\ Still /\ TornOK /\ Piece(c) /\ DOMAIN landed = Call /\ DOMAIN late = Call
  BY DEF DeliveryInv, LeaseInv, Pieces, ActTypes
<1>1. ASSUME NEW d \in Call, Step(d), UNCHANGED setting PROVE Piece(c)'
  <2>1. CASE d = c
    BY <1>0, <1>1, <2>1, PieceStep
  <2>2. CASE d # c
    <3>1. OthersStay(d)
      BY <1>0, <1>1, StepLeases
    <3>2. pc'[c] = pc[c] /\ at'[c] = at[c] /\ verdict'[c] = verdict[c]
      BY <2>2, <3>1 DEF OthersStay
    <3>3. landed'[c] = landed[c] /\ late'[c] = late[c]
      BY <1>0, <1>1, <2>2, StepEffects
    <3>4. QED BY <1>0, <1>1, <3>2, <3>3, PieceStays
  <2>3. QED BY <2>1, <2>2
<1>2. CASE Environment /\ UNCHANGED setting
  <2>1. UNCHANGED <<pc, at, verdict>> /\ (UNCHANGED <<landed, late>> \/ \E d \in Call : \E i \in Index(d) : ShowsUp(d, i))
    BY <1>0, <1>2, EnvironmentKeeps
  <2>2. CASE UNCHANGED <<landed, late>>
    BY <1>0, <1>2, <2>1, <2>2, PieceStays
  <2>3. ASSUME NEW d \in Call, NEW i \in Index(d), ShowsUp(d, i) PROVE Piece(c)'
    <3>1. CASE d = c
      BY <1>0, <1>2, <2>3, <3>1, PieceShows
    <3>2. CASE d # c
      <4>1. landed'[c] = landed[c] /\ late'[c] = late[c]
        BY <1>0, <2>3, <3>2 DEF ShowsUp
      <4>2. QED BY <1>0, <1>2, <2>1, <4>1, PieceStays
    <3>3. QED BY <3>1, <3>2
  <2>4. QED BY <2>1, <2>2, <2>3
<1>3. CASE UNCHANGED vars
  <2>1. UNCHANGED <<setting, pc, at, verdict, landed, late>>
    BY <1>3 DEF vars, callVars, effects
  <2>2. QED BY <1>0, <2>1, PieceStays
<1>4. QED BY <1>1, <1>2, <1>3 DEF Next

LEMMA PieceInvariant == Spec => [](DeliveryInv /\ Pieces)
<1>1. Init => DeliveryInv /\ Pieces
  BY ActStart, TornStart, PieceStarts DEF DeliveryInv, Pieces
<1>2. DeliveryInv /\ Pieces /\ [Next]_vars => (DeliveryInv /\ Pieces)'
  BY DeliveryKept, PiecesKept
<1>3. QED BY <1>1, <1>2, PTL DEF Spec

\* No action of a transaction that is delivered in one piece takes effect twice,
\* whatever is retried: the foreground after the background (dispatchUiAction),
\* the section after the user (withForegroundUserPriority), the text that came
\* back, the transaction after stale recovery (performAct).
THEOREM DeliveredOnce == Spec => []PieceAtMostOnce
<1>1. DeliveryInv /\ Pieces => PieceAtMostOnce
  <2> SUFFICES ASSUME DeliveryInv, Pieces, NEW c \in Call, OnePiece(c), NEW i \in Index(c) PROVE landed[c][i] <= 1
    BY DEF PieceAtMostOnce, Once
  <2>1. Undivided(c) /\ Piece(c)
    BY DEF Pieces, OnePiece
  <2>2. landed[c][i] \in {0, 1}
    BY <2>1 DEF Piece, OnceAll
  <2>3. QED BY <2>2
<1>2. QED BY <1>1, PieceInvariant, PTL

\* Who is told that such a transaction was never delivered may safely try again:
\* nothing of it has taken effect, and nothing is under way.
THEOREM NeverMeansNever == Spec => []PieceHonestVerdict
<1>1. DeliveryInv /\ Pieces => PieceHonestVerdict
  <2> SUFFICES ASSUME DeliveryInv, Pieces, NEW c \in Call, OnePiece(c), verdict[c] = "never", NEW i \in Index(c)
               PROVE  landed[c][i] = 0 /\ i \notin late[c]
    BY DEF PieceHonestVerdict, Truthful, OnePiece
  <2>1. Undivided(c) /\ Piece(c)
    BY DEF Pieces, OnePiece
  <2>2. QED BY <2>1 DEF Piece, Untouched
<1>2. QED BY <1>1, PieceInvariant, PTL

================================================================================
