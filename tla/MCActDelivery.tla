---------------------------- MODULE MCActDelivery ----------------------------
(***************************************************************************)
(* Instances of ActDelivery for TLC: up to two of three transactions, two  *)
(* of them on one application and the third on another.                    *)
(***************************************************************************)
EXTENDS ActDelivery, TLC

CONSTANTS c1, c2, c3, app1, app2

Place3 == (c1 :> app1 @@ c2 :> app1 @@ c3 :> app2)
Ask(first, second, third) == (c1 :> first @@ c2 :> second @@ c3 :> third)

\* A world that changes, with a user in it, where nothing shows up late.
Busy(actions, mode) ==
  [actions |-> actions, guarded |-> {}, stable |-> {}, mode |-> mode,
   changes |-> TRUE, user |-> TRUE, late |-> FALSE]
\* A world that holds still.
Still(actions) == [Busy(actions, "background") EXCEPT !.changes = FALSE, !.user = FALSE]

\* One action each: text that may go to the foreground, and a text field.
Singles == [Busy(Ask(<<"text">>, <<"field">>, <<>>), "background") EXCEPT !.guarded = {c2}]
\* Transactions whose actions are delivered one by one: two on one application
\* with nobody at the machine, and one with the user.
Sequences == [Busy(Ask(<<"press", "wait", "text">>, <<"point">>, <<>>), "background") EXCEPT !.user = FALSE]
Interrupted == Busy(Ask(<<"press", "wait", "text">>, <<>>, <<>>), "background")
\* Focus a field and type into it, in two applications that show text up late.
Chains == [Still(Ask(<<"field", "type">>, <<>>, <<"field", "wait", "type">>)) EXCEPT !.late = TRUE]
\* Three controls in a row, in headless mode beside one that needs the foreground.
Batches == Busy(Ask(<<"press", "press", "press">>, <<"point">>, <<>>), "headless")
\* A stable control batch beside text, in foreground mode.
StableBatch ==
  [Busy(Ask(<<"press", "press", "press">>, <<"text">>, <<>>), "foreground")
     EXCEPT !.stable = {c1}, !.user = FALSE]

AllSettings == {Singles, Sequences, Interrupted, Chains, Batches, StableBatch}

TwoPresses == {[Still(Ask(<<"press", "press">>, <<>>, <<>>)) EXCEPT !.changes = TRUE]}
FocusAndType == {[Still(Ask(<<"field", "type">>, <<>>, <<>>)) EXCEPT !.user = TRUE]}
OneText == {[Still(Ask(<<"text">>, <<>>, <<>>)) EXCEPT !.late = TRUE]}
OnePoint == {[Still(Ask(<<"point">>, <<>>, <<>>)) EXCEPT !.user = TRUE]}
PressThenField == {[Still(Ask(<<"press", "field">>, <<>>, <<>>)) EXCEPT !.user = TRUE]}
================================================================================
