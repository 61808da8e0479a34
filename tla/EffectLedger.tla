---------------------------- MODULE EffectLedger ----------------------------
(***************************************************************************)
(* What governed execution promises of the outside world, and nothing of   *)
(* how: an Action is charged once to its Run within the budget, and takes  *)
(* effect at most once, and only after it was charged.                     *)
(***************************************************************************)
EXTENDS Naturals

CONSTANTS Action, Run, RunOf, Costs, Budget
VARIABLES charged, spent, effects
ledgerVars == <<charged, spent, effects>>

Init ==
    /\ charged = {}
    /\ spent = [r \in Run |-> 0]
    /\ effects = [a \in Action |-> 0]

ChargeOnce(a) ==
    /\ a \notin charged
    /\ charged' = charged \cup {a}
    /\ \E c \in Costs :
         /\ spent[RunOf[a]] + c <= Budget
         /\ spent' = [spent EXCEPT ![RunOf[a]] = @ + c]
    /\ UNCHANGED effects

TakeEffect(a) ==
    /\ a \in charged
    /\ effects[a] = 0
    /\ effects' = [effects EXCEPT ![a] = 1]
    /\ UNCHANGED <<charged, spent>>

Next == \E a \in Action : ChargeOnce(a) \/ TakeEffect(a)
Spec == Init /\ [][Next]_ledgerVars
=============================================================================
