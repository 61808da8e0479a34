------------------------ MODULE MCGovernedExecution ------------------------
(***************************************************************************)
(* Instances of GovernedExecution for TLC.                                 *)
(***************************************************************************)
EXTENDS GovernedExecution, TLC

CONSTANTS a1, a2, r1, s1

\* One high-impact write with two reviewers; policy version 2 refuses it.
WriteRunOf == (a1 :> r1)
WriteSwitchesOf == (a1 :> {s1})
WriteReviews == (a1 :> 2)
WriteDenials == {<<2, a1>>}

\* Two reads that share the budget of a Run.
SharedRunOf == (a1 :> r1) @@ (a2 :> r1)
SharedSwitchesOf == (a1 :> {}) @@ (a2 :> {})
SharedReviews == (a1 :> 1) @@ (a2 :> 1)
NoDenials == {}

Interchangeable == Permutations(Worker) \cup Permutations(Principal)
InterchangeableWorkers == Permutations(Worker)
=============================================================================
