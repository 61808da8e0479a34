------------------------------ MODULE MCGoalRun ------------------------------
(***************************************************************************)
(* Instances of GoalRun for TLC.                                           *)
(***************************************************************************)
EXTENDS GoalRun, TLC

CONSTANTS g1, r1, r2, t1, t2, a1

\* r1 has two Tasks in order, the second with an Action; the Plan for r2 has no Task and is
\* refused, so that r2 stays pending until it is cancelled.
TwoRuns == (r1 :> g1) @@ (r2 :> g1)
BothTasks == (t1 :> r1) @@ (t2 :> r1)
InOrder == (t1 :> {}) @@ (t2 :> {t1})
LastTask == (a1 :> t2)

\* Clients and criteria are interchangeable.
Interchangeable == Permutations(Client) \cup Permutations(Criterion)
=============================================================================
