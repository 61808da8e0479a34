------------------------- MODULE MCGoalRunWorkflow -------------------------
(***************************************************************************)
(* Instances of GoalRunWorkflow for TLC.                                   *)
(***************************************************************************)
EXTENDS GoalRunWorkflow
=============================================================================
