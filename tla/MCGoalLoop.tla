---------------------------- MODULE MCGoalLoop ----------------------------
(* One project, driven by both loops. *)
EXTENDS GoalLoop
=============================================================================
