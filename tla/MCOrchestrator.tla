--------------------------- MODULE MCOrchestrator ---------------------------
(* The daily-research shape (research* -> write -> edit) for TLC. *)
EXTENDS Orchestrator

Chain == [t \in 1..4 |-> CASE t = 3 -> {1, 2} [] t = 4 -> {3} [] OTHER -> {}]
=============================================================================
