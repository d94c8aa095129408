--------------------------- MODULE MCCronService ---------------------------
(* A one-shot and a recurring job. *)
EXTENDS CronService
=============================================================================
