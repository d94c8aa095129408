--------------------------- MODULE MCCommandQueue ---------------------------
(***************************************************************************)
(* A cron command (1) that awaits a turn in its session's lane (2), which  *)
(* awaits work of the cron lane (3); another turn of the same session (4); *)
(* two more cron commands (5, 6).                                          *)
(***************************************************************************)
EXTENDS CommandQueue

Lanes == <<"cron", "session:job", "cron", "session:job", "cron", "cron">>
Awaits == <<2, 3, None, None, None, None>>
=============================================================================
