----------------------------- MODULE MCWatchdog -----------------------------
(* Small instances of the wall-clock watchdog. *)
EXTENDS Watchdog

MCTimeouts == {0, 1, 2}
MCToolTimeouts == {1, 9}
=============================================================================
