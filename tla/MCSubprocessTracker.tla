------------------------- MODULE MCSubprocessTracker -------------------------
(* Small instances of the child-process table. *)
EXTENDS SubprocessTracker

CONSTANTS p1, p2, w1, w2, handler

MCPids == {p1, p2}
MCWorkers == {w1, w2}
OneWorker == {w1}

OwnModes == {"untimed", "timed"}
AllModes == {"untimed", "timed", "piped"}

OneSignal == {handler}
=============================================================================
