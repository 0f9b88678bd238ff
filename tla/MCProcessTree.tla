---------------------------- MODULE MCProcessTree ----------------------------
(* Small instances of the process tree. *)
EXTENDS ProcessTree

CONSTANTS p1, w1, handler, handler2, parent

MCPids == {p1}
MCWorkers == {w1}
AllModes == {"untimed", "timed", "piped"}
MCSignals == {handler, handler2}
MCCleaners == MCSignals \union {parent}
Either == BOOLEAN
=============================================================================
