CONSTANTS
    c1 = c1
    c2 = c2
    k1 = k1
    Checks = {c1, c2}
    Covers = {k1}
    Calls <- UsualCalls
    Ends <- LaterEnds
    SolverTimeout = 3
    Guard = 1
    Drain = 1
    CrossCap = 2
    WitnessCap = 1
    Horizon = 7
SPECIFICATION Spec
INVARIANT AttemptsInsideDeadline
CHECK_DEADLOCK FALSE
