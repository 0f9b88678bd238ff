SPECIFICATION TreeSpec
CONSTANTS
    p1 = p1
    w1 = w1
    handler = handler
    handler2 = handler2
    parent = parent
    NoPid = NoPid
    NoWorker = NoWorker
    Slots = 2
    Pids <- MCPids
    Workers <- MCWorkers
    Modes <- AllModes
    Cleaners <- MCCleaners
    Signals <- MCSignals
    ParentWatch = parent
    OptOuts <- Either
    NoHups <- Either
    MaxSignals = 1
INVARIANTS
    TreeTypeOK
    LoneCleanupComplete
PROPERTIES
    ForwardedEnds
    OrphanEnds
    TimedJobsReturn
    CleanersExit
