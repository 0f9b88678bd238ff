SPECIFICATION CallSpec
CONSTANTS
    p1 = p1
    p2 = p2
    w1 = w1
    w2 = w2
    handler = handler
    NoPid = NoPid
    NoWorker = NoWorker
    Slots = 2
    Pids <- MCPids
    Workers <- MCWorkers
    Modes <- OwnModes
    Cleaners <- OneSignal
    Signals <- OneSignal
INVARIANTS
    TypeOK
    TrackedWhileInFlight
    RegistrationIdempotent
    NoAbandonedChild
    CleanupComplete
    HandledOnceTracked
PROPERTIES
    ZombiesReaped
