SPECIFICATION Spec
CONSTANTS
    p1 = p1
    p2 = p2
    w1 = w1
    w2 = w2
    handler = handler
    NoPid = NoPid
    NoWorker = NoWorker
    Slots = 2
    Pids <- MCPids
    Workers <- OneWorker
    Modes <- AllModes
    Cleaners <- OneSignal
    Signals <- OneSignal
INVARIANTS
    RegistrationIdempotent
