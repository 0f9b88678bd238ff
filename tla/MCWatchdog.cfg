SPECIFICATION Spec
CONSTANTS
    Timeouts <- MCTimeouts
    ToolTimeouts <- MCToolTimeouts
    None = None
    AutoTimeout = 2
    SolverTimeout = 4
    Mult = 2
    Grace = 1
    Headroom = 2
    Overrun = 1
    OuterGrace = 3
    MaxMs = 9
    MaxHarnesses = 3
    MaxTime = 9
    MaxArm = 2
INVARIANTS
    TypeOK
    DeadlineAnchored
    HarnessInsideWatchdog
    CallInsideBudgets
    HungCallReportsItself
    FiresBeforeOuterKill
PROPERTIES
    DeadlineNeverShrinks
    HangEnds
