SPECIFICATION Spec
CONSTANTS
    Scenarios <- MixedScenarios
    RetryBudget = 3
    MinLane = 2
    Depths = 2
    NoHarness = NoHarness
INVARIANTS
    EveryApproximationAccounted
