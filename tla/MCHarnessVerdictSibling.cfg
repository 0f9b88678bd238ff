SPECIFICATION Spec
CONSTANTS
    Scenarios <- SiblingScenarios
    RetryBudget = 3
    MinLane = 2
    Depths = 2
    NoHarness = NoHarness
INVARIANTS
    LaneUpgradeSound
