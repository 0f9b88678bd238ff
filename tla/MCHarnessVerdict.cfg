SPECIFICATION Spec
CONSTANTS
    Scenarios <- AllScenarios
    RetryBudget = 3
    MinLane = 2
    Depths = 2
    NoHarness = NoHarness
INVARIANTS
    TypeOK
    ProofIsClean
    PanicProofGenuine
    CertifiedComplete
    CrateTaintSurfaces
    LaneUpgradeSound
    LaneProofsCount
PROPERTIES
    GatesNeverRelax
