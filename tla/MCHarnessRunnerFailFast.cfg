SPECIFICATION Spec
CONSTANTS
    Harnesses = {h1, h2}
    Workers = 2
    Commands <- FailFast
    Profiles <- WithPanics
    Verdicts <- ValidVerdicts
    NoHarness = NoHarness
INVARIANTS
    ExitZeroMeansVerified
