SPECIFICATION Spec
CONSTANTS
    Harnesses = {h1, h2, h3}
    Workers = 2
    Commands <- AllCommands
    Profiles <- AllProfiles
    Verdicts <- SomeVerdicts
    NoHarness = NoHarness
INVARIANTS
    TypeOK
    ExitCodeHonest
    SuccessesPreserved
    QuietExitsAlike
PROPERTIES
    FailureHasCause
    RunEnds
