CONSTANTS
    a = a
    b = b
    sum1 = sum1
    None = None
    Projection = {{}, {a}, {a, b}}
    DeltaLimit = 1
    Summary = {sum1}
    MaxSteps = 3
    MaxTokens = 3
    MaxRepeats = 3
    MaxErrors = 2
    MaxFailures = 2
    MaxReplans = 1
    MaxCrashes = 1
SPECIFICATION Spec
CHECK_DEADLOCK FALSE
INVARIANTS
    UsageExact
    CountersAsUninterrupted
    VerifiedMeansTested
PROPERTIES
    PrefixGrows
