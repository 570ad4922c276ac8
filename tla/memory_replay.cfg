CONSTANTS
    p1 = p1
    None = None
    Path = {p1}
    MaxValue = 2
    StepLen = 2
    MaxCalls = 4
    MaxCrashes = 1
    MaxFaults = 0
    CompressAt = 3
    RollupAt = 2
    MaxGeneration = 2
SPECIFICATION Spec
CHECK_DEADLOCK FALSE
INVARIANT ReplaySafe
