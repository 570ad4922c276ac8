CONSTANTS
    p1 = p1
    p2 = p2
    t1 = t1
    None = None
    Process = {p1, p2}
    Task = {t1}
    Supported = 4
    MaxCrashes = 2
    MaxFailures = 2
    MaxWrites = 2
    MaxRollbacks = 2
SPECIFICATION FairSpec
INVARIANTS
    NeverHalfMigrated
PROPERTIES
    NothingLost
    OpensInTheEnd
