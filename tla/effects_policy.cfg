CONSTANTS
    e1 = e1
    e2 = e2
    w1 = w1
    w2 = w2
    None = None
    Worker <- OneWorker
    EffectId <- TwoEffects
    Call <- Calls
    CallOf <- TestTwice
    FileCalls <- NoWrites
    Assessment <- Revoked
    MaxPolicy = 3
    MaxTurns = 1
    MaxBatch = 2
SPECIFICATION Spec
CHECK_DEADLOCK FALSE
INVARIANTS
    UnexecutedDidNotRun
    ApprovedBeforeRun
PROPERTIES
    ClaimIsCurrent
