CONSTANTS
    e1 = e1
    e2 = e2
    w1 = w1
    w2 = w2
    None = None
    Worker <- TwoWorkers
    EffectId <- TwoEffects
    Call <- Calls
    CallOf <- WriteTest
    FileCalls <- Writes
    Assessment <- Cautious
    MaxPolicy = 1
    MaxTurns = 0
    MaxBatch = 2
SYMMETRY Workers
SPECIFICATION Spec
CHECK_DEADLOCK FALSE
INVARIANTS
    AtMostOnce
    UnknownHeld
PROPERTIES
    SucceededRan
    EffectContract
