CONSTANTS
    w1 = w1
    s1 = s1
    hi = hi
    None = None
    Worker <- OneWorker
    Text <- OneText
    Submission <- OneSubmission
    MaxTasks = 1
    MaxTurns = 1
    MaxControls = 2
    MaxSteps = 2
    MaxFaults = 1
SPECIFICATION FairSpec
CHECK_DEADLOCK FALSE
INVARIANTS
    SlotHoldsActiveTask
    NoInputSkipped
    ControlTruthful
    OneTurnPerSubmission
PROPERTIES
    TaskEnds
