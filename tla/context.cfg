CONSTANTS
    None = None
    Path = {1, 2}
    PlanItem = {1, 2}
    Constraint = {1}
    Tokens <- TokensSmall
    ContextTokens = 30
    MaxWorking = 10
    MinWorking = 4
    MaxKeys = 2
    Record <- RecordsSmall
    Stored <- StoredSmall
    MaxResults = 4
    PerKey = 1
    RenderHeader = 1
    RenderItem = 1
    SuffixTokens = 3
    PrefixTokens = {6, 22}
    TailTokens = {0, 10}
    EpisodicTokens = {0, 2}
    CallTokens <- CallTokensSmall
    SkipTokens = 2
    RecentSteps = 1
    RetrievalMargin = 1
    MinReserve = 3
    MaxReserve = 6
    MemoryMessage = 2
    MaxSteps = 3
SPECIFICATION Spec
CHECK_DEADLOCK FALSE
INVARIANTS
    ErrorsVisible
    SkippedReadsFresh
    PhaseOnce
    SelectionValid
    WindowSound
