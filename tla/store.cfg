SPECIFICATION Spec
CONSTANTS
    t1 = t1
    t2 = t2
    e1 = e1
    r1 = r1
    x1 = x1
    x2 = x2
    c1 = c1
    None = None
    Task = {t1, t2}
    Exec = {x1, x2}
    Effect = {e1, r1}
    Control = {c1}
    Home <- MCHome
    Decision <- MCDecision
    RetryOf <- MCRetryOf
    MaxTurns = 1
    MaxEvents = 6
    MaxRenewals = 2
    MaxCommands = 1
SYMMETRY Execs
INVARIANTS
    JournalExact
PROPERTIES
    RowsVersioned
    EffectContract
    LeaseContract
CHECK_DEADLOCK FALSE
