SPECIFICATION Spec
CONSTANTS
    w1 = w1
    w2 = w2
    s1 = s1
    s2 = s2
    t1 = t1
    t2 = t2
    x1 = x1
    e1 = e1
    e2 = e2
    c1 = c1
    None = None
    Worker = {w1, w2}
    Writer = {w1}
    Serves <- ServesAll
    Session = {s1}
    Task = {t1, t2}
    Workspace = {x1}
    SessionOf <- OneSession
    WorkspaceOf <- SharedWorkspace
    ExecId = {e1, e2}
    CmdId = {c1}
    TTL = 2
    MaxClock = 3
    MaxGen = 3
    MaxVersion = 4
SYMMETRY Fresh
INVARIANT TypeOK
INVARIANT SessionExclusive
INVARIANT NewestIsActive
INVARIANT TaskTakeoverClean
PROPERTY FencedWrites
PROPERTY LeaseContract
CHECK_DEADLOCK FALSE
