CONSTANTS
    dream = dream
    embedder = embedder
    c1 = c1
    c2 = c2
    w1 = w1
    w2 = w2
    None = None
    Names = {dream, embedder}
    Detached = {dream}
    Gated = {}
    Ids = {1, 2, 3}
    Workers = {w1, w2}
    Children = {c1, c2}
    DaemonLease = 2
    ChildLease = 1
    Period <- MCPeriod
    MaxLate = 1
    RetryCeiling = 0
    HandlerTimeout = 1
    Deadline <- MCDeadline
    Slack = 2
    StartMax = 1
    SleepJumps = {2}
    Faults = {}
    MaxFaults = 0
SPECIFICATION FairSpec
PROPERTIES
    CronFires
