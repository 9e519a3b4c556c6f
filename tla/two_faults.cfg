CONSTANTS
    dream = dream
    embedder = embedder
    c1 = c1
    c2 = c2
    w1 = w1
    w2 = w2
    None = None
    Names = {dream}
    Detached = {dream}
    Gated = {}
    Ids = {1, 2, 3, 4}
    Workers = {w1, w2}
    Children = {c1, c2}
    DaemonLease = 2
    ChildLease = 1
    Period <- MCPeriod
    MaxLate = 1
    RetryCeiling = 0
    HandlerTimeout = 1
    Deadline <- MCDeadline
    Slack = 2
    StartMax = 1
    SleepJumps = {2}
    Faults = {"crash", "kill", "busy", "torn", "spawn"}
    MaxFaults = 2
SPECIFICATION Spec
SYMMETRY Processes
INVARIANTS
    OwnedRows
    RunsUnderLock
    SingleFlight
PROPERTIES
    ZombieTouchesNothing
    RestartSparesChildren
