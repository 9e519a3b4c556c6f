CONSTANTS
    research = research
    remediate = remediate
    s1 = s1
    s2 = s2
    r1 = r1
    r2 = r2
    r3 = r3
    None = None
    Order <- TwoHandlers
    K = remediate
    Steady = {research}
    Runs = {s1, s2}
    Ids = {r1, r2, r3}
    BenchAfter = 2
    BenchRotations = 2
    MaxAttempts = 2
    LockStale = 2
    SdkMax = 1
    LandMax = 2
    Period = 3
    AuditGap = 3
    Races = FALSE
    Faults = {"kill", "spawn", "late", "quota", "torn"}
    MaxFaults = 1
SPECIFICATION FairSpec
PROPERTIES
    FailureBenchesOnce
    RequestHonoured
    EveryHandlerTurns
