CONSTANTS
    stable = stable
    stale = stale
    t1 = t1
    t2 = t2
    d1 = d1
    b1 = b1
    b2 = b2
    None = None
    Names = {stable}
    Order <- OneName
    Repairable = {stable}
    Parents <- MCParents
    Ticks = {t1, t2}
    Doctors = {d1}
    Builds = {b1}
    EscalateAfter = 2
    NeedsHuman = 0
    DeferCap = 1
    TripThreshold = 2
    MaxFaults = 1
SPECIFICATION FairSpec
PROPERTIES
    LadderClimbs
    StuckReachesHuman
    HealedIsClosed
