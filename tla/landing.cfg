CONSTANTS
    fix1 = fix1
    fix2 = fix2
    edit1 = edit1
    edit2 = edit2
    Fixes = {fix1, fix2}
    Edits = {edit1, edit2}
    Overlaps <- SharedFiles
    BadBuild <- TypesClash
    BadBoot <- CrashesAtStart
    Races = FALSE
    Events = {"merge", "move", "build"}
    MaxOthers = 1
    Faults = {"git", "revparse", "build", "restart", "reboot"}
    MaxFaults = 1
SPECIFICATION FairSpec
INVARIANTS
    HeldMeansOut
PROPERTIES
    OperatorsWorkKept
    GoodFixStays
    BadLandUndone
