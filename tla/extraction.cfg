CONSTANTS
    long = long
    short = short
    empty = empty
    u1 = u1
    u2 = u2
    tool = tool
    None = None
    Sessions = {long, short}
    Bodies = {u1, u2, tool}
    Text <- MCText
    Spoken = {u1, u2}
    ToolOnly = {tool}
    Unfit = {}
    Budget = 2
    Batch = 1
    ClaimCap = 1
    MaxAttempts = 2
    PerPass = 1
    MaxFaults = 1
SPECIFICATION FairSpec
INVARIANTS
    NothingSkipped
    EntitiesKept
    ClaimsAccounted
    MarkedOnce
PROPERTIES
    EverySessionExtracted
    LettersDrain
CHECK_DEADLOCK FALSE
