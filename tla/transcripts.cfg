CONSTANTS
    chat = chat
    resumed = resumed
    dull = dull
    huge = huge
    None = None
    Files = {chat, resumed}
    Dull = {}
    Oversized = {}
    Idle = 1
    MaxAge = 4
    Rescan = 2
    Cap = 1
    Writes <- MCWrites
    MaxToggles = 2
    MaxFaults = 1
SPECIFICATION FairSpec
INVARIANTS
    StoredOnce
    CursorHonest
PROPERTIES
    
    MarkedNeverStored
    SessionsStored
