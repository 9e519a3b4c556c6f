CONSTANTS
    Mac = Mac
    Vm = Vm
    Nobody = Nobody
    Both = Both
    MaxLocks = 2
    MaxWrites = 2
    MaxFaults = 2
SPECIFICATION FairSpec
INVARIANTS
    OneWorker
    NothingLost
    TokenFresh
    UnlockedIsReady
PROPERTIES
    WriterMoves
    WriterReturns
CHECK_DEADLOCK FALSE
