SPECIFICATION FairSpec
CONSTANTS
    MaxWrites = 5
    MaxOpens = 4
INVARIANTS
    NothingLost
    FlushArmed
PROPERTIES
    SnapshotFirst
    EverythingSent
CHECK_DEADLOCK FALSE
