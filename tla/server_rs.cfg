SPECIFICATION FairSpec
CONSTANTS
    MaxConns = 3
    Capacity = 1
    DbFails = TRUE
    Env <- MCEnv
    MaxTimestamp = 2
    Bounds <- MCBounds
INVARIANTS
    TypeOK
    RoomLifetime
    NothingMissed
PROPERTIES
    PruneAfterEveryClient
    EveryoneHears
    EventuallySaved
CHECK_DEADLOCK FALSE
