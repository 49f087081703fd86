SPECIFICATION FairSpec
CONSTANTS
    MaxConns = 3
    Persistence = {TRUE, FALSE}
    AdapterFails = TRUE
    MaxTimestamp <- MCMaxTimestamp
    MaxInputs = 5
INVARIANTS
    TypeOK
    DeletionsTracked
    WatermarkCovers
    ExactRelay
PROPERTIES
    PruneAfterDeletions
    PruneAfterEveryClient
    EveryoneServed
CHECK_DEADLOCK FALSE
