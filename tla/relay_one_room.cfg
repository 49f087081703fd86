SPECIFICATION Spec
CONSTANTS
    MaxConns = 3
    Persistence = {TRUE}
    AdapterFails = FALSE
    MaxTimestamp <- MCMaxTimestamp
    MaxInputs = 4
INVARIANTS
    OneRoom
CHECK_DEADLOCK FALSE
