SPECIFICATION FairSync
CONSTANTS
    Node = {1, 2, 3}
    RegKey = {"x"}
    SetKey = {"s"}
    SeqKey = {"q"}
    Value = {"a"}
    MaxOps = 9
    MaxClock = 30
    Client = {1, 2}
    Agent = {2}
    TypedField = {"x"}
    Server = 3
    Relays = {"ts", "rust"}
    MaxCalls = 3
    MaxConnects = 3
    MaxInputs = 5
INVARIANTS
    WritesAccounted
    CaughtUp
    CausalDelivery
    SameWritesSameView
PROPERTIES
    EventuallySameView
CHECK_DEADLOCK FALSE
