SPECIFICATION SyncSpec
CONSTANTS
    Node = {1, 2, 3}
    RegKey = {}
    SetKey = {"s"}
    SeqKey = {}
    Value = {"a"}
    MaxOps = 9
    MaxClock = 30
    Client = {1, 2}
    Agent = {}
    TypedField = {}
    Server = 3
    Relays = {"rust"}
    MaxCalls = 2
    MaxConnects = 3
    MaxInputs = 5
INVARIANTS
    QuietSameView
CHECK_DEADLOCK FALSE
