SPECIFICATION RoomSpec
CONSTANTS
    Node = {1, 2}
    RegKey = {}
    SetKey = {}
    SeqKey = {"q"}
    Value = {}
    MaxOps = 5
    MaxClock = 6
INVARIANTS
    PrunedSameList
CHECK_DEADLOCK FALSE
