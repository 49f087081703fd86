SPECIFICATION Spec
CONSTANTS
    Node = {1, 2}
    RegKey = {"x"}
    SetKey = {"s"}
    SeqKey = {"q", "r"}
    Value = {"a"}
    MaxOps = 2
    MaxClock = 4
INVARIANTS
    TypeOK
    LamportCausality
    UniqueStamps
    RegisterConvergence
    SequenceClockBound
    PruneLosesNothing
PROPERTIES
    ImplementsRGA
    ImplementsORSet
CHECK_DEADLOCK FALSE
