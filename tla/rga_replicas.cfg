SPECIFICATION Spec
CONSTANTS
    Node = {1, 2, 3}
    Orderly = {1, 2}
    MaxOps = 3
    MaxPending = 2
INVARIANTS
    TypeOK
    UniqueIds
    SequenceOrder
    CausalBuffering
    VisibleConvergence
PROPERTIES
    TombstonesStay
CHECK_DEADLOCK FALSE
