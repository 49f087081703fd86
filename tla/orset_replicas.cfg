SPECIFICATION Spec
CONSTANTS
    Node = {1, 2, 3}
    Orderly = {1, 2}
    Value = {"a", "b"}
    Token = {"t1", "t2"}
    MaxOps = 4
INVARIANTS
    AddWins
    SetConvergence
CHECK_DEADLOCK FALSE
