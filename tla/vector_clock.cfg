SPECIFICATION Spec
CONSTANTS
    Node = {1, 2, 3}
    MaxEvents = 5
INVARIANTS
    StampsCharacterise
CHECK_DEADLOCK FALSE
