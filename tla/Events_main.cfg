SPECIFICATION Spec
CONSTANTS
    Callbacks = {"f", "g"}
    MaxNodes = 3
    MaxDepth = 2
INVARIANTS
    MountingOrder
    ExactOldestFirst
    OnceOldestFirst
CHECK_DEADLOCK FALSE
