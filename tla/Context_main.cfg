CONSTANTS
    Types = {"A"}
    MaxRegistered = 3
    MaxCalls = 2
SPECIFICATION Spec
INVARIANTS
    RightConstructor
    QueueKeepsOrder
PROPERTIES
    Boots
    AnswersEnd
CHECK_DEADLOCK FALSE
