SPECIFICATION Spec
CONSTANTS
    Values = {"a", "b"}
    MaxWait = 3
    MaxNotify = 4
INVARIANTS
    WaitReturnsItsNotify
    NoLostRelease
    ThrowsOnlyIfSpurious
    NotifyHoldsWorker
PROPERTIES
    NotifyWakes
CHECK_DEADLOCK FALSE
