CONSTANT MaxTimers = 3
SPECIFICATION Spec
INVARIANTS
    Owned
    TickHoldsLoop
    EndLosesNothing
    SafeUnlessClearedInCall
PROPERTY RefinesTimerSet
CHECK_DEADLOCK FALSE
