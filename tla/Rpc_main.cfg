CONSTANTS
    MaxCalls = 2
    MaxAnswers = 2
SPECIFICATION Spec
INVARIANTS
    PendingHoldsWorker
    ThrownAtForNobody
PROPERTIES
    RefinesCalls
    AnsweredEnds
CHECK_DEADLOCK FALSE
