CONSTANTS
    MaxTime = 5
    MaxTurns = 3
SPECIFICATION Spec
INVARIANTS
    ExactIfAlone
    CrashesAtEdges
CHECK_DEADLOCK FALSE
