CONSTANTS
    Width = 3
    MaxCalls = 2
    Inputs <- MCInputs
SPECIFICATION Spec
INVARIANTS
    CopyAgrees
    CrashIffCyclic
CHECK_DEADLOCK FALSE
