\* Both kinds of thread, compile errors, two sends each way.
SPECIFICATION Spec
CONSTANTS
    MaxSend = 2
    MaxPost = 2
    MayFailCompile = TRUE
    NodeModes = {TRUE, FALSE}
INVARIANTS
    TypeOK
    UpExactlyOnce
    UpWakeup
    DownWakeup
    StopWakesPoll
    DownInOrder
    DownComplete
    MainBoxOutlivesUse
    SafeWhileServing
    EndIsLast
\* A thread that has ended, and the main thread with it, stop.
CHECK_DEADLOCK FALSE
