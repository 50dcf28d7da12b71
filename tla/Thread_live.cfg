\* One send each way. The two properties about what the worker's JavaScript
\* is needed for have it as a condition that it returns.
SPECIFICATION Spec
CONSTANTS
    MaxSend = 1
    MaxPost = 1
    MayFailCompile = TRUE
    NodeModes = {TRUE, FALSE}
PROPERTIES
    UpChannel
    DownDelivered
    StopEnds
CHECK_DEADLOCK FALSE
