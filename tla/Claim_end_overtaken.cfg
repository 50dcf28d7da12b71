SPECIFICATION Spec
CONSTANTS
    MaxSend = 0
    MaxPost = 0
    MayFailCompile = FALSE
    NodeModes = {FALSE}
INVARIANT EndNotOvertaken
CHECK_DEADLOCK FALSE
