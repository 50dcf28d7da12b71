SPECIFICATION Spec
CONSTANTS
    Values = {"a"}
    MaxWait = 1
    MaxNotify = 2
PROPERTY NotifyAfterEventWakes
CHECK_DEADLOCK FALSE
