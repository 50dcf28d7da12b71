CONSTANTS
    Chars <- MCChars
    Libs <- MCLibs
    Scripts <- MCScripts
    Messages <- MCMessages
SPECIFICATION Spec
INVARIANTS
    ErrorIntact
    LineOfScript
CHECK_DEADLOCK FALSE
