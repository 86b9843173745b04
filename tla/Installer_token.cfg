SPECIFICATION Spec
CONSTANTS
    Newest = 1
    MaxEvents = 4
INVARIANTS
    PrintedTokenWorks
CHECK_DEADLOCK FALSE
