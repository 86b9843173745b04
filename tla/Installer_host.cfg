SPECIFICATION Spec
CONSTANTS
    Newest = 2
    MaxEvents = 6
INVARIANTS
    SetupComplete
    RotatedTokenKept
    HostBinaryWorks
CHECK_DEADLOCK FALSE
