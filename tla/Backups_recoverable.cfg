SPECIFICATION Spec
CONSTANTS
    Apps = {a1}
    Blobs = {b1}
    State = State
    Sched = Sched
    Requests = {r1}
    Retention = 2
    MaxDay = 2
    Events = {"disaster"}
    MaxFaults = 1
    None = None
    a1 = a1
    b1 = b1
    r1 = r1
INVARIANTS
    BackedUpAppsRecoverable
CHECK_DEADLOCK FALSE
