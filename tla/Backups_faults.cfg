SPECIFICATION Spec
CONSTANTS
    Apps = {a1}
    Blobs = {b1}
    State = State
    Sched = Sched
    Requests = {r1}
    Retention = 1
    MaxDay = 2
    Events = {"s3", "docker", "db", "crash", "cancel", "disaster"}
    MaxFaults = 2
    None = None
    a1 = a1
    b1 = b1
    r1 = r1
INVARIANTS
    TarballsRestorable
    RestoreIsWhole
PROPERTIES
    NewestSurvives
CHECK_DEADLOCK FALSE
