SPECIFICATION FairSpec
CONSTANTS
    Apps = {a1}
    Blobs = {b1}
    State = State
    Sched = Sched
    Requests = {r1}
    Retention = 1
    MaxDay = 2
    Events = {"s3", "docker", "operator"}
    MaxFaults = 1
    None = None
    a1 = a1
    b1 = b1
    r1 = r1
INVARIANTS
    CleanRunCaptured
    OneVolumeOperation
    CatalogComplete
PROPERTIES
    LastDayBackedUp
CHECK_DEADLOCK FALSE
