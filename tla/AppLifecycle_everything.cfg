SPECIFICATION FairSpec

CONSTANTS
    a1 = a1
    i1 = i1
    i2 = i2
    s1 = s1
    s2 = s2
    p1 = p1
    p2 = p2
    p3 = p3
    None = None
    Apps = {a1}
    Images = {i1}
    Settings = {s1}
    Procs = {p1, p2}
    Kinds = {"deploy", "nightly", "edit", "delete"}
    Faults = {"docker", "timeout", "row", "log", "hang", "cancel", "daemon"}
    Substring <- OwnName
    MaxDeploys = 2


INVARIANTS
    OneOperationPerApp
    LockFollowsHolder

PROPERTIES
    SettledIsFinal
    RequestsComplete
