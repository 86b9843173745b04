SPECIFICATION Spec

CONSTANTS
    a1 = a1
    i1 = i1
    i2 = i2
    s1 = s1
    s2 = s2
    p1 = p1
    p2 = p2
    p3 = p3
    None = None
    Apps = {a1}
    Images = {i1, i2}
    Settings = {s1}
    Procs = {p1, p2, p3}
    Kinds = {"deploy", "start", "stop", "restart", "nightly"}
    Faults = {}
    Substring <- OwnName
    MaxDeploys = 3

SYMMETRY Interchangeable

INVARIANTS
    RunningRowIsUp
    NightlyNeverRevives
