SPECIFICATION Spec
CONSTANTS
    a1 = a1
    Apps = {a1}
    Server = Server
    Interval = 2
    Ticks = 2
    Hours = 2
    NightHour = 1
    KeepSamples = 2
    KeepHourly = 3
    MaxTime = 13
    MaxEvents = 2
INVARIANTS
    SteadyRollsAll
    OnePassUnlessUnmarked
    NightNotMissed
PROPERTIES
    RolledIsFinal
CHECK_DEADLOCK FALSE
