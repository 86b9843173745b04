SPECIFICATION Spec
CONSTANTS
    a1 = a1
    a2 = a2
    d1 = d1
    ByName <- OneApp
    Domains = {AdminHost}
    AdminHost = AdminHost
    Server = Server
    Ports = {p80, p8080}
    Requests = {r1, r2}
    Boot = Boot
    MaxPolls = 2
    MaxEvents = 4
    NoRow = NoRow
INVARIANTS
    RoutesCatchUp
    AdminReachable
    QuietBootServes
PROPERTIES
    QuietBootKeepsCaddy
    BootEnds
CHECK_DEADLOCK FALSE
