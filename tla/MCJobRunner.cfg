SPECIFICATION NamedSpec
CONSTANTS
    Paths = {p1, p2}
    Requests = {r1, r2}
    None = None
    FirstRequest = r1
    FirstPath = p1
    MaxSubmitters = 1
CHECK_DEADLOCK FALSE
INVARIANTS
    TypeOK
    OwnContext
    MapsAgree
    NoTerminalStranded
    ResultIsJobsOwn
PROPERTIES
    FutureResolved
