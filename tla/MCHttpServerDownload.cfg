SPECIFICATION ServerSpec
CONSTANTS
    Paths = {p1}
    Requests = {p1}
    None = None
    MaxSubmitters = 1
CHECK_DEADLOCK FALSE
INVARIANTS
    DownloadWhenDone
