SPECIFICATION Spec
CONSTANTS
    StemLists <- MCStemLists
    Bases <- MCBases
    MaxJobs = 2
    Absent = Absent
    Invalid = Invalid
    Error = Error
CHECK_DEADLOCK FALSE
INVARIANTS
    TypeOK
    RunsAsConfigured
    DownloadAsAsked
