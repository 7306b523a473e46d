SPECIFICATION FairSpec
CONSTANTS
    Numbers <- MCNumbers
    HardwareThreads <- MCHardwareThreads
    Text = Text
    Help = Help
    Empty = Empty
    Absent = Absent
    None = None
    UlongSize = 100000
    MaxArguments = 2
    Contexts = 2
CHECK_DEADLOCK FALSE
PROPERTIES
    CtrlCStops
