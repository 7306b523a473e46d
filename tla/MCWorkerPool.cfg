SPECIFICATION NamedSpec
CONSTANTS
    Workers = {w1, w2}
    Callers = {c1, c2}
    Texts = {"user"}
    MaxJobs = 2
    FirstCaller = c1
    FirstWorker = w1
CHECK_DEADLOCK FALSE
INVARIANTS
    TypeOK
    OneOwner
    StatusesInOrder
    NoLostWakeup
    StopReachesEveryJob
    ShutdownComplete
    ReasonReported
PROPERTIES
    ImplementsLifecycle
    ShutdownReturns
    CancelledJobEnds
    EveryJobEnds
