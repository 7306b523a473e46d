SPECIFICATION Spec
CONSTANTS
    Workers = {w1}
    Callers = {c1}
    Texts = {"user"}
    MaxJobs = 1
    FirstCaller = c1
    FirstWorker = w1
CHECK_DEADLOCK FALSE
INVARIANTS
    ReasonAsGiven
