SPECIFICATION FairSpec
CONSTANTS
    c1 = c1
    c2 = c2
    d1 = d1
    d2 = d2
    Callers = {c1}
    Dispatchers = {d1}
    Names = {"a"}
    NoThread = NoThread
    MayCall <- MCHandlerStops
    LiveRemoval = FALSE
    MaxRetries = 1
    MaxHandlers = 2
    MaxLate = 1
PROPERTIES StopReturns
CHECK_DEADLOCK FALSE
