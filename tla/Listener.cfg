SPECIFICATION FairSpec
CONSTANTS
    c1 = c1
    c2 = c2
    d1 = d1
    d2 = d2
    Callers = {c1, c2}
    Dispatchers = {d1, d2}
    Names = {"a", "b"}
    NoThread = NoThread
    MayCall <- MCDisciplined
    LiveRemoval = FALSE
    MaxRetries = 2
    MaxHandlers = 2
    MaxLate = 2
INVARIANTS
    TypeOK
    HandlersSerialised
    TerminatingIsQuiet
    StoppedIsQuiet
    RunningHandles
    NoMemoryError
    NoCircularWait
PROPERTIES
    ImplementsService
    StopReturns
    IndicationsComplete
