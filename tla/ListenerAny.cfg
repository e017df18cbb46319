SPECIFICATION Spec
CONSTANTS
    c1 = c1
    c2 = c2
    d1 = d1
    d2 = d2
    Callers = {c1, c2}
    Dispatchers = {d1, d2}
    Names = {"a"}
    NoThread = NoThread
    MayCall <- MCAnyProgram
    LiveRemoval = TRUE
    MaxRetries = 2
    MaxHandlers = 2
    MaxLate = 2
SYMMETRY MCSymmetry
INVARIANTS
    HandlersSerialised
    TerminatingIsQuiet
    NoCircularWait
CHECK_DEADLOCK FALSE
