SPECIFICATION FairSpec
CONSTANTS
    FirstPorts = {2, 3, 5}
    RetryArgs <- MCRetryArgs
    PortLimit = 5
INVARIANTS
    TypeOK
    RunsOnFirstFree
    GivesUpAfterAll
PROPERTIES
    StartReturns
