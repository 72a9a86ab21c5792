SPECIFICATION FairSpec
CONSTANTS
    MaxRequests = 2
INVARIANTS
    DatabaseOutlivesWorkers
    WorkerErrorsReported
PROPERTIES
    Terminates
CHECK_DEADLOCK FALSE
