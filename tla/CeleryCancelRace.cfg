CONSTANTS
    Jobs = {j1}
    WorkerIds = {h1, h2}
    NoWorker = NoWorker
    NoJob = NoJob
    p1 = p1
    p2 = p2
    h1 = h1
    h2 = h2
    Workers = {p1, p2}
    Host <- TwoHosts
    MaxRetries = 1
    MaxAttempts = 2
    FaultKinds <- NoFaults
    MaxFaults = 0
SPECIFICATION Spec
PROPERTY CancelOnlyUnstarted
CHECK_DEADLOCK FALSE
