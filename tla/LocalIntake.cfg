CONSTANTS
    MaxRequests = 2
    Jobs = {1, 2}
    LocalWorker = w
    WorkerIds = {w}
    NoWorker = NoWorker
    NoFile = NoFile
    MaxAttempts = 2
    Files <- MCFiles
    FaultKinds <- AllFaults
    MaxFaults = 1
    MaxCancels = 1
SPECIFICATION FairSpec
INVARIANTS LocalTypeOK IntakeComplete DeliveriesHeld RefsFollow SecondInvoiceExplained InvoiceIsShown
PROPERTY Settles
CHECK_DEADLOCK FALSE
