CONSTANTS
    Jobs = {j1}
    WorkerIds = {h1, h2}
    NoWorker = NoWorker
    MaxAttempts = 3
SPECIFICATION StoreSpec
INVARIANTS
    TypeOK
    MaterializedOnce
    RunAgrees
    StagedHasEvent
    OutboxBounded
PROPERTIES
    LifecycleSpec
