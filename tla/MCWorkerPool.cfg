SPECIFICATION FairSpec
CONSTANTS
    Workers = {w1, w2}
    Jobs = {j1, j2}
    NoWorker = NoWorker
    NoJob = NoJob
    MaxFaults = 2
CHECK_DEADLOCK FALSE
INVARIANTS TypeOK JobIsKept
PROPERTIES WorkerStops
