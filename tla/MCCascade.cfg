SPECIFICATION FairSpec
CONSTANTS
    Nodes = {1, 2, 3}
    Items = {2}
    Queries = {3}
    Holders <- Small
    Absent = {2}
    Jobs = {1, 3, 12, 32}
    Target <- JobTargets
    Parent <- JobParents
    Parents <- JobsAbove
    NoJob = 0
    PageSize = 1
    SameInstant = FALSE
    LateInserts = FALSE
    MaxRequests = 2
    MaxCrashes = 1
    MaxErrors = 1
CHECK_DEADLOCK FALSE
INVARIANTS TypeOK NoOrphan OnlyAsked CompletedMeansErased
PROPERTIES MarkedIsErased
