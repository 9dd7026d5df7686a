SPECIFICATION FairSpec
CONSTANTS
    upload = upload
    reupload = reupload
    download = download
    worker = worker
    deletion = deletion
    NoRequest = NoRequest
    Requests = {upload, reupload, deletion}
    Increments = {upload, reupload}
    Categories = {"storage", "bandwidth"}
    Total = "total"
    Persistent = {"storage"}
    Category <- Categorised
    Cost <- Priced
    Budget <- Budgets
    Workers = {worker}
    MaxMonth = 1
    MaxFaults = 1
CHECK_DEADLOCK FALSE
INVARIANTS TypeOK LedgerKept BudgetHolds RecordedOnce
PROPERTIES RecordIsStored
