SPECIFICATION FairSpec
CONSTANTS
    Callers = {p, q}
    Servers = {s}
    Configs <- AllSetups
    ReadCount = 2
    MaxClock = 1
    MaxFaults = 1
CHECK_DEADLOCK FALSE
PROPERTIES RequestSettles RejectedLeavesQueue
