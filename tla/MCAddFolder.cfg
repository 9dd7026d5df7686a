SPECIFICATION Spec
CONSTANTS
    Clients = {1, 2, 3, 4, 5}
    Asks <- FiveAsks
    Agents = {"owner", "guest", "ghost"}
    Paths <- TreePaths
    Existing <- E
    Access <- Inside
    Uploaders = {"owner"}
    Gone = {"ghost"}
    Servers = {"s1"}
    ReadCount = 3
    MaxTroubles = 2
CHECK_DEADLOCK FALSE
INVARIANTS TypeOK OnePerPath ParentsStored OnlyAllowed
