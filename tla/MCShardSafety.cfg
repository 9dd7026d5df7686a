SPECIFICATION Spec
CONSTANTS
    Callers = {p, q}
    Servers = {s, t}
    Configs <- AllSetups
    ReadCount = 2
    MaxClock = 1
    MaxFaults = 1
SYMMETRY Symmetry
CHECK_DEADLOCK FALSE
INVARIANTS TypeOK MessageAccounted
PROPERTIES KeepsPromises
