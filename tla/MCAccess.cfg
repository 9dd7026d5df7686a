SPECIFICATION Spec
CONSTANTS
    u = u
    f = f
    g = g
    h = h
    pub = pub
    ws = ws
    read = read
    all = all
    Users = {u}
    Groups = {g, h, pub}
    Public = pub
    Workspace = ws
    Files = {f}
    Actions = {read}
    Wildcard = all
    Depth = 2
    Requests = {r1}
    MaxAdds = 2
    MaxRemovals = 1
    MaxCalls = 1
    AddInputs <- MCAddInputs
    AssignInputs <- MCAssignInputs
INVARIANTS TypeOK NoBetterItem ShownIsAllowed GoneHasNothing
CHECK_DEADLOCK FALSE
