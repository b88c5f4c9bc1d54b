SPECIFICATION ParallelSpec
CONSTANTS
    s = s
    a = a
    r = r
    b = b
    x = x
    e = e
    Nodes = {s, a, r, b, x, e}
    Start = s
    Ends = {x, e}
    Routers = {r}
    Graphs <- AllGraphs
    Branches = {0, 1, 2, 3}
    Selected = {a}
    Filters = {"all", "selected"}
    MaxSteps = 7
    MaxNodeExecutions = 3
    NoNode = NoNode
    Plain = Plain
INVARIANTS
    LiveBranchesRun
    JoinWaits
    UnflaggedEndIsAlone
    StepsRecorded
