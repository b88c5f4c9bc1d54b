SPECIFICATION FairSpec
CONSTANTS
    w1 = w1
    w2 = w2
    e1 = e1
    Executions = {e1}
    Workers = {w1, w2}
    NoExecution = NoExecution
    LastNode = 1
    MaxTries = 2
    MaxRestarts = 1
    Modes = {TRUE, FALSE}
    Faults = {"crash", "shutdown", "publish"}
CHECK_DEADLOCK FALSE
PROPERTIES
    QueuedSettles
