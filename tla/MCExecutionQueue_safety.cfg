SPECIFICATION Spec
CONSTANTS
    w1 = w1
    w2 = w2
    e1 = e1
    Executions = {e1}
    Workers = {w1, w2}
    NoExecution = NoExecution
    LastNode = 1
    MaxTries = 2
    MaxRestarts = 2
    Modes = {TRUE, FALSE}
    Faults = {"crash", "shutdown", "timeout", "prepare", "database", "publish", "api", "delete"}
INVARIANTS
    OneDelivery
    SettledRunAddsUp
    ResumeIsExact
    SettledWakesWaiter
PROPERTIES
    ImplementsContract
SYMMETRY WorkerSymmetry
CHECK_DEADLOCK FALSE
