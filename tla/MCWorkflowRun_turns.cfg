CONSTANTS
    Credentials <- MCCredentials
    ProviderOf <- MCProviderOf
    SystemKeys = {"openai", "gemini", "elevenlabs"}
    Workflows <- MCWorkflows
    StateSchema <- MCStateSchema
    ProjectSchema <- MCProjectSchema
    Overrides <- MCOverrides
    ReadAs <- MCReadAs
    HistoryLimit = 3
    ClientState <- MCClient
    TurnKinds = {"text", "audio"}
    MaxTurns = 2
    MaxCrashes = 1
    MaxDeleted = 1
    MaxSteps = 12
    MaxNodeRuns = 3
SPECIFICATION TurnSpec
INVARIANTS
    TraceFollowsTheGraph
    FailedTurnLeavesNothing
    BilledWhatItUsed
    AnswersForTheLastAgent
CHECK_DEADLOCK FALSE
