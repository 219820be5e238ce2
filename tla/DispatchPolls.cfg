\* Switched off and on, two ticks may overlap; fair timers and ticks.
CONSTANTS
    t1 = t1
    t2 = t2
    Task = {t1}
    TaskInfo <- MCTaskInfo
    ActiveStates = {"todo", "in_progress"}
    TerminalStates = {"done", "canceled"}
    ReviewStates = {"review"}
    MaxConcurrentAgents = 1
    StateLimit <- MCStateLimit
    Run = {1}
    BoardTask = {}
    NoTask = NoTask
    Job = {j1}
    Preparer = {k1, k2}
    Tick = {k1, k2}
    NoJob = NoJob
    AutoContinueLimit = 1
    Toggle = TRUE
    MaxPasses = 1
    StallMonitor = FALSE
    Command = {}
    UserState = {"todo"}
SPECIFICATION FairDispatch
INVARIANT DispatchTypeOK
PROPERTY KeepsPolling
CHECK_DEADLOCK FALSE
