\* Fair workers; two starts of one run, stalls, cancels and restarts.
CONSTANTS
    t1 = t1
    t2 = t2
    Task = {t1}
    TaskInfo <- MCTaskInfo
    ActiveStates = {"todo", "in_progress"}
    TerminalStates = {"done", "canceled"}
    ReviewStates = {"review"}
    MaxConcurrentAgents = 1
    StateLimit <- MCStateLimit
    Run = {1}
    BoardTask = {}
    NoTask = NoTask
    Job = {j1, j2}
    Preparer = {p1}
    MaxPasses = 1
    StallMonitor = TRUE
    Command = {"prepare", "start", "cancel"}
    UserState = {}
SPECIFICATION FairSpec
INVARIANT RunningHasWorker
PROPERTY RunsSettle
CHECK_DEADLOCK FALSE
