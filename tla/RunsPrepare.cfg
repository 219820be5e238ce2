\* Two tasks, three rows, two passes; one preparation at a time, ends, cancels and restarts meanwhile.
CONSTANTS
    t1 = t1
    t2 = t2
    Task = {t1, t2}
    TaskInfo <- MCTaskInfo
    ActiveStates = {"todo", "in_progress"}
    TerminalStates = {"done", "canceled"}
    ReviewStates = {"review"}
    MaxConcurrentAgents = 2
    StateLimit <- MCStateLimit
    Run = {1, 2, 3}
    BoardTask = {}
    NoTask = NoTask
    Job = {j1}
    Preparer = {p1}
    MaxPasses = 2
    StallMonitor = FALSE
    Command = {"prepare", "start", "cancel"}
    UserState = {}
SPECIFICATION Spec
INVARIANTS
    PreparedOnce
    RunningHasWorker
CHECK_DEADLOCK FALSE
