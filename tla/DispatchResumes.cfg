\* Two slots: a tick has two runs to start or to resume, one after the other.
CONSTANTS
    t1 = t1
    t2 = t2
    Task = {t1, t2}
    TaskInfo <- MCTaskInfo
    ActiveStates = {"todo", "in_progress"}
    TerminalStates = {"done", "canceled"}
    ReviewStates = {"review"}
    MaxConcurrentAgents = 2
    StateLimit <- MCStateLimit
    Run = {1, 2}
    BoardTask = {}
    NoTask = NoTask
    Job = {j1, j2}
    Preparer = {k1}
    Tick = {k1}
    NoJob = NoJob
    AutoContinueLimit = 1
    Toggle = FALSE
    MaxPasses = 1
    StallMonitor = FALSE
    Command = {}
    UserState = {"todo"}
SPECIFICATION DispatchSpec
SYMMETRY Symmetry
INVARIANT NoCrashLoop
CHECK_DEADLOCK FALSE
