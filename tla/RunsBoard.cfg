\* A card on the project board with a runtime budget, one worker, two rows, edits.
CONSTANTS
    t1 = t1
    t2 = t2
    Task = {t1}
    TaskInfo <- MCTaskInfo
    ActiveStates = {"todo", "in_progress"}
    TerminalStates = {"done", "canceled"}
    ReviewStates = {"review"}
    MaxConcurrentAgents = 1
    StateLimit <- MCStateLimit
    Run = {1, 2}
    BoardTask = {t1}
    NoTask = NoTask
    Job = {j1}
    Preparer = {p1}
    MaxPasses = 1
    StallMonitor = FALSE
    Command = {"prepare", "start", "update"}
    UserState = {"todo", "canceled"}
SPECIFICATION Spec
INVARIANTS
    TypeOK
    ClosedIsSettled
CHECK_DEADLOCK FALSE
