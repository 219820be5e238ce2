\* Every table of three tasks and every set of claims, two slots, one "todo" slot.
CONSTANTS
    a = a
    b = b
    c = c
    Task = {a, b, c}
    TaskInfo <- MCTaskInfo
    ActiveStates = {"todo", "in_progress"}
    TerminalStates = {"done", "canceled"}
    ReviewStates = {"review"}
    MaxConcurrentAgents = 2
    StateLimit <- MCStateLimit
SPECIFICATION Spec
INVARIANTS
    TypeOK
    LoopMatchesSelection
    SelectionWithinLimits
    NoOvertaking
