\* One child and its barrier; every decision, every stop and a restart.
CONSTANTS
    c1 = c1
    c2 = c2
    Child = {c1}
    Required = {c1}
    MaxBarriers = 1
    Group = {}
    Quorum = {1}
    Decision = {"continue_with_partial", "fail_parent", "retry_child", "cancel_parent"}
    UserCalls = {"cancel", "stop", "parent"}
    TurnBudget = TRUE
    MaxCrashes = 1
SPECIFICATION Spec
INVARIANTS
    TypeOK
    RunningIsExecuting
PROPERTIES
    CancelledStaysCancelled
    NoAnswerOverRequired
    WaitComesBack
    KeepsPromise
CHECK_DEADLOCK FALSE
