\* Two children, one of them required, waited for one by one or as a group of which one result is enough.
CONSTANTS
    c1 = c1
    c2 = c2
    Child = {c1, c2}
    Required = {c1}
    MaxBarriers = 2
    Group <- BothChildren
    Quorum = {1}
    Decision = {"detach_child"}
    UserCalls = {"stop"}
    TurnBudget = FALSE
    MaxCrashes = 1
SPECIFICATION Spec
PROPERTIES
    AnswersOnResults
    NoAnswerOverRequired
    KeepsPromise
CHECK_DEADLOCK FALSE
