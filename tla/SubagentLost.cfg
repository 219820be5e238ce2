\* A group of which both results are asked for, after one of the two was stopped.
CONSTANTS
    c1 = c1
    c2 = c2
    Child = {c1, c2}
    Required = {c2}
    MaxBarriers = 2
    Group <- BothChildren
    Quorum = {2}
    Decision = {}
    UserCalls = {"stop"}
    TurnBudget = FALSE
    MaxCrashes = 0
SPECIFICATION Spec
PROPERTIES
    SatisfiedByResults
CHECK_DEADLOCK FALSE
