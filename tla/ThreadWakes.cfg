\* Two wakes of one operation, beside one message, a stop, and two resets, quits or crashes.
CONSTANTS
    w1 = w1
    w2 = w2
    Slot = {1, 2}
    MaxSends = 1
    MaxGoals = 0
    Budgets = {0}
    NoProgressLimit = 1
    InfraLimit = 1
    MaxTimers = 0
    Wake = {w1, w2}
    Keyed = {w1, w2}
    NoWake = NoWake
    MaxStops = 1
    MaxRestarts = 2
SPECIFICATION FairSpec
INVARIANTS
    WakesCarried
    OnePendingWake
    PromptedOncePerLife
PROPERTIES
    WakeSettles
CHECK_DEADLOCK FALSE
