\* Two sends, two goals and a token budget; a stop, and a reset, quit or crash.
CONSTANTS
    w1 = w1
    w2 = w2
    Slot = {1, 2}
    MaxSends = 2
    MaxGoals = 2
    Budgets = {0, 2}
    NoProgressLimit = 1
    InfraLimit = 1
    MaxTimers = 1
    Wake = {}
    Keyed = {}
    NoWake = NoWake
    MaxStops = 1
    MaxRestarts = 1
SPECIFICATION Spec
INVARIANTS
    TypeOK
    ActiveIsInFlight
    UsageIsOfOwnTurns
    AnnouncedOnce
PROPERTIES
    OnlyUserReactivates
CHECK_DEADLOCK FALSE
