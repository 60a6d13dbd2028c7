CONSTANTS
    ActionIds = {a1, a2, a3}
    Targets = {t1, t2}
    NoTarget = NoTarget
    Window = 3
    Cooldown = 1
    TargetLimit = 2
    GlobalLimit = 2
    MaxTime = 3
    BudgetTargets = {b1, b2}
    Hour = 2
    DeepPerTarget = 1
    CoderPerTarget = 1
    DeepGlobal = 1
    MaxConcurrency = 2
    MaxClock = 3
    FailCap = 2
    MaxRows = 3
SYMMETRY Symmetry
SPECIFICATION Spec
INVARIANTS WindowBudget HourlyWithinTwice
PROPERTIES SettledForever SeriesSurvives
CHECK_DEADLOCK FALSE
