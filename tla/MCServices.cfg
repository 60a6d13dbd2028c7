\* The two parts share their model values, so that one symmetry serves both.
CONSTANTS
    ActionIds = {i1, i2}
    Targets = {s1, s2}
    NoTarget = NoTarget
    Window = 1
    Cooldown = 0
    TargetLimit = 2
    GlobalLimit = 2
    MaxTime = 0
    p1 = p1
    p2 = p2
    c1 = c1
    c2 = c2
    Procs = {p1, p2}
    Calls = {c1, c2}
    ProcOf <- OwnProcesses
    Recons = {r1}
    NoAction = NoAction
    Ids = {i1, i2}
    Brokers = {s1, s2}
    Nothing = Nothing
    Payloads = {good, other}
    Malformed = {}
    BatchLimit = 2
    BudgetLimit = 1
    Faults = TRUE
    MaxSends = 2
SYMMETRY Symmetry
SPECIFICATION ServicesSpec
INVARIANTS Coordination AtMostOnceDispatch TargetExclusive AuditTrail SettledIsTrue
INVARIANTS UndeliveredKeepsLock AtMostOnceInference OneVerdict SeenIsJournaled BudgetBalanced
PROPERTIES ReleaseIsSafe ImplementsExclusiveRemediation
CHECK_DEADLOCK FALSE
