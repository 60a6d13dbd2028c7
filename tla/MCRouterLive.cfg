CONSTANTS
    ActionIds = {a1}
    Targets = {t1}
    NoTarget = NoTarget
    Window = 2
    Cooldown = 1
    TargetLimit = 2
    GlobalLimit = 2
    MaxTime = 0
    p1 = p1
    p2 = p2
    c1 = c1
    c2 = c2
    Procs = {p1, p2}
    Calls = {c1}
    ProcOf <- OneCall
    Recons = {r1}
    NoAction = NoAction
SPECIFICATION FairSpec
PROPERTY RestartDelivers
