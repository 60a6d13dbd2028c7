CONSTANTS
    h1 = h1
    h2 = h2
    Hosts = {h1, h2}
    NoHost = NoHost
    MaxInc = 2
    MaxEvents = 3
    StoreFaults = TRUE
    ActionIds = {a1, a2}
    Targets = {t1}
    NoTarget = NoTarget
    Window = 5
    Cooldown = 3
    TargetLimit = 3
    GlobalLimit = 3
    MaxTime = 3
    Objects = {o1, o2}
    Calls = {c1, c2}
    Nobody = Nobody
    Freshness = 1
    MaxSetbacks = 1
SYMMETRY Symmetry
SPECIFICATION Spec
INVARIANTS OwnerIsClaimed OneSupervisor ClosedMeansStopped EvidenceStillHolds OneOutcome
PROPERTY ImplementsSessionLease
CHECK_DEADLOCK FALSE
