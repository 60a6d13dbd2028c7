CONSTANTS
    Sessions = {s1, s2}
    Reheal = reheal
    Duties = {d1, d2}
    Concurrency = 2
    MaxMessages = 2
    MaxAttempts = 2
    MaxTroubles = 1
    MaxMail = 2
    MaxTries = 1
    MaxMishaps = 1
    MaxCards = 1
    MaxClicks = 2
    MaxUpsets = 1
SPECIFICATION Spec
INVARIANTS OwedIsScheduled RunsAlone TickIsDone DuplicateHasCause AttemptsBounded OneVerdictPerCard
PROPERTIES EveryMessageSettles EveryMessageEnds EveryCardEnds
CHECK_DEADLOCK FALSE
