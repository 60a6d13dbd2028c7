CONSTANTS
    p1 = p1
    p2 = p2
    w1 = w1
    w2 = w2
    w3 = w3
    Procs = {p1, p2}
    Tasks = {w1, w2, w3}
    ProcOf <- ThreeTasks
    Plain = {executed}
    Completions = {reconciled}
    NoEvent = NoEvent
    Free = Free
    Stale = Stale
    MaxRecords = 3
    Batches = {m1, m2, m3}
    NoBatch = NoBatch
    MaxCommands = 1
    Nothing = Nothing
SPECIFICATION LiveSpec
INVARIANTS ChainIntact ReconciledOnce RepliesGoHome OneConclusion
PROPERTIES EveryAppendEnds ImplementsAppendLog EveryRequestEnds EveryTurnEnds
CHECK_DEADLOCK FALSE
