SPECIFICATION GuardSpec
CONSTANTS
    e1 = e1
    e2 = e2
    n1 = n1
    n2 = n2
    r1 = r1
    r2 = r2
    Experiments <- TwoExperiments
    Npus <- TwoNpus
    Runs <- TwoRuns
    Launches <- SharingSomething
    Steps = 2
    Samples = 2
    AuditEvery = 2
    MaxTrouble = 2
SYMMETRY Sym
CHECK_DEADLOCK FALSE
INVARIANTS
    NpuExclusive OrphanWasInvisible
    BreachSeenInTime ScratchRemovedLast
PROPERTY OverwriteNeedsRace
