CONSTANTS
    e1 = e1
    c1 = c1
    c2 = c2
    s1 = s1
    Campaigns = {c1, c2}
    Endpoints = {e1}
    Active <- OneCell
    Batches = 1
    LastSent = 1
    LastWanted = 1
    NoOwner = NoOwner
    Sweeps = {s1}
    SweepCells = 1
SYMMETRY Symmetry
SPECIFICATION MCSpec
INVARIANTS EveryHolderOwnsTheLock CompletedSweepsAreClean
PROPERTIES ImplementsLock
CHECK_DEADLOCK FALSE
