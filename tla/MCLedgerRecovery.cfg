CONSTANTS
    Planners = {p1, p2, p3}
    Indices <- MCIndices
    JobCounts = {2, 3, 4}
    NamespaceStart = 22
    NamespaceEnd = 43
    CampaignSpan = 10
    JobSpan = 3
    MaxRows = 2
    Offsets <- SparseProbes
    PostSlots = 3
    Checkpoints <- Watched
    Instants <- SomeInstants
    Barrier <- MinusBarrier
    Bound <- MinusBound
    BoundDeadline <- MinusBoundDeadline
    CancelDeadline <- MinusCancelDeadline
    RequestTimeout = 5
    DeleteTimeout = 125
    OverloadStart = 185
    OverloadEnd = 305
    PostStart = 400
    PostEnd = 580
    RpcTimeout = 30
    LogInterval = 10
    MetricSettle = 15
    CounterSettle = 30
    GreenMax = 34
    AmberMax = 55
    MaxFaults = 1
SYMMETRY Symmetry
SPECIFICATION MCSpec
INVARIANTS NeverRecycled RowsNeverShared ValidIsExclusive RecoveryIsChronological UnauthorizedLoadIsReported CleanCycleIsMeasured
CHECK_DEADLOCK FALSE
