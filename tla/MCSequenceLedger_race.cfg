CONSTANTS
    Planners = {p1, p2}
    Indices <- MCIndices
    JobCounts = {2}
    NamespaceStart = 22
    NamespaceEnd = 43
    CampaignSpan = 10
    JobSpan = 3
    MaxRows = 2
SPECIFICATION Spec
INVARIANTS ReservationsDisjoint
CHECK_DEADLOCK FALSE
