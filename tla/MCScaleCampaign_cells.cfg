CONSTANTS
    Campaigns = {c1}
    e1 = e1
    e2 = e2
    Endpoints = {e1, e2}
    Active <- TwoCells
    Batches = 2
    LastSent = 1
    LastWanted = 1
    NoOwner = NoOwner
SPECIFICATION FairSpec
INVARIANTS BarrierClosedInTime CompletedUndisturbed LeftoversReported
PROPERTIES CampaignEnds
CHECK_DEADLOCK FALSE
