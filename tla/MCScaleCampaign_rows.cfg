CONSTANTS
    Campaigns = {c1}
    e1 = e1
    e2 = e2
    Endpoints = {e1}
    Active <- OneCell
    Batches = 2
    LastSent = 1
    LastWanted = 2
    NoOwner = NoOwner
SPECIFICATION Spec
INVARIANTS ArmedCellsAreAccepted
CHECK_DEADLOCK FALSE
