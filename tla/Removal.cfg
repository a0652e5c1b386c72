SPECIFICATION FairRemoval
CONSTANTS
    Works = {w1, w2}
    PurgeOrder <- MCPurgeOrder
    LivePlans = FALSE
    LateConsents = FALSE
    LateRequests = FALSE
    MaxIntakes = 1
    MaxFaults = 1
INVARIANTS QuietWhilePurging RemovedIsEmpty
PROPERTY
    RequestedIsRemoved
CHECK_DEADLOCK FALSE
