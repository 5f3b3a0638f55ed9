\* Two drainers; claims do not overlap and heartbeats are in time.
CONSTANTS
    MaxItems = 2
    MaxRetries = 1
    RateLimit = 1
    MaxThrottles = 1
    Grain = 2
    MaxWait = 1
    MaxWindow = 2
    Drainer = {d1, d2}
    LeasesHonoured = TRUE
    ClaimsOverlap = FALSE
SPECIFICATION FairSpec
CHECK_DEADLOCK FALSE
INVARIANTS TypeOK RateHeld RetryBudget
PROPERTIES ImplementsFifo EveryItemSettles
