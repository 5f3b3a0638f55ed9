\* Two drainers whose claim statements may overlap.
CONSTANTS
    MaxItems = 2
    MaxRetries = 1
    RateLimit = 2
    MaxThrottles = 1
    Grain = 2
    MaxWait = 1
    MaxWindow = 2
    Drainer = {d1, d2}
    LeasesHonoured = TRUE
    ClaimsOverlap = TRUE
SPECIFICATION Spec
CHECK_DEADLOCK FALSE
INVARIANT OneInFlight
SYMMETRY DrainerSymmetry
