\* The code's constants, in seconds; heartbeat calls take up to one.
CONSTANTS
    HeartbeatInterval = 10
    LeaseTimeout = 20
    StaleCutoff = 30
    StartDelay = 0
    MaxLatency = 1
SPECIFICATION Spec
CHECK_DEADLOCK FALSE
INVARIANT ExclusiveDelivery
