\* One job, two single-slot workers that may stall for any length of time.
CONSTANTS
    Job = {j1}
    WebhookJobs = {j1}
    MaxRetries = 1
    Worker = {w1, w2}
    Concurrency = 1
    NoJob = NoJob
    LeasesHonoured = FALSE
SPECIFICATION FairSpec
CHECK_DEADLOCK FALSE
INVARIANTS
    TypeOK
    AttemptNumUnique
    DistinctAttempts
    RetryBound
    RunningHasHeartbeat
    CompletedHasDelivery
    OncePerAttempt
PROPERTY
    EventuallySettled
