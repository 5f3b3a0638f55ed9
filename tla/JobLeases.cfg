\* Two jobs claimed in batches by one process, heartbeats in time.
CONSTANTS
    Job = {j1, j2}
    WebhookJobs = {j1}
    MaxRetries = 1
    Worker = {w1}
    Concurrency = 2
    NoJob = NoJob
    LeasesHonoured = TRUE
SPECIFICATION Spec
CHECK_DEADLOCK FALSE
INVARIANTS SingleRunner PromiseKept
PROPERTY ImplementsContract
