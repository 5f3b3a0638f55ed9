\* Can a terminal job lack its webhook delivery?
CONSTANTS
    Job = {j1}
    WebhookJobs = {j1}
    MaxRetries = 1
    Worker = {w1,w2}
    Concurrency = 1
    NoJob = NoJob
    LeasesHonoured = FALSE
SPECIFICATION Spec
CHECK_DEADLOCK FALSE
INVARIANT TerminalHasDelivery
SYMMETRY WorkerSymmetry
