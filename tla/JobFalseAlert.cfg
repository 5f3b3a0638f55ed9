\* Can a job complete after its failure alert?
CONSTANTS
    Job = {j1}
    WebhookJobs = {j1}
    MaxRetries = 1
    Worker = {w1,w2}
    Concurrency = 1
    NoJob = NoJob
    LeasesHonoured = TRUE
SPECIFICATION Spec
CHECK_DEADLOCK FALSE
INVARIANT AlertMeansGivenUp
SYMMETRY WorkerSymmetry
