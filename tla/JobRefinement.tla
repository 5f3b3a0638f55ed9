--------------------------- MODULE JobRefinement ----------------------------
(* JobLifecycle implements JobContract for each job, while leases are honoured. *)
EXTENDS JobLifecycle

Contract(j) == INSTANCE JobContract
    WITH HasWebhook <- j \in WebhookJobs,
         status <- status[j],
         tries <- retry_count[j],
         executions <- Len(attempts[j]),
         notices <- deliveries[j]

\* While the heartbeat timing holds, the workers, the reaper and their crashes
\* are invisible: each job's row, history and outbox follow the contract.
ImplementsContract ==
    /\ \A j \in Job : Contract(j)!Init
    /\ [][\A j \in Job : [Contract(j)!Next]_(Contract(j)!contract)]_vars

\* Every job keeps the contract's promise, whatever crashes and whichever calls fail.
PromiseKept == \A j \in Job : Contract(j)!Promise

\* The outcome of a job is final: no late write of a worker or of the reaper
\* reopens it, counts another retry, executes it or notifies the user again.
OutcomeFinal ==
    [][\A j \in Job : status[j] \in Terminal => UNCHANGED Contract(j)!contract]_vars
=============================================================================
