---------------------------- MODULE JobContract -----------------------------
(***************************************************************************)
(* What the scheduler promises the user about one job, with no workers,    *)
(* heartbeats or database in sight: it is executed while it is running and *)
(* once per try, it is retried at most MaxRetries times, it ends once, and *)
(* a completed job with a webhook has queued exactly one notification.     *)
(***************************************************************************)
EXTENDS Naturals

CONSTANTS MaxRetries, HasWebhook

VARIABLES
    status,      \* as the API shows it
    tries,       \* retries used up
    executions,  \* attempts in the job's history
    notices      \* webhook deliveries queued, per event

contract == <<status, tries, executions, notices>>

Init ==
    /\ status = "absent"
    /\ tries = 0
    /\ executions = 0
    /\ notices = [completed |-> 0, failed |-> 0]

Move(from, to) == status = from /\ status' = to

Submit == Move("absent", "pending") /\ UNCHANGED <<tries, executions, notices>>
Cancel == Move("pending", "cancelled") /\ UNCHANGED <<tries, executions, notices>>
Start == Move("pending", "running") /\ UNCHANGED <<tries, executions, notices>>

Execute ==
    /\ status = "running"
    /\ executions <= tries
    /\ executions' = executions + 1
    /\ UNCHANGED <<status, tries, notices>>

Retry ==
    /\ Move("running", "pending")
    /\ tries < MaxRetries
    /\ tries' = tries + 1
    /\ UNCHANGED <<executions, notices>>

\* Only an execution completes a job.
Complete ==
    /\ Move("running", "completed")
    /\ executions > 0
    /\ notices' = [notices EXCEPT !.completed = IF HasWebhook THEN 1 ELSE 0]
    /\ UNCHANGED <<tries, executions>>

\* A failure is announced when a worker reports it, and not when the reaper
\* gives up on a job whose workers went silent.
Fail ==
    /\ Move("running", "failed")
    /\ \/ HasWebhook /\ notices' = [notices EXCEPT !.failed = 1]
       \/ UNCHANGED notices
    /\ UNCHANGED <<tries, executions>>

Next == Submit \/ Cancel \/ Start \/ Execute \/ Retry \/ Complete \/ Fail

Spec == Init /\ [][Next]_contract

\* What this comes to for the user: MaxRetries retries at most, one execution
\* per try, a completion only after an execution, and one notification at most,
\* of the outcome the job has.
Promise ==
    /\ tries <= MaxRetries
    /\ executions <= tries + 1
    /\ status = "completed" => executions > 0
    /\ notices["completed"] = IF status = "completed" /\ HasWebhook THEN 1 ELSE 0
    /\ notices["failed"] \in IF status = "failed" /\ HasWebhook THEN {0, 1} ELSE {0}
=============================================================================
