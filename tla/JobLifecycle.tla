---------------------------- MODULE JobLifecycle ----------------------------
(***************************************************************************)
(* A job's row in Postgres, the worker goroutines that run it and the      *)
(* reaper that rescues it: internal/scheduler/{worker,reaper}.go over      *)
(* internal/infrastructure/postgres/{job_repo,attempt_repo}.go.            *)
(*                                                                         *)
(* Every database call is one step, may fail, and interleaves with every   *)
(* other process.  A worker process may crash between any two steps.  Time *)
(* is abstract: scheduled_at is "due or not", a job_heartbeats row is      *)
(* "fresh" or "stale" for the reaper's cutoff, and a row may turn stale at *)
(* any moment, because a goroutine or a database call may stall for any    *)
(* length of time.  LeasesHonoured = TRUE restricts that to rows nobody is *)
(* working on: the timing the heartbeat constants are chosen for.          *)
(*                                                                         *)
(* Definitions named Faulty... are deliberate bugs; each shows that some   *)
(* property below would notice it.                                         *)
(***************************************************************************)
EXTENDS Naturals, Sequences, FiniteSets

CONSTANTS
    Job,             \* job ids
    WebhookJobs,     \* the jobs created with a webhook_url
    MaxRetries,      \* jobs.max_retries
    Worker,          \* scheduler processes
    Concurrency,     \* WORKER_COUNT: capacity of a worker's semaphore
    NoJob,           \* the job of a goroutine slot that is not in use
    LeasesHonoured   \* timing assumption, see GoStale

ASSUME JobAssumption == WebhookJobs \subseteq Job /\ NoJob \notin Job
ASSUME RetriesAssumption == MaxRetries \in Nat
ASSUME WorkerAssumption == IsFiniteSet(Worker) /\ Concurrency \in Nat \ {0}
ASSUME TimingAssumption == LeasesHonoured \in BOOLEAN

VARIABLES
    status,       \* jobs.status ("absent": no such row yet)
    retry_count,  \* jobs.retry_count
    due,          \* jobs.scheduled_at <= NOW()
    heartbeat,    \* the job_heartbeats row: "none", "fresh" or "stale"
    attempts,     \* attempt_num of the job_attempts rows, in order of insertion
    deliveries,   \* webhook_deliveries rows inserted for a job, per event
    charges,      \* job_execution rows of a job in the credit ledger
    alerts,       \* failure alerts handed to the notifier for a job
    beats,        \* jobs with an UpdateHeartbeat statement under way
    pc,           \* the call each goroutine slot makes next
    held,         \* the job it runs
    snapshot,     \* that job's RetryCount as Claim returned it
    outcome,      \* what became of the execution
    fenced        \* Cause(execCtx) = errLeaseLost

vars == <<status, retry_count, due, heartbeat, attempts, deliveries, charges,
          alerts, beats, pc, held, snapshot, outcome, fenced>>
row == <<status, retry_count, due, heartbeat>>
effects == <<deliveries, charges, alerts>>
run == <<pc, held, snapshot, outcome, fenced>>

Terminal == {"completed", "failed", "cancelled"}
Status == {"pending", "running"} \cup Terminal
Event == {"completed", "failed"}
Slot == Worker \X (1..Concurrency)

\* Each value names the call that a runJob goroutine makes next.
PC == {"idle", "attempt", "gate", "execute", "lease", "deduct", "close",
       "outcome", "alert"}

\* "ok": HTTP 200; "fail": anything else; "denied": no credits, never executed.
Outcome == {"none", "ok", "fail", "denied"}

Init ==
    /\ status = [j \in Job |-> "absent"]
    /\ retry_count = [j \in Job |-> 0]
    /\ due = [j \in Job |-> FALSE]
    /\ heartbeat = [j \in Job |-> "none"]
    /\ attempts = [j \in Job |-> <<>>]
    /\ deliveries = [j \in Job |-> [e \in Event |-> 0]]
    /\ charges = [j \in Job |-> 0]
    /\ alerts = [j \in Job |-> 0]
    /\ beats = {}
    /\ pc = [s \in Slot |-> "idle"]
    /\ held = [s \in Slot |-> NoJob]
    /\ snapshot = [s \in Slot |-> 0]
    /\ outcome = [s \in Slot |-> "none"]
    /\ fenced = [s \in Slot |-> FALSE]

-----------------------------------------------------------------------------
(* The API server *)

\* A job is inserted, to run now or later: by POST /jobs, by a replay of a
\* failed job (a fresh row with its own id), or by the cron dispatcher.
Create(j) ==
    /\ status[j] = "absent"
    /\ status' = [status EXCEPT ![j] = "pending"]
    /\ \E d \in BOOLEAN : due' = [due EXCEPT ![j] = d]
    /\ UNCHANGED <<retry_count, heartbeat, attempts, effects, beats, run>>

\* Bug: a job that is being executed can be cancelled too.
FaultyCancel(j) ==
    /\ status[j] \in {"pending", "running"}
    /\ status' = [status EXCEPT ![j] = "cancelled"]
    /\ UNCHANGED <<retry_count, due, heartbeat, attempts, effects, beats, run>>

\* DELETE /jobs/:id succeeds only on a pending row.
Cancel(j) ==
    /\ status[j] = "pending"
    /\ status' = [status EXCEPT ![j] = "cancelled"]
    /\ UNCHANGED <<retry_count, due, heartbeat, attempts, effects, beats, run>>

-----------------------------------------------------------------------------
(* Passage of time *)

BecomeDue(j) ==
    /\ status[j] = "pending"
    /\ ~due[j]
    /\ due' = [due EXCEPT ![j] = TRUE]
    /\ UNCHANGED <<status, retry_count, heartbeat, attempts, effects, beats, run>>

\* The heartbeat row of j falls behind the reaper's cutoff.  Under
\* LeasesHonoured that happens only once every goroutine that claimed j has
\* finished, crashed or fenced itself off.
GoStale(j) ==
    /\ heartbeat[j] = "fresh"
    /\ LeasesHonoured => \A s \in Slot : held[s] # j
    /\ heartbeat' = [heartbeat EXCEPT ![j] = "stale"]
    /\ UNCHANGED <<status, retry_count, due, attempts, effects, beats, run>>

-----------------------------------------------------------------------------
(* Worker.processBatch *)

Claimable == {j \in Job : status[j] = "pending" /\ due[j]}
FreeSlots(w) == {s \in {w} \X (1..Concurrency) : pc[s] = "idle"}

\* How the claimed jobs reach goroutines.  A job of the batch that gets no
\* slot is one whose row was lost: the query failed after its commit, or the
\* row stream broke off (Claim does not look at rows.Err()).
Assignments(w, batch) ==
    {f \in [FreeSlots(w) -> batch \cup {NoJob}] :
        \A s, t \in FreeSlots(w) : f[s] = f[t] /\ f[s] # NoJob => s = t}

\* Bug: the claim leaves the sidecar to the first heartbeat.
FaultySeeded(batch) == heartbeat
Seeded(batch) == [j \in Job |-> IF j \in batch THEN "fresh" ELSE heartbeat[j]]

\* One UPDATE turns a batch of due jobs to running and seeds their heartbeat
\* rows.  Which due jobs, up to the free slots, depends on the rows other
\* transactions hold locked (SKIP LOCKED).
Claim(w) ==
    \E batch \in SUBSET Claimable :
        /\ batch # {}
        /\ Cardinality(batch) <= Cardinality(FreeSlots(w))
        /\ status' = [j \in Job |-> IF j \in batch THEN "running" ELSE status[j]]
        /\ heartbeat' = Seeded(batch)
        /\ \E f \in Assignments(w, batch) :
             LET Started(s) == s \in FreeSlots(w) /\ f[s] # NoJob
             IN  /\ pc' = [s \in Slot |-> IF Started(s) THEN "attempt" ELSE pc[s]]
                 /\ held' = [s \in Slot |-> IF Started(s) THEN f[s] ELSE held[s]]
                 /\ snapshot' = [s \in Slot |-> IF Started(s) THEN retry_count[f[s]]
                                                            ELSE snapshot[s]]
        /\ UNCHANGED <<retry_count, due, attempts, effects, beats, outcome, fenced>>

-----------------------------------------------------------------------------
(* Worker.runJob, one database or HTTP call per step *)

Goto(s, label) ==
    /\ pc' = [pc EXCEPT ![s] = label]
    /\ UNCHANGED <<held, snapshot, outcome, fenced>>

\* Bug: the semaphore slot is released before the run is over.
FaultyReturn(s) == Goto(s, "idle")
Return(s) ==
    /\ pc' = [pc EXCEPT ![s] = "idle"]
    /\ held' = [held EXCEPT ![s] = NoJob]
    /\ snapshot' = [snapshot EXCEPT ![s] = 0]
    /\ outcome' = [outcome EXCEPT ![s] = "none"]
    /\ fenced' = [fenced EXCEPT ![s] = FALSE]

\* Bug: a failed INSERT does not abort the run.
FaultyCreateAttempt(s) ==
    /\ pc[s] = "attempt"
    /\ attempts' \in {attempts, [attempts EXCEPT ![held[s]] =
                                    Append(@, snapshot[s] + 1)]}
    /\ Goto(s, "gate")
    /\ UNCHANGED <<row, effects, beats>>

\* The attempt row is opened first; when that fails runJob gives up and leaves
\* the job running for the reaper.  An INSERT whose reply is lost may still
\* have been committed.
CreateAttempt(s) ==
    LET opened == [attempts EXCEPT ![held[s]] = Append(@, snapshot[s] + 1)]
    IN  /\ pc[s] = "attempt"
        /\ \/ attempts' = opened /\ Goto(s, "gate")
           \/ attempts' \in {attempts, opened} /\ Return(s)
        /\ UNCHANGED <<row, effects, beats>>

\* Gate 2, HasCredits: an error counts as yes; a no fails the job unexecuted.
CheckCredits(s) ==
    /\ pc[s] = "gate"
    /\ \/ Goto(s, "execute")
       \/ /\ pc' = [pc EXCEPT ![s] = "close"]
          /\ outcome' = [outcome EXCEPT ![s] = "denied"]
          /\ UNCHANGED <<held, snapshot, fenced>>
    /\ UNCHANGED <<row, attempts, effects, beats>>

\* The HTTP call ends, by an answer, a timeout or a cancellation.
Execute(s) ==
    /\ pc[s] = "execute"
    /\ pc' = [pc EXCEPT ![s] = "lease"]
    /\ \E o \in {"ok", "fail"} : outcome' = [outcome EXCEPT ![s] = o]
    /\ UNCHANGED <<row, attempts, effects, beats, held, snapshot, fenced>>

\* The heartbeat goroutine runs from the credit gate until runJob returns.
Heartbeating(s) ==
    /\ pc[s] \in {"execute", "lease", "deduct", "close", "outcome", "alert"}
    /\ outcome[s] # "denied"
    /\ ~fenced[s]

\* UpdateHeartbeat upserts the row of a job that is running, whoever runs it,
\* and reports no error when it is not.  The statement reads jobs.status in its
\* snapshot without locking the row, so by the time it writes, the job may have
\* left 'running'.  The write may also be lost, with its connection or process.
UpdateHeartbeat(s) ==
    /\ Heartbeating(s)
    /\ status[held[s]] = "running"
    /\ beats' = beats \cup {held[s]}
    /\ UNCHANGED <<row, attempts, effects, run>>

WriteHeartbeat(j) ==
    /\ j \in beats
    /\ beats' = beats \ {j}
    /\ heartbeat' \in {heartbeat, [heartbeat EXCEPT ![j] = "fresh"]}
    /\ UNCHANGED <<status, retry_count, due, attempts, effects, run>>

\* UpdateHeartbeat has failed for heartbeatLeaseTimeout: the execution context
\* is cancelled.  Past the lease check this no longer changes the run.
LoseLease(s) ==
    /\ Heartbeating(s)
    /\ pc[s] \in {"execute", "lease"}
    /\ fenced' = [fenced EXCEPT ![s] = TRUE]
    /\ UNCHANGED <<row, attempts, effects, beats, pc, held, snapshot, outcome>>

\* A fenced run relinquishes the job without writing anything.
CheckLease(s) ==
    /\ pc[s] = "lease"
    /\ IF fenced[s] THEN Return(s) ELSE Goto(s, "deduct")
    /\ UNCHANGED <<row, attempts, effects, beats>>

\* One credit per execution; a failed deduction is only logged.
Deduct(s) ==
    /\ pc[s] = "deduct"
    /\ charges' \in {charges, [charges EXCEPT ![held[s]] = @ + 1]}
    /\ Goto(s, "close")
    /\ UNCHANGED <<row, attempts, deliveries, alerts, beats>>

\* closeAttempt fills in completed_at, status and error of the attempt row,
\* which no other step reads; a failure is only logged.
CompleteAttempt(s) ==
    /\ pc[s] = "close"
    /\ Goto(s, "outcome")
    /\ UNCHANGED <<row, attempts, effects, beats>>

\* Bug: the delivery is enqueued after the transaction has committed.
FaultyEnqueue(j, e) ==
    deliveries' \in {deliveries, [deliveries EXCEPT ![j][e] = @ + 1]}
Enqueue(j, e) ==
    deliveries' = IF j \in WebhookJobs
                  THEN [deliveries EXCEPT ![j][e] = @ + 1] ELSE deliveries

\* The outcome UPDATEs match on the id alone, and delete the heartbeat row.
\* The webhook delivery is inserted in the transaction of a terminal one.
TerminalWrite(j, e) ==
    /\ status' = [status EXCEPT ![j] = e]
    /\ heartbeat' = [heartbeat EXCEPT ![j] = "none"]
    /\ Enqueue(j, e)
    /\ UNCHANGED <<retry_count, due>>

\* Bug: the retry is not counted.
FaultyRequeueWrite(j) ==
    /\ status' = [status EXCEPT ![j] = "pending"]
    /\ due' = [due EXCEPT ![j] = FALSE]
    /\ heartbeat' = [heartbeat EXCEPT ![j] = "none"]
    /\ UNCHANGED <<retry_count, deliveries>>
RequeueWrite(j) ==
    /\ status' = [status EXCEPT ![j] = "pending"]
    /\ retry_count' = [retry_count EXCEPT ![j] = @ + 1]
    /\ due' = [due EXCEPT ![j] = FALSE]
    /\ heartbeat' = [heartbeat EXCEPT ![j] = "none"]
    /\ UNCHANGED deliveries

\* Bug: off by one.
FaultyRetriesLeft(n) == n <= MaxRetries
\* job.RetryCount < job.MaxRetries
RetriesLeft(n) == n < MaxRetries

Complete(s) ==
    /\ pc[s] = "outcome" /\ outcome[s] = "ok"
    /\ TerminalWrite(held[s], "completed") \/ UNCHANGED <<row, deliveries>>
    /\ Return(s)
    /\ UNCHANGED <<attempts, charges, alerts, beats>>

\* The retry decision is taken on the snapshot, not on the row.
Reschedule(s) ==
    /\ pc[s] = "outcome" /\ outcome[s] = "fail" /\ RetriesLeft(snapshot[s])
    /\ RequeueWrite(held[s]) \/ UNCHANGED <<row, deliveries>>
    /\ Return(s)
    /\ UNCHANGED <<attempts, charges, alerts, beats>>

\* Out of retries, or of credits.  The alert follows even when the UPDATE failed.
Fail(s) ==
    /\ pc[s] = "outcome"
    /\ \/ outcome[s] = "denied"
       \/ outcome[s] = "fail" /\ ~RetriesLeft(snapshot[s])
    /\ TerminalWrite(held[s], "failed") \/ UNCHANGED <<row, deliveries>>
    /\ Goto(s, "alert")
    /\ UNCHANGED <<attempts, charges, alerts, beats>>

AlertJobFailure(s) ==
    /\ pc[s] = "alert"
    /\ alerts' = [alerts EXCEPT ![held[s]] = @ + 1]
    /\ Return(s)
    /\ UNCHANGED <<row, attempts, deliveries, charges, beats>>

\* The process dies, or is stopped: its goroutines end where they are.
Crash(w) ==
    /\ \E s \in Slot : s[1] = w /\ pc[s] # "idle"
    /\ LET Reset(f, v) == [s \in Slot |-> IF s[1] = w THEN v ELSE f[s]]
       IN  /\ pc' = Reset(pc, "idle")
           /\ held' = Reset(held, NoJob)
           /\ snapshot' = Reset(snapshot, 0)
           /\ outcome' = Reset(outcome, "none")
           /\ fenced' = Reset(fenced, FALSE)
    /\ UNCHANGED <<row, attempts, effects, beats>>

-----------------------------------------------------------------------------
(* Reaper.reap *)

\* Bug: the cutoff is not older than the interval between heartbeats.
FaultyStale(j) == status[j] = "running"
Stale(j) == status[j] = "running" /\ heartbeat[j] # "fresh"

\* Bug: a rescue by the reaper is not counted.
FaultyRetried(S) == retry_count
Retried(S) == [j \in Job |-> IF j \in S THEN retry_count[j] + 1 ELSE retry_count[j]]

\* Stale jobs with retries left go back to pending with their old scheduled_at.
\* LIMIT and SKIP LOCKED may leave some for the next cycle.
RescheduleStale ==
    \E S \in SUBSET {j \in Job : Stale(j) /\ retry_count[j] < MaxRetries} :
        /\ S # {}
        /\ status' = [j \in Job |-> IF j \in S THEN "pending" ELSE status[j]]
        /\ retry_count' = Retried(S)
        /\ heartbeat' = [j \in Job |-> IF j \in S THEN "none" ELSE heartbeat[j]]
        /\ UNCHANGED <<due, attempts, effects, beats, run>>

\* Bug: off by one.
FaultyExhausted(j) == retry_count[j] > MaxRetries
Exhausted(j) == retry_count[j] >= MaxRetries

\* The others fail: no webhook delivery, no alert.
FailStale ==
    \E S \in SUBSET {j \in Job : Stale(j) /\ Exhausted(j)} :
        /\ S # {}
        /\ status' = [j \in Job |-> IF j \in S THEN "failed" ELSE status[j]]
        /\ heartbeat' = [j \in Job |-> IF j \in S THEN "none" ELSE heartbeat[j]]
        /\ UNCHANGED <<retry_count, due, attempts, effects, beats, run>>

-----------------------------------------------------------------------------
RunStep(s) ==
    \/ CreateAttempt(s) \/ CheckCredits(s) \/ Execute(s) \/ CheckLease(s)
    \/ Deduct(s) \/ CompleteAttempt(s) \/ Complete(s) \/ Reschedule(s)
    \/ Fail(s) \/ AlertJobFailure(s)

Next ==
    \/ \E j \in Job : Create(j) \/ Cancel(j) \/ BecomeDue(j) \/ GoStale(j)
                    \/ WriteHeartbeat(j)
    \/ \E w \in Worker : Claim(w) \/ Crash(w)
    \/ \E s \in Slot : RunStep(s) \/ UpdateHeartbeat(s) \/ LoseLease(s)
    \/ RescheduleStale
    \/ FailStale

Spec == Init /\ [][Next]_vars

\* Goroutines run, workers poll, the reaper cycles and time passes.  Nothing is
\* assumed of crashes, of failing calls, or of the heartbeats' punctuality; a
\* row is bound to turn stale only when no goroutine is left to refresh it.
Fairness ==
    /\ \A s \in Slot : WF_vars(RunStep(s))
    /\ \A w \in Worker : WF_vars(Claim(w))
    /\ WF_vars(RescheduleStale) /\ WF_vars(FailStale)
    /\ \A j \in Job :
         /\ WF_vars(BecomeDue(j))
         /\ WF_vars(GoStale(j) /\ \A s \in Slot : held[s] # j)

FairSpec == Spec /\ Fairness
-----------------------------------------------------------------------------
(* Correctness properties *)

\* Every variable keeps its type; a slot is idle exactly when it has no job.
\* The job table and its sidecar, the append-only records, the goroutines.
TableTypeOK ==
    /\ status \in [Job -> Status \cup {"absent"}]
    /\ retry_count \in [Job -> Nat]
    /\ due \in [Job -> BOOLEAN]
    /\ heartbeat \in [Job -> {"none", "fresh", "stale"}]
    /\ beats \subseteq Job
HistoryTypeOK ==
    /\ attempts \in [Job -> Seq(Nat)]
    /\ deliveries \in [Job -> [Event -> Nat]]
    /\ charges \in [Job -> Nat]
    /\ alerts \in [Job -> Nat]
RunTypeOK ==
    /\ pc \in [Slot -> PC]
    /\ held \in [Slot -> Job \cup {NoJob}]
    /\ snapshot \in [Slot -> Nat]
    /\ outcome \in [Slot -> Outcome]
    /\ fenced \in [Slot -> BOOLEAN]
    /\ \A s \in Slot : pc[s] = "idle" <=> held[s] = NoJob
TypeOK == TableTypeOK /\ HistoryTypeOK /\ RunTypeOK

\* However runs stall, crash and overlap, an attempt number of a job is used
\* for one attempt row only.  job_attempts has no such constraint since it is
\* partitioned by started_at: the numbers come from RetryCount + 1 of a claim
\* snapshot, and Replay and the docs count on them being unique.
AttemptNumUnique ==
    \A j \in Job : \A a, b \in 1..Len(attempts[j]) :
        attempts[j][a] = attempts[j][b] => a = b

\* Two goroutines that hold the same job got it from claims separated by an
\* increment of retry_count: no two runs ever execute the same attempt.
DistinctAttempts ==
    \A s, t \in Slot :
        /\ s # t
        /\ held[s] # NoJob
        /\ held[s] = held[t]
        => snapshot[s] # snapshot[t]

\* Repeated crashes and stalled workers cannot retry a job for ever: each of
\* the MaxRetries attempts that may be rescheduled is rescheduled at most twice,
\* by its own worker and by the reaper.  And every attempt in the history but the
\* first is one of these retries, so the endpoint is called 2 * MaxRetries + 1
\* times at most.
RetryBound ==
    \A j \in Job : /\ retry_count[j] <= 2 * MaxRetries
                   /\ Len(attempts[j]) <= retry_count[j] + 1

\* A running job always has a heartbeat row, the one the reaper judges it by,
\* although late outcome writes of earlier owners delete the row by job id.
RunningHasHeartbeat ==
    \A j \in Job : status[j] = "running" => heartbeat[j] # "none"

\* The outbox row is committed with the outcome: no crash separates them.
CompletedHasDelivery ==
    \A j \in WebhookJobs : status[j] = "completed" => deliveries[j]["completed"] > 0

\* A user pays at most once for each attempt in the job's history, and hears of it
\* at most once: by one webhook delivery, of whichever event, and by one alert.
OncePerAttempt ==
    \A j \in Job : /\ charges[j] <= Len(attempts[j])
                   /\ deliveries[j]["completed"] + deliveries[j]["failed"] <= Len(attempts[j])
                   /\ alerts[j] <= Len(attempts[j])

\* The lease's purpose: a job is never in the hands of two goroutines at once.
\* It depends on timing, so it is checked for LeasesHonoured only.
SingleRunner ==
    \A s, t \in Slot : held[s] = held[t] /\ held[s] # NoJob => s = t

\* "retry_count is not over-incremented due to multiple workers trying to
\* re-schedule same jobs" (comment of Reschedule).
RetryWithinMax == \A j \in Job : retry_count[j] <= MaxRetries

\* "A crash can never leave a terminal job without its outbound delivery"
\* (comment of terminalWithWebhook's callers).
TerminalHasDelivery ==
    \A j \in WebhookJobs : status[j] \in Event => deliveries[j][status[j]] > 0

\* An alert means that the scheduler has given up on the job: it never
\* completes after that.
AlertMeansGivenUp == \A j \in Job : alerts[j] > 0 => status[j] # "completed"

\* Every job created is in the end completed, failed or cancelled for good,
\* whatever crashes and whichever calls fail.
EventuallySettled ==
    \A j \in Job : status[j] # "absent" ~> [](status[j] \in Terminal)
=============================================================================
