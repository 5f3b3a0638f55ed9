# A TLA+ model of the Fliq job scheduler

Fliq executes HTTP jobs: now, later, on a cron schedule, or one at a time
through rate-limited buffers. An API server writes rows in Postgres; any number
of scheduler processes claim and execute them. All coordination goes through
the database. This directory models that coordination, checks it with TLC and
proves the central facts with TLAPS.

## Inventory

| Part | State | Operations | What makes it hard |
|---|---|---|---|
| Jobs (`postgres/job_repo.go`, `usecase/job.go`) | `jobs`, sidecar `job_heartbeats` | create, claim, heartbeat, complete, fail, reschedule, reap, cancel, replay | several processes write one row; outcome writes match on the id alone |
| Worker (`scheduler/worker.go`) | semaphore, one goroutine and one heartbeat goroutine per job | poll, `runJob`, heartbeat | crash or failure between any two calls; decisions on a claim-time snapshot |
| Reaper (`scheduler/reaper.go`) | none | reschedule stale, fail stale | races a slow but living worker |
| Attempts (`postgres/attempt_repo.go`) | `job_attempts`, partitioned by month | open, close | uniqueness of numbers is no longer a constraint |
| Webhook outbox (`webhook_dispatcher.go`, `postgres/webhook_delivery.go`) | `webhook_deliveries` | insert with the outcome, claim, mark | reclaim after a timeout races a late answer |
| Alerts (`scheduler/alert.go`, `usecase/alert.go`) | `alert_channels` | notify, verify, enable | best effort, after the outcome write |
| Buffers (`drainer.go`, `buffer_reaper.go`, `postgres/buffer_repo.go`) | `buffers` (token bucket), `buffer_items` | push, claim head, outcome, 429, reap, pause | strict order and rate limit across replicas |
| Credits (`postgres/billing_repo.go`, `usecase/billing.go`) | `user_credits`, ledger | gate, deduct, daily refresh, top up | check then act; redelivered Stripe events; low-balance latch |
| Schedules (`dispatcher.go`, `postgres/schedule_repo.go`) | `schedules` | claim and fire, pause, delete | a batch in one transaction |
| Listing (`usecase/*.go`) | cursor | pages | off-by-one at the page boundary |
| Partitions (`partition.go`, `partition_repo.go`) | monthly partitions, DEFAULT | create ahead, drop | a month that DEFAULT has rows of cannot get its partition |
| Signing secrets (`postgres/signing.go`) | `user_signing_secrets` | get or create, rotate | one active secret, enforced by an index |
| Tokens, rate limiting, statistics, health | one table or map each | check, count | small |

What the parts owe the user: a job is run, retried a bounded number of times and
settles; an attempt is recorded and charged once; the outcome and its webhook are
one fact; while the heartbeat timing holds nobody can tell that there are several
workers. `PROJECT.json` lists the hazards line by line.

## Modules

| Module | Contents |
|---|---|
| `JobLifecycle` | jobs table, sidecar, attempts, workers, heartbeats, reaper |
| `JobContract`, `JobRefinement` | what one job looks like to its user, without workers, and the mapping to it |
| `JobLease` | the heartbeat loop of one run against the reaper's cutoff, with clocks |
| `BufferDelivery` | one buffer: token bucket, items, drainers, reaper |
| `FifoContract`, `BufferRefinement` | a queue with one item in flight, and the mapping to it |
| `Credits` | one user's balance, latch, ledger, gates, charges, refresh, purchases |
| `AlertChannels` | one user's channels, their confirmation, the notifier |
| `Account` | the two together: a low-balance warning sends the notifier to the channels |
| `Schedules` | schedules, their API calls, the dispatchers' transaction |
| `WebhookOutbox` | deliveries and dispatchers |
| `SigningSecrets` | get-or-create and rotation |
| `Listing` | a client that reads one of the seven lists page by page |
| `Partitions` | monthly partitions and their maintainers |
| `Services` | the lease, the outbox, secrets, lists and partitions side by side |
| `System` | the services, credits, channels and schedules, for TLC one at a time |
| `JobLifecycleProofs`, `JobBoundsProofs` | theorems on jobs, whatever stalls: what holds of a run, and how often things happen at most |
| `JobRefinementProofs` | theorems on jobs while leases are honoured |
| `BufferProofs`, `BufferBoundsProofs` | theorems on buffers, and how often an item is retried at most |
| `AccountProofs` | theorems on credits, the alert channels and `Account` |
| `ScheduleProofs` | theorems on schedules |
| `ServicesProofs` | theorems on the outbox, the lease, secrets, partitions and lists, and on `Services` |
| `MCJobLifecycle`, `MCJobLease`, `MCBufferDelivery` | instances for TLC |

### JobLifecycle

Each SQL statement or transaction is one step, because Postgres makes it so;
everything between statements interleaves. A slot `<<w, i>>` is a place in worker
`w`'s semaphore. Its `pc` names the call `runJob` makes next; `snapshot` is the
`RetryCount` the claim returned, from which the attempt number and the retry
decision are taken. Every call may fail, and where a lost reply matters
(claims, attempt inserts) the statement may have committed all the same.

- `Claim` turns any set of due jobs to running, up to the free slots: the row
  locks of other transactions (`SKIP LOCKED`) decide which. A claimed job may get
  no goroutine, since `Claim` does not look at `rows.Err()`.
- `UpdateHeartbeat`/`WriteHeartbeat` are two steps: the statement reads
  `jobs.status` without locking the row, so it can write after the job has left
  `running`.
- `Complete`, `Reschedule`, `Fail` write by id alone, as the code does.
- `Crash` ends a process's goroutines where they are. Graceful shutdown is the
  same: `main` does not wait for the goroutines.
- Time is abstract. `due` is `scheduled_at <= NOW()`; a heartbeat row is fresh or
  stale for the reaper's cutoff and may turn stale at any moment.
  `LeasesHonoured = TRUE` allows that only when no goroutine holds the job, which
  is what the 10s/20s/30s constants aim at.

Left out: payloads, headers, signing, metrics and logs; the columns that closing
an attempt fills in, which no step reads back; the order of claims
(`ORDER BY scheduled_at`), which `SKIP LOCKED` makes advisory; the marshalling
failure of a webhook payload, which has only strings and integers in it.

### JobLease

The timing that `LeasesHonoured` takes for granted. Time moves in whole units and
the variables are ages: of the heartbeat row, of `lastSuccess`, of the call under
way. The ticker buffers one tick, as Go's does. A call writes the row at some point
and replies later, or fails, before or after the write, within `MaxLatency`. The
lease is looked at only when a call fails. The loop takes a buffered tick without
delay; scheduling delays of the goroutine count as latency. The model ends when the
HTTP call does: what a run does past its lease check is `JobLifecycle`'s subject.

### BufferDelivery

The outcome writes, the heartbeat and the reaper are those of jobs in small. The
claim is different: `ClaimNextItem` is one statement of several CTEs, and two such
statements interleave inside. So it is two steps: `LockCandidate` reads the
snapshot (nothing running, oldest pending item, `SKIP LOCKED`) and locks the item;
`ClaimNextItem` waits for the buffer row, takes a token and turns the item to
running. `ClaimsOverlap = FALSE` leaves out a second claim between the two. A 429
reschedules whatever the retry count. `Drain` is a poll that finds the buffer active
and starts a goroutine; a pause is not looked at again until that goroutine ends.

The bucket refills continuously in the code. Here time for it passes in units of
`1/Grain` of a second and tokens are counted in units of `1/Grain` of a token, so that
all quantities are integers; the proofs hold for every `Grain`. `NOW()` is the start of
the statement. A claim that waited (`waited`) refills up to its start, and
`last_refill_at` goes back there if a later one was granted first. `window` and `granted`
watch the bucket: claims are counted from any tick on, for up to `MaxWindow` units.

`FifoContract` has one variable, the status of the items: they are pushed at the
tail, and only the oldest that has not settled can run, alone.

### Credits, AlertChannels, Account

`HasCredits` (with the daily refresh), `deduct` and `TopUp` are transactions on the
user's row and one step each. `executing` are the runs between gate and deduction;
`ProceedAnyway` is a gate whose query failed, which the code lets through. A run
whose lease is lost, or whose deduction fails, goes uncharged. `Crossed` is the
`RETURNING` expression that decides whether this deduction sees the crossing, the
latch is the column. `armed` remembers on which side of the threshold the balance
was when the latch was cleared. Of the ledger the model keeps the sum since the last
daily grant, and counts a grant row as what it does to the balance.

A checkout finds or creates the customer, opens a session, is paid (external), and
its event is delivered until acknowledged, possibly again: `TopUp` and `UpdatePlan`
are two steps and the handler may die at any point.

A channel's `SetEnabled(true)` is a read (`CheckVerified`) and a write (`Enable`). A
link can be followed until it expires. The notifier loads the enabled channels and
writes to them one by one, while they change.

### Schedules

`ClaimAndFire` is one transaction, in two steps: the claim, which locks rows, and
the loop with its commit or abort. A schedule moves only when its transaction
commits; API calls on a locked row wait. A job is its idempotency key, and a client
may have taken it. `Abort` is what happens then: see finding 6. `leaked` counts the
connections lost by error paths that skip the rollback, and a dispatcher needs one
for the transaction and one for the credit check. A statement that fails on the server
has ended the transaction there, so its row locks are gone even if the connection is
lost; an error in scanning a row would keep the locks, and is left out.

### WebhookOutbox, SigningSecrets, Listing, Partitions

- A dispatcher claims a batch, posts each delivery in a goroutine and waits for all.
  `timely` chooses at the start whether goroutines keep within the in-flight
  timeout. The outcome statements match on the id alone.
- Secrets are numbered; `Insert` is the partial unique index. A rotation that had to
  wait for another's row lock finds nothing to deactivate.
- A row of a list is its sort key. Jobs, schedules, a schedule's jobs, buffers and
  items take the cursor from the row that was kept back (`SentinelPage`); deliveries and
  the ledger from the last one shown (`LastRowPage`).
- A maintainer's pass creates the months ahead one statement at a time and then
  drops expired ones. DEFAULT takes what has no partition, and blocks the partition
  of a month it has rows of. `lapsed` says that a month began which no successful
  pass had covered.

The `Faulty...` definitions are deliberate bugs, each next to the definition it
distorts. They show that a property is able to fail.

## Runs

| Run | Instance | Shows |
|---|---|---|
| `jobs_stalls` | 1 job, 2 workers with 1 slot, 1 retry, any stalls | numbering, bounded retries and attempts, sidecar, outbox, one charge, delivery and alert per attempt; every job settles (100,141 states) |
| `jobs_leases` | 2 jobs (one with a webhook), 1 worker with 2 slots, 1 retry, timely heartbeats | one runner per job; the contract's promise (`PromiseKept`); refinement of `JobContract` (375,727 states) |
| `jobs_over_retry` | as `jobs_stalls` | finding 1: `retry_count` passes `max_retries` |
| `jobs_undelivered` | as `jobs_stalls` | finding 2: failed job without delivery |
| `jobs_false_alert` | 1 job, 2 workers, timely heartbeats | finding 3: alert, then completion |
| `lease_latency` | 10s/20s/30s, calls take up to 1s | finding 4: two deliveries at once |
| `buffers` | 2 items, 2 drainers, 1 retry, 1 per second in half seconds, one 429 each; claims do not overlap, timely heartbeats | rate, retry budget, refinement of `FifoContract`; every item settles (94,392 states) |
| `buffers_overlap` | the same with overlapping claims, 2 per second | finding 5: two items in flight |
| `system` | the lease with 10s/20s/30s and instant calls; 1 delivery, 2 dispatchers, 3 attempts; 2 requests for secrets; 4 rows, pages of 1 to 3; 2 maintainers, 4 months | lease in time; outcomes earned and final, every delivery settles; the newest secret is active; two lists are complete; DEFAULT stays empty |
| | 2 runs, 1 purchase with 2 deliveries, 1 night, 1 failing check; 1 channel | overdraft, warnings, ledger, mail; every payment is credited |
| | 2 schedules, 2 dispatchers, 5 minutes, 2 connections, 1 foreign job, 1 failure | each instant once, missed ones skipped, a pause takes effect, what can hold a schedule up (137,033 states in all) |
| `schedules_stuck` | 1 schedule, 1 dispatcher | finding 6: a due schedule does not move on |
| `purchase_lost` | 1 run, 1 purchase, 1 night, with channels | finding 7: a refresh takes what was bought |
| `items_skipped` | 4 rows, pages of 1 to 3 | finding 8: an item that no page shows |

What some of the properties say exactly, where the code gives less than one might
expect: `RetryBound` allows `2 * MaxRetries` retries and one attempt more than retries.
`OncePerAttempt` compares each kind of effect with the rows of the history, not with the
calls of the endpoint. `PromiseKept` has at most one notice of a failure, not exactly one
(finding 2). `OverdraftBounded` allows the balance to fall to `1 - |Run|`, and one lower
for each gate that was waved through. `RateHeld` bounds the claims of any window of time
by a full bucket, the refill over the window and the refill over the longest wait of a
claim statement; TLC finds states in which it is exact, and in which it would fail without the
wait. So up to `2 * rate_limit` deliveries may start within a second, as the stress test
has it (`rate.js:75`), which is more than the "maximum deliveries per second" of
`buffer-delivery.md:69` at face value.
`EveryPaymentCredited` says at least once: a redelivered event is credited again.
`DefaultStaysEmpty` holds until provisioning lapses once; after that every pass
fails at the current month. `NeverStuckUnlessObstructed` names what does hold a
schedule up.

**Bounds.** Jobs interact only through claim batches and the reaper's batches,
so two jobs show all of it and one is enough for the races on a row. Two slots
are needed for overlapping runs. With one retry a job has a first and a last
attempt, the two cases the code tells apart; with stalls it can reach
`retry_count` 2, beyond the maximum. No counter of jobs needs an artificial bound:
the retry bound itself makes the state space finite.

A buffer needs two items for order and two drainers for overlap. Half seconds let
the bucket hold half a token, so that claims are refused and granted again within a
window; in `buffers_overlap` a rate of two has a token ready for the second claim.
`MaxWait` bounds a claim statement's wait for the buffer row, `MaxWindow` the time for
which claims are counted; `MaxIdle` stops the idle time where the bucket is full for
every statement. `MaxThrottles` bounds the 429s, which
the code does not, and one is enough to pass `max_retries`. An account needs two runs for the
race between gates and deductions; a threshold of 2 with a balance of 2 puts the
crossing, the top-up that leaves the balance low and the refresh within reach.
`MaxDays`, `MaxDeliveries` and `MaxErrors` bound what recurs without limit. Three
attempts let a delivery pass through retry, loss and failure. With a page size of 1
and four rows a walk has four pages, and two equal times exercise the tie-break. Four
months let a pass stall over two month changes. Five minutes at a period of two
hold two instants and a missed one; `KeyTimes` has clients take the key of the second.
The parts of `system` share no variable, so `part` and `focus` choose one of them at the
start and the others stand still. Credits and channels are separate there: the one step
they share in `Account` is shown to be a step of each (`PartsKeepTheirSpecs`). The lease uses the code's own constants, in seconds.

**Deadlock** is not checked, because the system rightly stops when every job, item
and delivery has settled, the calendar is at its bound, or a list has been read.

**Fairness.** Goroutines go on, workers, drainers and dispatchers poll, reapers
cycle, time passes: these are ticker loops that nothing stops. In `JobLifecycle` no
call is assumed to succeed: the reaper counts a retry each time, so jobs settle all the
same. A row is only bound to turn stale, or old, once nobody is left to refresh it.
Where a loop could be cut short at the same point for ever (a claim that is always
lost, an outcome that is never written, a transaction always killed), strong fairness
says that it goes through in the end; crashes and failures may happen any number of
times, but not every time. Stripe delivers until it is answered. A 429 for ever and a
paused buffer are excluded from `EveryItemSettles`. So are other buffers: a poll takes up
to 100 active ones, in no particular order, and the model's buffer is assumed to be among
them time and again.

## Findings

1. `Reschedule` is not guarded by status or owner, although its comment says that
   `retry_count` must not be over-incremented. A worker that stalls after its lease
   check and the reaper both count the same attempt. It takes a stall longer than
   the reaper's cutoff: with honoured leases `max_retries` is proved to hold
   (`RetriesWithinMax`), without them `2 * MaxRetries` (`RetriesAreBounded`).
2. `FailStale` fails a job without a webhook delivery, although the comment on
   `CompleteWithWebhook` rules out a terminal job without one and `retries.md`
   promises a notification of a permanent failure.
3. The alert is raised even when the failure could not be written. After a
   refusal by the credit gate the job has retries left, so it can be requeued and
   complete, although the docs say that an alert means giving up.
4. A lease shorter than the reaper's cutoff is not enough to relinquish a job in
   time, although the comment on `heartbeatLeaseTimeout` says so. `lastSuccess` is
   the time of the reply, and ages are compared once per 10s tick: a failure 19s
   after it does not fence, and the next one comes at 30s or later, when the row
   may already be stale. So `LeasesHonoured`, and what `jobs_leases` shows, holds
   for the code's constants only as long as this does not happen. The theorem below
   gives a sufficient cutoff.
5. Two items of one buffer can be in flight, although `buffer-delivery.md` says at
   most one and the comment on the claim says that it is safe across replicas. The
   check for a running item reads the statement's snapshot and `SKIP LOCKED` steps
   over the item another claim is about to start. The buffer's row is locked by the
   claim that takes a token, so `RateHeld` is proved for overlapping claims as well.
   One process is enough: each poll starts a goroutine per active buffer.
6. A duplicate idempotency key in `ClaimAndFire` does not leave the schedule
   advanced, although the comment and `idempotency.md` say so: the failed `INSERT`
   has aborted the transaction. All of the batch is undone, the same happens in the
   next cycle, and each time a connection is lost, because the deferred function looks
   at an `err` that is nil. It takes a client's job with that key; dispatchers alone
   never cause it (`ClashesAreForeign`).
7. A failing `UpdatePlan` after a top-up is called non-fatal, because the credits were
   already added. But the event is acknowledged, so nothing tries again. The plan stays
   free, and the next day's first credit check sets the balance to `daily_free_limit`.
   Nothing else takes credits that were bought (`RefreshTakesNothingElse`).
8. The row at a page break of a buffer's items is on no page, although the stress tests'
   `listAllItems` says that following the cursors returns the full array: the cursor is the
   row that was kept back, and the next page starts strictly after it. Jobs, schedules,
   a schedule's jobs and buffers are read the same way. These rows are all that is lost
   (`NothingElseIsLost`); the ledger and the deliveries do it right (`WalkComplete`).

Smaller disagreements, seen while modelling and not the subject of a run: the
comment on `deduct` says that the latch is set on the crossing only, while the code
sets it at any charge below the threshold; `MarkVerified` is called idempotent, but a
link followed again enables a channel that was disabled since; `buffer-delivery.md:56-58`
says that an item which exhausts `max_retries` fails and does not stall the stream
indefinitely, but an answer of 429 is retried whatever the count.

## Proofs

`JobLifecycleProofs` and `JobBoundsProofs` prove, for all sets of jobs, finite sets of
workers, slot counts and retries, with and without honoured leases:

- `TypeCorrect`: `TypeOK`.
- `AttemptNumbersUnique`, `RunsAreDistinct`. Neither is inductive alone. The
  invariant `NumberingInv` adds that snapshots are not ahead of `retry_count`
  (and strictly behind it while the job is pending), that recorded numbers are
  likewise old, and that a goroutine about to insert an attempt has a number
  nobody used. Whatever moves a job back to `pending` increments `retry_count`,
  so the next claim gets a fresh number.
- `RunningJobsHaveHeartbeats`, `CompletedJobsHaveDeliveries`: inductive with the
  type invariant.
- `RetriesAreBounded` (`RetryBound`). `Entitled(j)` is the set of snapshots below
  `MaxRetries` that goroutines holding `j` have; each allows one more reschedule. The
  invariant `retry_count[j] + Cardinality(Entitled(j)) <= 2 * MaxRetries` is inductive
  given `NumberingInv`. Up to `MaxRetries` it holds because there are at most
  `MaxRetries` such snapshots. Beyond that the reaper and new claims no longer
  matter, and only a late reschedule counts, which uses up a snapshot that no
  other goroutine has (`DistinctAttempts`). That there are no more attempts than
  `retry_count[j] + 1` is a pigeonhole: their numbers are different and lie between 1
  and that (`DistinctNumbers`).
- `EffectsMatchAttempts` (`OncePerAttempt`). For each kind of effect (charge, webhook
  delivery, alert) the attempts that goroutines have open and that have not had it yet
  are still owed (`Owing`). What has happened and what is owed are together within
  `Len(attempts[j])` (`EffectsInv`): an attempt is owed from the moment it has its row, and the effect
  takes it out. Since runs of one job have different snapshots, no two of them share one.
- `EffectsAreBounded` puts the two together: charges, deliveries and alerts are each
  at most `retry_count[j] + 1`, so `2 * MaxRetries + 1` whatever happens.

`JobRefinementProofs` takes `LeasesHonoured` as a hypothesis of its theorems:
`OneRunnerPerJob` (`SingleRunner`), `RetriesWithinMax` (`RetryWithinMax`) and
`ContractImplemented` (`ImplementsContract`). The inductive invariant `LeaseInv(j)` says
that the goroutine which holds `j` is the only one, that the row is running with a fresh
heartbeat until that goroutine has failed it, and that its snapshot is `retry_count`; and it counts
attempts against retries. Given that, every step of the system is one of eight
things for a job (`JobStep`): nothing, or an attempt opened, or one of the moves of
`JobContract`. The invariant, the bound and the refinement are read off these eight.

What the refinement is worth to the user is proved from it, without looking at the workers
again: `EveryPromiseKept` (`PromiseKept`) because each move of the contract keeps
`Promise` (`PromiseStep`), and `OutcomesAreFinal` (`OutcomeFinal`) because none
leaves a terminal status.

`BufferProofs`, for any drainers, items, rates and retries:

- `BufferTypeCorrect` and `RateIsHeld`, whatever overlaps or stalls. What the bucket
  would hold if it were refilled now (`Stored`) grows by `RateLimit` with each unit of time
  and falls by the price of a token with each claim, also when `last_refill_at` goes
  back. So `granted * Grain + Stored <= Ceiling + window * RateLimit` is inductive
  (`BucketInv`), where `Ceiling` is the capacity and the refill over `MaxWait`.
- `DeliveriesAreDistinct` and, in `BufferBoundsProofs`, `RetriesHaveCeiling`, whatever
  overlaps or stalls. Every step is one of five things for those who hold items
  (`DeliverySteps`): nothing in particular, a lock, a claim, an answer of 429, a retry.
  `DeliveriesInv` says that snapshots are not ahead of the row, and behind it once the row
  is pending or locked again. So a new claim has a number of its own, and two
  goroutines with one item have different tries of it. The ceiling
  `2 * MaxRetries + throttled[i]` is a count: `CountInv` adds to `retry_count` the
  tries in hand that can still be counted, for want of retries so far (`Spare`) or because
  of a 429 (`Limited`).
- `OneInFlightIfOrderly`, `RetriesWithinBudget` and `BufferIsFifo` under `Orderly`:
  heartbeats are in time and claims do not overlap. `SoloInv` says that of all drainers
  one at most has an item, that the item is running with a fresh heartbeat (or deleted), and
  that the snapshot is exact. `QueueInv` adds that a locked candidate is the head of
  the queue. `ItemsStayInOrder` draws the consequence from the refinement: no item is
  running, completed or failed while an earlier one waits (`InOrder` of `FifoContract`).
  Finding 5 shows that the second condition is not met by the code; the
  theorems say that it is all that is missing.

`AccountProofs`, for any finite set of runs, purchases, limits, threshold and channels:

- `CreditsTypeCorrect`, `OverdraftIsBounded`, `CrossingSeenOnce` (`WarnedOnce`),
  `CrossingSeen` (`WarningNotMissed`), `LedgerAccountsForBalance` and
  `RefreshTakesNothingElse` (`OnlyUnraisedLose`: what finding 7 leaves). `CreditsInv` charges runs in
  progress in advance: the balance is at least `1 - |Run| - waved + |executing|`. The last
  theorem needs that nobody has more than one of the two grants before a purchase is
  credited (`GrantsOnly`).
- `MailIsConfirmed`. `AlertInv` says it of every place a mail may come from, the half-done
  `SetEnabled` and the notifier's list included.
- `PartsKeepTheirSpecs` shows that `Account` implements both `Credits` and
  `AlertChannels`. `AccountTypeCorrect` (`AccountTypeOK`) and `AccountIsSound`, which has
  all of the above of the account, follow.

`ScheduleProofs`, for any schedules, dispatchers, periods and bounds:

- `MissedRunsSkipped` (`SkipsMissedRuns`). The loop of `computeNext` is a recursive
  function. `Found` gives its result in closed form; the closed form satisfies the
  recursion, and nothing else does, because two solutions would differ last at some
  point before `now`, whose successor they agree on (`LoopFinds`).
- `EachInstantHandled` (`PassedMeansHandled`), `EachInstantOnce` (`ClashesAreForeign`)
  and `PauseTakesEffect` (`PausedNeverFires`). `ScheduleInv` says that what a transaction
  read of a locked row stays true (`LockInv`), and that a schedule has passed only
  instants before its `next_run_at` (`PastInv`).
- `SchedulesTypeCorrect` (`ScheduleTypeOK`), with `TypeInv`: a locked row is due, so that the next
  instant is within the calendar's bound, and a transaction under way has a connection
  that is not counted as lost.

`ServicesProofs`:

- `OutboxTypeCorrect`; `OutcomesAreEarned`, timely or not, since what a goroutine knows is
  old but true (`KnowledgeInv`); `OneDispatcherAtATime` and `SettledRowsRest` for timely
  attempts, in which a goroutine owns its row (`OwnerInv`).
- `LeaseIsExclusive`: `ExclusiveDelivery` holds whenever
  `LeaseTimeout + HeartbeatInterval + MaxLatency + max(MaxLatency, StartDelay)
  <= StaleCutoff + 1`. The inductive invariant bounds the age of the lease by the next
  time the loop looks at it (`LoopInv`), and the age of the row by that of the lease
  (`RowInv`). The condition is sufficient, not necessary: the code's constants meet it
  for instant calls and starts within 1s, and the run `system` shows more.
- `OneSecretInUse` (`NewestSecretActive`), which is inductive once secrets are numbers.
- `WalksAreComplete` (`WalkComplete`) and `NothingElseIsLost` (`OnlyBreaksLost`: what finding 8 leaves), for
  finite sets of keys and positive page sizes. A page is closed towards newer rows
  (`PageIsNewest`), and one that is not full is all that is left (`ShortPageIsLast`).
  The invariant `WalkInv` says of a steady row that it was shown, is still ahead of the
  cursor, or, in the five lists with a sentinel, is one a page was cut at; and that what
  was shown is not ahead.
- `DefaultIsUnused`, for any maintainers and natural settings. `PartitionInv` says that
  what passes have provided from the current month on is still there, so a pass that
  stalled over a change of month drops nothing that is needed.
- `ServicesKeepTheirSpecs`: `Services` implements the specification of each of its five
  parts. `LeaseTypeCorrect` and `ServicesTypeCorrect` (`ServicesTypeOK`). `ServicesAreSound`
  has what is proved of the parts of all of them at once.

Assumptions: `WebhookJobs` is a set of jobs, `NoJob` is none; limits, bounds, sort keys
and times are natural numbers, positive where the code has it so (rates, attempts,
periods, slots, page sizes, a signup balance); `Worker`, `Run` and the sort keys of a list
are finite. TLC evaluates these `ASSUME`s in the runs of their modules. `LeasesHonoured`, `Orderly` and
the budget of the lease are hypotheses of the theorems that need them, because the code does
not guarantee them: see findings 1, 4 and 5.

Every safety property of a passing run is proved. Only model-checked are the liveness
properties (`EventuallySettled`, `EveryItemSettles`, `EveryPaymentCredited`,
`EveryDeliverySettles`, `NeverStuckUnlessObstructed`), because liveness under fairness
is beyond the prover, and what the violation runs show.

## Not modelled

- `Replay` of jobs: it inserts a clone like any new job and leaves the original alone.
  Buffer items have it (`ReplayItem`), because there it joins a queue.
- HTTP handlers beyond the calls they make: parsing, validation and status codes.
- Authentication, users and API tokens: checks of a request against one row.
- The rate-limit middleware: a mutex around a third-party limiter.
- The HTTP executor's inside, the dialer and signatures: pure I/O; its result is a choice.
- The item webhook of a buffer: one attempt, fired and forgotten.
- Lengths of backoffs: `due` abstracts from them.
- Statistics, health, metrics, logging and mail formats: read-only or pure output.
- Test utilities, seeding and load-test programs: not part of the running system.
