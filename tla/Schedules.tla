----------------------------- MODULE Schedules -----------------------------
(***************************************************************************)
(* Cron schedules: the API calls on them and the dispatchers that turn due *)
(* ones into jobs.  internal/scheduler/dispatcher.go,                      *)
(* internal/usecase/schedule.go over                                       *)
(* internal/infrastructure/postgres/schedule_repo.go.                      *)
(*                                                                         *)
(* Time is whole minutes.  ClaimAndFire is one transaction.  It is two     *)
(* steps here: the claim, which locks the due rows, and the rest, which    *)
(* takes effect when it commits.  API calls on a locked row wait, those on *)
(* others go ahead, and the clock may move.                                *)
(*                                                                         *)
(* A job is its idempotency key.  The dispatcher makes the key from the    *)
(* schedule and its next_run_at, and (user_id, idempotency_key) is unique; *)
(* a client may have used such a key for a job of its own.  After an error *)
(* Postgres has rolled the transaction back, but ClaimAndFire returns      *)
(* without giving its connection back to the pool.                         *)
(*                                                                         *)
(* Left out: the request that a schedule carries, the fallback of          *)
(* computeNext for an expression that does not parse (CreateSchedule has   *)
(* parsed it), clocks that differ between database and processes, and an   *)
(* error in reading a row on the client's side, which would keep the row   *)
(* locks as well as the connection (the columns and their variables        *)
(* agree).                                                                 *)
(***************************************************************************)
EXTENDS Naturals, FiniteSets

CONSTANTS
    Schedule,     \* schedules
    Dispatcher,   \* scheduler processes
    Period,       \* the cron expression: every Period minutes
    BatchSize,    \* the limit of one claim
    PoolSize,     \* connections in a process's pool
    MaxTime,      \* bound on the clock
    MaxForeign,   \* bound on the jobs of clients that use a schedule's key
    KeyTimes,     \* bound on those keys: the instants they are for
    MaxFailures   \* bound on the failing statements

ASSUME SchedulesAssumption ==
    /\ Period \in Nat \ {0} /\ BatchSize \in Nat \ {0} /\ PoolSize \in Nat \ {0}
    /\ MaxTime \in Nat /\ MaxForeign \in Nat /\ MaxFailures \in Nat

VARIABLES
    now,          \* minutes
    state,        \* the row: "none", "active", "paused" or "deleted"
    next_run_at,  \* schedules.next_run_at
    fired,        \* keys of the jobs that dispatchers inserted
    foreign,      \* keys of the jobs that clients inserted
    refused,      \* keys passed over for want of credits
    passed,       \* keys that a schedule has moved on from
    clashed,      \* keys whose insert hit the unique constraint
    batch,        \* the rows each dispatcher's transaction has locked, as read
    leaked,       \* connections its process has lost
    failures      \* failed statements so far

scheduleRows == <<state, next_run_at>>
jobs == <<fired, foreign, refused, passed, clashed>>
process == <<batch, leaked, failures>>
scheduleVars == <<now, scheduleRows, jobs, process>>

\* The cron instants are the multiples of Period.
Instant == {t \in 1..(MaxTime + Period) : t % Period = 0}
Key == Schedule \X Instant

ScheduleInit ==
    /\ now = 0
    /\ state = [s \in Schedule |-> "none"]
    /\ next_run_at = [s \in Schedule |-> 0]
    /\ fired = {} /\ foreign = {} /\ refused = {} /\ passed = {} /\ clashed = {}
    /\ batch = [d \in Dispatcher |-> {}]
    /\ leaked = [d \in Dispatcher |-> 0]
    /\ failures = 0

Tick ==
    /\ now < MaxTime
    /\ now' = now + 1
    /\ UNCHANGED <<scheduleRows, jobs, process>>

-----------------------------------------------------------------------------
(* Cron arithmetic *)

\* cron.Schedule.Next: the first instant after t.
CronNext(t) == ((t \div Period) + 1) * Period

\* Bug: missed runs are not skipped.
FaultyComputeNext(t, n) == CronNext(t)
\* computeNext for a next_run_at of t at time n: the loop over missed instants.
computeNext(t, n) ==
    LET skip[m \in 0..(n + t + Period)] == IF m < n THEN skip[CronNext(m)] ELSE m
    IN  skip[CronNext(t)]

-----------------------------------------------------------------------------
(* The API server *)

\* FOR UPDATE: a row stays locked until the claiming transaction ends.
Locked(s) == \E d \in Dispatcher : \E k \in batch[d] : k[1] = s

\* Bug: the first run is now rather than at the next instant.
FaultyCreateSchedule(s) ==
    /\ state[s] = "none"
    /\ state' = [state EXCEPT ![s] = "active"]
    /\ next_run_at' = [next_run_at EXCEPT ![s] = now]
    /\ UNCHANGED <<now, jobs, process>>
CreateSchedule(s) ==
    /\ state[s] = "none"
    /\ state' = [state EXCEPT ![s] = "active"]
    /\ next_run_at' = [next_run_at EXCEPT ![s] = CronNext(now)]
    /\ UNCHANGED <<now, jobs, process>>

\* Bug: a pause does not wait for the transaction that fires the schedule.
FaultySetPaused(s, from, to) ==
    /\ state[s] = from
    /\ state' = [state EXCEPT ![s] = to]
    /\ UNCHANGED <<now, next_run_at, jobs, process>>
\* The UPDATE asks for the opposite state.  next_run_at stays as it is, so a
\* schedule that was paused over an instant is due as soon as it is resumed.
SetPaused(s, from, to) ==
    /\ state[s] = from /\ ~Locked(s)
    /\ state' = [state EXCEPT ![s] = to]
    /\ UNCHANGED <<now, next_run_at, jobs, process>>
PauseSchedule(s) == SetPaused(s, "active", "paused")
ResumeSchedule(s) == SetPaused(s, "paused", "active")

DeleteSchedule(s) ==
    /\ state[s] \in {"active", "paused"} /\ ~Locked(s)
    /\ state' = [state EXCEPT ![s] = "deleted"]
    /\ UNCHANGED <<now, next_run_at, jobs, process>>

\* A client's job under a key of its choice; other keys are of no consequence
\* here.  A key in use is refused (ErrDuplicateJob).
CreateJob(k) ==
    /\ k \notin fired \cup foreign /\ k[2] \in KeyTimes
    /\ Cardinality(foreign) < MaxForeign
    /\ foreign' = foreign \cup {k}
    /\ UNCHANGED <<now, scheduleRows, fired, refused, passed, clashed, process>>

-----------------------------------------------------------------------------
(* Dispatcher *)

Due(s) == state[s] = "active" /\ next_run_at[s] <= now

\* The idempotency key sched:{id}:{next_run_at}.
KeyOf(s) == <<s, next_run_at[s]>>

\* Bug: rows that another dispatcher is about to fire are claimed too.
FaultyClaimed(S) == S = {s \in Schedule : Due(s)} /\ S # {}
\* The oldest BatchSize of the due rows that nobody has locked.
Claimed(S) ==
    LET free == {s \in Schedule : Due(s) /\ ~Locked(s)}
    IN  /\ S \subseteq free /\ S # {}
        /\ S = free \/ Cardinality(S) = BatchSize
        /\ Cardinality(S) <= BatchSize
        /\ \A s \in S, r \in free \ S : next_run_at[s] <= next_run_at[r]

\* The transaction begins, if the pool has a connection for it.
Claim(d) ==
    /\ batch[d] = {} /\ leaked[d] < PoolSize
    /\ \E S \in SUBSET Schedule :
        /\ Claimed(S)
        /\ batch' = [batch EXCEPT ![d] = {KeyOf(s) : s \in S}]
    /\ UNCHANGED <<now, scheduleRows, jobs, leaked, failures>>

\* The credit check needs a second connection.
CanCheckCredits(d) == leaked[d] + 1 < PoolSize

Advance(K) ==
    /\ next_run_at' = [s \in Schedule |->
            IF \E k \in K : k[1] = s
            THEN computeNext((CHOOSE k \in K : k[1] = s)[2], now)
            ELSE next_run_at[s]]
    /\ passed' = passed \cup K

\* Bug: a schedule without credits is left as it is.
FaultyCommit(d, paid) ==
    /\ fired' = fired \cup paid
    /\ Advance(paid)
    /\ UNCHANGED <<refused, clashed, leaked>>
\* Everything in the batch went through and the transaction commits.
Commit(d, paid) ==
    /\ fired' = fired \cup paid
    /\ refused' = refused \cup (batch[d] \ paid)
    /\ Advance(batch[d])
    /\ UNCHANGED <<clashed, leaked>>

\* Bug: the schedules are advanced outside the transaction.
FaultyAbort(d, clash) ==
    /\ clashed' = clashed \cup clash
    /\ Advance(batch[d])
    /\ leaked' = [leaked EXCEPT ![d] = @ + 1]
    /\ UNCHANGED <<fired, refused>>
\* A duplicate key aborts the transaction, and the UPDATE that follows fails:
\* nothing of the batch takes effect.  The deferred function sees no error in
\* err and does not roll back, which is what would release the connection.
Abort(d, clash) ==
    /\ clashed' = clashed \cup clash
    /\ leaked' = [leaked EXCEPT ![d] = @ + 1]
    /\ UNCHANGED <<next_run_at, fired, refused, passed>>

\* The loop over the batch: paid are those that pass the credit check.
Fire(d) ==
    /\ batch[d] # {} /\ CanCheckCredits(d)
    /\ \E paid \in SUBSET batch[d] :
        LET clash == paid \cap (fired \cup foreign)
        IN  \/ clash = {} /\ Commit(d, paid)
            \/ clash # {} /\ Abort(d, clash)
    /\ batch' = [batch EXCEPT ![d] = {}]
    /\ UNCHANGED <<now, state, foreign, failures>>

\* Any other statement fails; some of the error paths lose the connection.
FireFails(d) ==
    /\ batch[d] # {} /\ failures < MaxFailures
    /\ failures' = failures + 1
    /\ leaked' \in {leaked, [leaked EXCEPT ![d] = @ + 1]}
    /\ batch' = [batch EXCEPT ![d] = {}]
    /\ UNCHANGED <<now, scheduleRows, jobs>>

\* The process dies and is started again, with a new pool.
Restart(d) ==
    /\ batch[d] # {} \/ leaked[d] > 0
    /\ batch' = [batch EXCEPT ![d] = {}]
    /\ leaked' = [leaked EXCEPT ![d] = 0]
    /\ UNCHANGED <<now, scheduleRows, jobs, failures>>

ScheduleNext ==
    \/ Tick
    \/ \E s \in Schedule : \/ CreateSchedule(s) \/ PauseSchedule(s)
                           \/ ResumeSchedule(s) \/ DeleteSchedule(s)
    \/ \E k \in Key : CreateJob(k)
    \/ \E d \in Dispatcher : Claim(d) \/ Fire(d) \/ FireFails(d) \/ Restart(d)

ScheduleSpec == ScheduleInit /\ [][ScheduleNext]_scheduleVars

\* Dispatchers tick and a transaction that is under way goes on.  Restarts may
\* cut it short, but not every time.
ScheduleFairness ==
    /\ \A d \in Dispatcher : WF_scheduleVars(Claim(d))
    /\ SF_scheduleVars(\E d \in Dispatcher : Fire(d))

ScheduleFairSpec == ScheduleSpec /\ ScheduleFairness

-----------------------------------------------------------------------------
(* Correctness properties *)

\* Every variable keeps its type; next_run_at is an instant of the expression,
\* and a process loses no more connections than it has.
ScheduleTypeOK ==
    /\ now \in 0..MaxTime
    /\ state \in [Schedule -> {"none", "active", "paused", "deleted"}]
    /\ next_run_at \in [Schedule -> Instant \cup {0}]
    /\ \A S \in {fired, foreign, refused, passed, clashed} : S \subseteq Key
    /\ batch \in [Dispatcher -> SUBSET Key]
    /\ leaked \in [Dispatcher -> 0..PoolSize]
    /\ failures \in 0..MaxFailures

\* "All operations happen in a single transaction": a schedule moves on from an
\* instant exactly when its job is inserted or refused, whatever aborts or dies in
\* between.
PassedMeansHandled == passed = fired \cup refused

\* "should never happen with SKIP LOCKED": two dispatchers never handle the same
\* instant; only a client's job can be in the way of an insert.
ClashesAreForeign == clashed \subseteq foreign /\ fired \cap refused = {}

\* Pausing and deleting take effect at once: once the call has returned no job is
\* inserted for the schedule, even by a dispatcher that claimed it before.
PausedNeverFires ==
    [][\A k \in fired' \ fired : state[k[1]] = "active" /\ state'[k[1]] = "active"]_scheduleVars

\* "the next future run time for the schedule, skipping any missed runs": the
\* loop finds the first instant after a next_run_at of t that is not over now.
SkipsMissedRuns ==
    \A t \in 0..MaxTime :
        LET future == {c \in Instant : c > t /\ c >= now}
        IN  computeNext(t, now) \in future /\ \A c \in future : computeNext(t, now) <= c

\* "No orphaned jobs, no stuck schedules": a due schedule moves on.
NeverStuck == \A s \in Schedule : Due(s) ~> ~Due(s)

Obstructed ==
    \/ \E s \in Schedule : Due(s) /\ KeyOf(s) \in foreign
    \/ \A d \in Dispatcher : ~CanCheckCredits(d)
    \/ \E d \in Dispatcher : batch[d] # {} /\ ~CanCheckCredits(d)

\* The same, as far as it is true: only a client's job under the key of a due
\* schedule, of this one or of another, or a process that has run out of
\* connections can hold a schedule up.
NeverStuckUnlessObstructed == \A s \in Schedule : Due(s) ~> ~Due(s) \/ Obstructed
=============================================================================
