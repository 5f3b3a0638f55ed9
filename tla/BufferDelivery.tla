--------------------------- MODULE BufferDelivery ---------------------------
(***************************************************************************)
(* One buffer: its row with the token bucket, its items, the drainer       *)
(* goroutines that deliver them and the reaper that rescues them.          *)
(* internal/scheduler/{drainer,buffer_reaper}.go and                       *)
(* internal/usecase/buffer.go over                                         *)
(* internal/infrastructure/postgres/buffer_repo.go.                        *)
(*                                                                         *)
(* Items are numbered in the order of created_at.  Every database call is  *)
(* one step and may fail, except the claim: its statement first locks a    *)
(* candidate, then updates the buffer and the item, and other statements   *)
(* run in between.  ClaimsOverlap = FALSE leaves out claims that overlap   *)
(* one another; LeasesHonoured is as in JobLifecycle.  A drainer here is   *)
(* one drainBuffer goroutine: several scheduler processes have one each,   *)
(* and one process starts another at every poll that finds the buffer      *)
(* active.                                                                 *)
(*                                                                         *)
(* Time for the bucket passes in units of 1/Grain of a second (Tick), and  *)
(* tokens are counted in units of 1/Grain of a token, so that a unit of    *)
(* time adds RateLimit units and a claim costs Grain of them.  NOW() is    *)
(* the start of the claim's statement: one that had to wait for the row    *)
(* refills up to its start, and last_refill_at goes back there with it.    *)
(* Rounding of the double column is left out.                              *)
(*                                                                         *)
(* Left out: payloads and headers; the item webhook and the failure alert, *)
(* which are fired and forgotten; the credit deduction, see Credits.  The  *)
(* heartbeat upsert is one step, because a row it leaves behind for an     *)
(* item that is no longer running is overwritten by the next claim and     *)
(* read by nobody before.                                                  *)
(***************************************************************************)
EXTENDS Integers

CONSTANTS
    MaxItems,        \* bound on the items ever pushed
    MaxRetries,      \* buffers.max_retries
    RateLimit,       \* buffers.rate_limit, deliveries per second
    MaxThrottles,    \* bound on the 429 answers to one item
    Grain,           \* units of time in a second
    MaxWait,         \* bound on the units that a claim statement takes
    MaxWindow,       \* bound on the units for which claims are counted
    Drainer,         \* drainBuffer goroutines
    LeasesHonoured,  \* timing assumption, see GoStale
    ClaimsOverlap    \* whether two claim statements may overlap

ASSUME BoundsAssumption ==
    /\ MaxItems \in Nat /\ MaxThrottles \in Nat /\ MaxRetries \in Nat
    /\ RateLimit \in Nat \ {0} /\ Grain \in Nat \ {0}
    /\ MaxWait \in Nat /\ MaxWindow \in Nat
ASSUME ModeAssumption == LeasesHonoured \in BOOLEAN /\ ClaimsOverlap \in BOOLEAN

VARIABLES
    buffer,       \* the row: "none", "active", "paused" or "deleted"
    tokens,       \* buffers.tokens
    idle,         \* time since buffers.last_refill_at
    waited,       \* time since each drainer's claim statement started, if under way
    status,       \* buffer_items.status ("none": not pushed, "deleted": cascaded)
    retry_count,  \* buffer_items.retry_count
    due,          \* the items with scheduled_at <= NOW()
    heartbeat,    \* the buffer_item_heartbeats row: "none", "fresh" or "stale"
    pc,           \* the call each drainer makes next
    held,         \* the item it has locked or claimed; 0 for none
    snapshot,     \* that item's RetryCount as the claim returned it
    answer,       \* the target's answer
    throttled,    \* 429 answers to each item so far
    window,       \* time since some moment in the past
    granted       \* claims granted since then

bucket == <<tokens, idle, waited, window, granted>>
rows == <<status, retry_count, due, heartbeat>>
run == <<pc, held, snapshot, answer>>
vars == <<buffer, bucket, rows, run, throttled>>

Item == 1..MaxItems
Settled == {"completed", "failed", "deleted"}
Pushed == {i \in Item : status[i] # "none"}
Running == {i \in Item : status[i] = "running"}
Pending == {i \in Item : status[i] = "pending"}

Init ==
    /\ buffer = "none"
    /\ tokens = 0 /\ idle = 0 /\ window = 0 /\ granted = 0
    /\ waited = [d \in Drainer |-> 0]
    /\ status = [i \in Item |-> "none"]
    /\ retry_count = [i \in Item |-> 0]
    /\ due = {}
    /\ heartbeat = [i \in Item |-> "none"]
    /\ pc = [d \in Drainer |-> "idle"]
    /\ held = [d \in Drainer |-> 0]
    /\ snapshot = [d \in Drainer |-> 0]
    /\ answer = [d \in Drainer |-> "none"]
    /\ throttled = [i \in Item |-> 0]

-----------------------------------------------------------------------------
(* The API server *)

CreateBuffer ==
    /\ buffer = "none"
    /\ buffer' = "active"
    /\ UNCHANGED <<bucket, rows, run, throttled>>

\* The UPDATE asks for the opposite state, so a repeated call changes nothing.
SetPaused(from, to) ==
    /\ buffer = from
    /\ buffer' = to
    /\ UNCHANGED <<bucket, rows, run, throttled>>
PauseBuffer == SetPaused("active", "paused")
ResumeBuffer == SetPaused("paused", "active")

\* The items and their heartbeat rows go with the buffer (ON DELETE CASCADE).
\* The DELETE waits for a claim that has an item locked.
DeleteBuffer ==
    /\ buffer \in {"active", "paused"}
    /\ \A d \in Drainer : pc[d] # "commit"
    /\ buffer' = "deleted"
    /\ status' = [i \in Item |-> IF i \in Pushed THEN "deleted" ELSE "none"]
    /\ heartbeat' = [i \in Item |-> "none"]
    /\ UNCHANGED <<bucket, retry_count, due, run, throttled>>

\* A new row at the tail of the queue, due at once.
CreateItem ==
    \E i \in Item \ Pushed :
        /\ \A j \in Item \ Pushed : i <= j
        /\ status' = [status EXCEPT ![i] = "pending"]
        /\ due' = due \cup {i}
        /\ UNCHANGED <<buffer, bucket, retry_count, heartbeat, run, throttled>>

\* Accepted while the user has credits; a paused buffer takes items too.
PushItem ==
    /\ buffer \in {"active", "paused"}
    /\ CreateItem

\* The clone of a failed item; the original stays as it is.
ReplayItem ==
    /\ buffer \in {"active", "paused"}
    /\ \E i \in Item : status[i] = "failed"
    /\ CreateItem

-----------------------------------------------------------------------------
(* Passage of time *)

Capacity == RateLimit * Grain

\* Bug: the refill is not limited to the capacity.
FaultyRefilled(d) == tokens + (idle - waited[d]) * RateLimit
\* LEAST(rate_limit, tokens + elapsed * rate_limit) as the statement of d has it.
\* The elapsed time is negative if a claim that started later was there first.
Refilled(d) ==
    LET sum == tokens + (idle - waited[d]) * RateLimit
    IN  IF sum < Capacity THEN sum ELSE Capacity

\* From here on the bucket is full for every statement.
MaxIdle == Grain + MaxWait

\* The window of time in which claims are counted goes on, or a new one begins.
Tick ==
    /\ \A d \in Drainer : pc[d] = "commit" => waited[d] < MaxWait
    /\ idle' = IF idle < MaxIdle THEN idle + 1 ELSE idle
    /\ waited' = [d \in Drainer |-> IF pc[d] = "commit" THEN waited[d] + 1 ELSE waited[d]]
    /\ \/ window < MaxWindow /\ window' = window + 1 /\ granted' = granted
       \/ window' = 0 /\ granted' = 0
    /\ UNCHANGED <<buffer, tokens, rows, run, throttled>>

BecomeDue(i) ==
    /\ status[i] = "pending" /\ i \notin due
    /\ due' = due \cup {i}
    /\ UNCHANGED <<buffer, bucket, status, retry_count, heartbeat, run, throttled>>

\* The heartbeat row falls behind the reaper's cutoff; with honoured leases
\* only when no goroutine has the item in hand.
GoStale(i) ==
    /\ heartbeat[i] = "fresh"
    /\ LeasesHonoured => \A d \in Drainer : held[d] # i
    /\ heartbeat' = [heartbeat EXCEPT ![i] = "stale"]
    /\ UNCHANGED <<buffer, bucket, status, retry_count, due, run, throttled>>

-----------------------------------------------------------------------------
(* BufferDrainer.drainBuffer *)

Goto(d, label) ==
    /\ pc' = [pc EXCEPT ![d] = label]
    /\ UNCHANGED <<held, snapshot, answer>>

LetGo(d, label) ==
    /\ pc' = [pc EXCEPT ![d] = label]
    /\ held' = [held EXCEPT ![d] = 0]
    /\ snapshot' = [snapshot EXCEPT ![d] = 0]
    /\ answer' = [answer EXCEPT ![d] = "none"]

\* Not paused, and with a due item.
ListActiveBufferIDs == buffer = "active" /\ Pending \cap due # {}

\* A poll finds the buffer active and starts a goroutine for it.  Whether the
\* buffer is paused is not looked at again while the goroutine finds items.
Drain(d) ==
    /\ pc[d] = "idle"
    /\ ListActiveBufferIDs
    /\ Goto(d, "claim")
    /\ UNCHANGED <<buffer, bucket, rows, throttled>>

Locked(i) == \E d \in Drainer : pc[d] = "commit" /\ held[d] = i

\* Bug: an item in backoff is passed over for the next one that is due.
FaultyCandidates == {i \in Pending \cap due : Running = {} /\ ~Locked(i)}
\* The pending items, unless one is running, without those another claim has
\* locked (SKIP LOCKED).  The claim takes the oldest.
Candidates == {i \in Pending : Running = {} /\ ~Locked(i)}

\* The first part of the statement: the candidate is locked.  Finding none
\* ends the goroutine.
LockCandidate(d) ==
    /\ pc[d] = "claim"
    /\ ~ClaimsOverlap => \A e \in Drainer : pc[e] # "commit"
    /\ \/ Candidates = {} /\ Goto(d, "idle")
       \/ \E i \in Candidates :
            /\ \A j \in Candidates : i <= j
            /\ pc' = [pc EXCEPT ![d] = "commit"]
            /\ held' = [held EXCEPT ![d] = i]
            /\ UNCHANGED <<snapshot, answer>>
    /\ UNCHANGED <<buffer, bucket, rows, throttled>>

\* Bug: the claim checks for a token and does not take it.
FaultySpent(d) == Refilled(d)
Spent(d) == Refilled(d) - Grain

\* The candidate is claimed if it is due and there is a token for it.
Grantable(d) == held[d] \in due /\ Refilled(d) >= Grain

EndStatement(d) == waited' = [waited EXCEPT ![d] = 0]

\* The second part: a token is taken and the item turns to running.  If the
\* reply is lost the item is running with nobody to run it.
ClaimNextItem(d) ==
    LET i == held[d]
    IN  /\ pc[d] = "commit" /\ Grantable(d)
        /\ tokens' = Spent(d)
        /\ idle' = waited[d]
        /\ EndStatement(d)
        /\ granted' = granted + 1
        /\ status' = [status EXCEPT ![i] = "running"]
        /\ heartbeat' = [heartbeat EXCEPT ![i] = "fresh"]
        /\ \/ /\ pc' = [pc EXCEPT ![d] = "gate"]
              /\ snapshot' = [snapshot EXCEPT ![d] = retry_count[i]]
              /\ UNCHANGED <<held, answer>>
           \/ LetGo(d, "idle")
        /\ UNCHANGED <<buffer, window, retry_count, due, throttled>>

\* Not due, no token, or the statement failed: the goroutine ends.
ClaimNothing(d) ==
    /\ pc[d] = "commit"
    /\ LetGo(d, "idle") /\ EndStatement(d)
    /\ UNCHANGED <<buffer, tokens, idle, window, granted, rows, throttled>>

-----------------------------------------------------------------------------
(* BufferDrainer.runItem *)

\* HasCredits: an error counts as yes.
CheckCredits(d) ==
    /\ pc[d] = "gate"
    /\ Goto(d, "run") \/ Goto(d, "refused")
    /\ UNCHANGED <<buffer, bucket, rows, throttled>>

\* The target answers, or fails to.
Execute(d) ==
    /\ pc[d] = "run"
    /\ \E a \in {"2xx", "429", "other"} :
        /\ a = "429" => throttled[held[d]] < MaxThrottles
        /\ answer' = [answer EXCEPT ![d] = a]
        /\ throttled' = [throttled EXCEPT ![held[d]] = IF a = "429" THEN @ + 1 ELSE @]
    /\ pc' = [pc EXCEPT ![d] = "outcome"]
    /\ UNCHANGED <<buffer, bucket, rows, held, snapshot>>

\* The heartbeat failed for too long: the call is cancelled and the item left
\* to the reaper, without a word to the database.
LoseLease(d) ==
    /\ pc[d] = "run"
    /\ LetGo(d, "claim")
    /\ UNCHANGED <<buffer, bucket, rows, throttled>>

UpdateItemHeartbeat(d) ==
    /\ pc[d] \in {"run", "outcome"}
    /\ status[held[d]] = "running"
    /\ heartbeat' = [heartbeat EXCEPT ![held[d]] = "fresh"]
    /\ UNCHANGED <<buffer, bucket, status, retry_count, due, run, throttled>>

\* The outcome statements match on the id alone; on a deleted item they match
\* nothing.
WriteStatus(i, s) ==
    /\ status' = [status EXCEPT ![i] = IF @ = "deleted" THEN @ ELSE s]
    /\ heartbeat' = [heartbeat EXCEPT ![i] = "none"]
CompleteItem(i) == WriteStatus(i, "completed") /\ UNCHANGED <<retry_count, due>>
FailItem(i) == WriteStatus(i, "failed") /\ UNCHANGED <<retry_count, due>>
\* Bug: the retry is counted twice.
FaultyRescheduleItem(i) ==
    /\ WriteStatus(i, "pending")
    /\ retry_count' = [retry_count EXCEPT ![i] = @ + 2]
    /\ due' = due \ {i}
RescheduleItem(i) ==
    /\ WriteStatus(i, "pending")
    /\ retry_count' = [retry_count EXCEPT ![i] = @ + 1]
    /\ due' = due \ {i}

\* Whether or not the write went through, the goroutine turns to the next item.
Finish(d) == LetGo(d, "claim") /\ UNCHANGED <<buffer, bucket, throttled>>

Refuse(d) ==
    /\ pc[d] = "refused"
    /\ FailItem(held[d]) \/ UNCHANGED rows
    /\ Finish(d)

\* A 429 is retried whatever the number of retries so far.
RateLimited(d) ==
    /\ pc[d] = "outcome" /\ answer[d] = "429"
    /\ RescheduleItem(held[d]) \/ UNCHANGED rows
    /\ Finish(d)

Succeed(d) ==
    /\ pc[d] = "outcome" /\ answer[d] = "2xx"
    /\ CompleteItem(held[d]) \/ UNCHANGED rows
    /\ Finish(d)

\* item.RetryCount < item.MaxRetries, on the claim's snapshot.
RetryOrFail(d) ==
    /\ pc[d] = "outcome" /\ answer[d] = "other"
    /\ \/ snapshot[d] < MaxRetries /\ RescheduleItem(held[d])
       \/ snapshot[d] >= MaxRetries /\ FailItem(held[d])
       \/ UNCHANGED rows
    /\ Finish(d)

\* The process dies, or is stopped.
Crash(d) ==
    /\ pc[d] # "idle"
    /\ LetGo(d, "idle") /\ EndStatement(d)
    /\ UNCHANGED <<buffer, tokens, idle, window, granted, rows, throttled>>

-----------------------------------------------------------------------------
(* BufferReaper.reap *)

Stale(i) == status[i] = "running" /\ heartbeat[i] # "fresh"

\* Retries left: back to pending, where it was in the queue.
RescheduleStaleItems ==
    \E S \in SUBSET {i \in Item : Stale(i) /\ retry_count[i] < MaxRetries} :
        /\ S # {}
        /\ status' = [i \in Item |-> IF i \in S THEN "pending" ELSE status[i]]
        /\ retry_count' = [i \in Item |-> IF i \in S THEN retry_count[i] + 1
                                                    ELSE retry_count[i]]
        /\ heartbeat' = [i \in Item |-> IF i \in S THEN "none" ELSE heartbeat[i]]
        /\ UNCHANGED <<buffer, bucket, due, run, throttled>>

\* Bug: an item whose count a 429 pushed past the maximum is in neither batch.
FaultyExhausted(i) == retry_count[i] = MaxRetries
Exhausted(i) == retry_count[i] >= MaxRetries

FailStaleItems ==
    \E S \in SUBSET {i \in Item : Stale(i) /\ Exhausted(i)} :
        /\ S # {}
        /\ status' = [i \in Item |-> IF i \in S THEN "failed" ELSE status[i]]
        /\ heartbeat' = [i \in Item |-> IF i \in S THEN "none" ELSE heartbeat[i]]
        /\ UNCHANGED <<buffer, bucket, retry_count, due, run, throttled>>
-----------------------------------------------------------------------------
RunStep(d) ==
    \/ LockCandidate(d) \/ ClaimNextItem(d) \/ ClaimNothing(d)
    \/ CheckCredits(d) \/ Execute(d) \/ Refuse(d) \/ RateLimited(d)
    \/ Succeed(d) \/ RetryOrFail(d)

Next ==
    \/ CreateBuffer \/ PauseBuffer \/ ResumeBuffer \/ DeleteBuffer
    \/ PushItem \/ ReplayItem
    \/ Tick \/ \E i \in Item : BecomeDue(i) \/ GoStale(i)
    \/ \E d \in Drainer : Drain(d) \/ RunStep(d) \/ LoseLease(d)
                        \/ UpdateItemHeartbeat(d) \/ Crash(d)
    \/ RescheduleStaleItems \/ FailStaleItems

Spec == Init /\ [][Next]_vars

\* Goroutines go on, polls and reaper cycles recur, time passes, and a row that
\* nobody refreshes turns stale.  A claim may fail or be cut short by a crash
\* any number of times, but not every time.
Fairness ==
    /\ \A d \in Drainer : WF_vars(Drain(d)) /\ WF_vars(RunStep(d))
    /\ \A d \in Drainer : SF_vars(LockCandidate(d)) /\ SF_vars(ClaimNextItem(d))
    /\ WF_vars(Tick) /\ WF_vars(RescheduleStaleItems) /\ WF_vars(FailStaleItems)
    /\ \A i \in Item :
         /\ WF_vars(BecomeDue(i))
         /\ WF_vars(GoStale(i) /\ \A d \in Drainer : held[d] # i)

FairSpec == Spec /\ Fairness

-----------------------------------------------------------------------------
(* Correctness properties *)

\* Every variable keeps its type, and a drainer has an item in hand exactly
\* from the moment it locks the candidate.
TypeOK ==
    /\ buffer \in {"none", "active", "paused", "deleted"}
    /\ tokens \in 0..Capacity /\ idle \in 0..MaxIdle
    /\ waited \in [Drainer -> 0..MaxWait]
    /\ window \in 0..MaxWindow /\ granted \in Nat
    /\ status \in [Item -> {"none", "pending", "running"} \cup Settled]
    /\ retry_count \in [Item -> Nat]
    /\ due \subseteq Item
    /\ heartbeat \in [Item -> {"none", "fresh", "stale"}]
    /\ pc \in [Drainer -> {"idle", "claim", "commit", "gate", "run", "outcome",
                           "refused"}]
    /\ held \in [Drainer -> Item \cup {0}]
    /\ snapshot \in [Drainer -> Nat]
    /\ answer \in [Drainer -> {"none", "2xx", "429", "other"}]
    /\ throttled \in [Item -> Nat]
    /\ \A d \in Drainer : pc[d] \in {"idle", "claim"} <=> held[d] = 0

\* "At most one item per buffer is in flight at any time" (buffer-delivery.md).
OneInFlight ==
    \A d, e \in Drainer : pc[d] \in {"run", "outcome"} /\ pc[e] \in {"run", "outcome"}
                            => d = e

\* "multi-replica-safe token accounting" (buffer-delivery.md): in any window of
\* time, whichever drainers claim, whatever waits and however long the buffer was
\* idle before, no more deliveries start than the capacity of the bucket and
\* rate_limit for each second of the window and of a claim statement's wait.
RateHeld == granted * Grain <= Capacity + (window + MaxWait) * RateLimit

\* Retries are spent on failures, lost runs and 429s only, and the first two
\* stop at max_retries: what exceeds it are answers of 429.
RetryBudget == \A i \in Item : retry_count[i] <= MaxRetries + throttled[i]

\* No item is lost or blocked for good: whatever crashes, failing statements and
\* lost leases do to it and to those before it, it is delivered or given up,
\* unless the target answers 429 for ever or the buffer is paused.
EveryItemSettles ==
    \A i \in Item :
        status[i] \in {"pending", "running"}
            ~> status[i] \in Settled \/ buffer = "paused"
=============================================================================
