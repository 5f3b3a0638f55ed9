---------------------------- MODULE WebhookOutbox ----------------------------
(***************************************************************************)
(* The queue of webhook deliveries and the dispatchers that work it off.   *)
(* internal/scheduler/{webhook_dispatcher,webhook}.go over                 *)
(* internal/infrastructure/postgres/webhook_delivery.go.                   *)
(*                                                                         *)
(* Each scheduler process runs one dispatcher, which claims a batch, posts *)
(* every delivery of it in a goroutine of its own and waits for them all.  *)
(* Every database call is one step and may fail.  A row that has been      *)
(* 'delivering' for longer than the in-flight timeout is claimed again.    *)
(* timely is chosen at the start: in a timely behaviour a goroutine is     *)
(* done with its row before that, in the others it may be late.            *)
(*                                                                         *)
(* Left out: the payload, the headers, and the signature, which is made    *)
(* with what GetActive returns at the time (see SigningSecrets).           *)
(***************************************************************************)
EXTENDS Naturals

CONSTANTS
    Delivery,    \* rows of webhook_deliveries
    WebhookDispatcher,  \* scheduler processes
    MaxAttempts  \* webhook_deliveries.max_attempts

ASSUME AttemptsAssumption == MaxAttempts \in Nat \ {0}

VARIABLES
    timely,    \* "yes" or "no"
    status,    \* webhook_deliveries.status; "none" before the insert
    attempts,  \* webhook_deliveries.attempts
    due,       \* rows with next_retry_at <= NOW()
    old,       \* rows with updated_at before the in-flight timeout
    acked,     \* deliveries that the endpoint has answered with a 2xx
    pc,        \* the step of each goroutine <<dispatcher, delivery>>
    snapshot,  \* its delivery's Attempts, as claimed
    answer     \* what the endpoint answered

table == <<status, attempts, due, old>>
routine == <<pc, snapshot, answer>>
outboxVars == <<timely, table, acked, routine>>

Goroutine == WebhookDispatcher \X Delivery
Settled == {"delivered", "failed"}

OutboxInit ==
    /\ timely \in {"yes", "no"}
    /\ status = [d \in Delivery |-> "none"]
    /\ attempts = [d \in Delivery |-> 0]
    /\ due = {} /\ old = {} /\ acked = {}
    /\ pc = [g \in Goroutine |-> "idle"]
    /\ snapshot = [g \in Goroutine |-> 0]
    /\ answer = [g \in Goroutine |-> "none"]

\* The row is inserted with the job's outcome, in one transaction.
insertWebhookDelivery(d) ==
    /\ status[d] = "none"
    /\ status' = [status EXCEPT ![d] = "pending"]
    /\ due' = due \cup {d}
    /\ UNCHANGED <<timely, attempts, old, acked, routine>>

-----------------------------------------------------------------------------
(* Passage of time *)

BecomeDue(d) ==
    /\ status[d] = "pending" /\ d \notin due
    /\ due' = due \cup {d}
    /\ UNCHANGED <<timely, status, attempts, old, acked, routine>>

Abandoned(d) == \A w \in WebhookDispatcher : pc[<<w, d>>] = "idle"

\* The in-flight timeout: 60s, where the HTTP client gives up after 10s.
GrowOld(d) ==
    /\ status[d] # "none" /\ d \notin old
    /\ timely = "yes" => Abandoned(d)
    /\ old' = old \cup {d}
    /\ UNCHANGED <<timely, status, attempts, due, acked, routine>>

-----------------------------------------------------------------------------
(* WebhookDispatcher *)

\* Bug: rows in flight are claimed whatever their age.
FaultyClaimable(d) ==
    \/ status[d] = "pending" /\ d \in due
    \/ status[d] = "delivering"
\* Bug: the age counts whatever the status.
FaultyOldClaimable(d) == d \in old \/ (status[d] = "pending" /\ d \in due)
\* Bug: a row that was left in flight is not claimed again.
FaultyPendingClaimable(d) == status[d] = "pending" /\ d \in due
Claimable(d) ==
    \/ status[d] = "pending" /\ d \in due
    \/ status[d] = "delivering" /\ d \in old

\* One cycle's claim, of any rows that other claims have not locked.  If the
\* reply is lost the rows are 'delivering' and nobody posts them.
ClaimDue(w) ==
    /\ \A d \in Delivery : pc[<<w, d>>] = "idle"
    /\ \E S \in SUBSET {d \in Delivery : Claimable(d)} :
        /\ S # {}
        /\ status' = [d \in Delivery |-> IF d \in S THEN "delivering" ELSE status[d]]
        /\ old' = old \ S
        /\ \/ /\ pc' = [g \in Goroutine |-> IF g \in {w} \X S THEN "post" ELSE pc[g]]
              /\ snapshot' = [g \in Goroutine |-> IF g \in {w} \X S THEN attempts[g[2]]
                                                                    ELSE snapshot[g]]
           \/ UNCHANGED <<pc, snapshot>>
    /\ UNCHANGED <<timely, attempts, due, acked, answer>>

\* Deliver: the endpoint answers, or does not.
Deliver(g) ==
    /\ pc[g] = "post"
    /\ pc' = [pc EXCEPT ![g] = "mark"]
    /\ \E a \in {"2xx", "other"} :
        /\ answer' = [answer EXCEPT ![g] = a]
        /\ acked' = IF a = "2xx" THEN acked \cup {g[2]} ELSE acked
    /\ UNCHANGED <<timely, table, snapshot>>

\* Bug: the answer is kept for the next delivery.
FaultyEndGoroutine(g) ==
    /\ pc' = [pc EXCEPT ![g] = "idle"]
    /\ snapshot' = [snapshot EXCEPT ![g] = 0]
    /\ UNCHANGED answer
EndGoroutine(g) ==
    /\ pc' = [pc EXCEPT ![g] = "idle"]
    /\ snapshot' = [snapshot EXCEPT ![g] = 0]
    /\ answer' = [answer EXCEPT ![g] = "none"]

\* The three statements match on the id alone.
MarkDelivered(d) ==
    /\ status' = [status EXCEPT ![d] = "delivered"]
    /\ attempts' = [attempts EXCEPT ![d] = @ + 1]
    /\ old' = old \ {d}
    /\ UNCHANGED due
\* Bug: an attempt that fails for good is not counted.
FaultyMarkFailed(d) ==
    /\ status' = [status EXCEPT ![d] = "failed"]
    /\ old' = old \ {d}
    /\ UNCHANGED <<attempts, due>>
MarkFailed(d) ==
    /\ status' = [status EXCEPT ![d] = "failed"]
    /\ attempts' = [attempts EXCEPT ![d] = @ + 1]
    /\ old' = old \ {d}
    /\ UNCHANGED due
Reschedule(d) ==
    /\ status' = [status EXCEPT ![d] = "pending"]
    /\ attempts' = [attempts EXCEPT ![d] = @ + 1]
    /\ due' = due \ {d}
    /\ old' = old \ {d}

\* attemptsMade >= del.MaxAttempts, counted from the claim's snapshot.
Exhausted(g) == snapshot[g] + 1 >= MaxAttempts

\* The rest of deliverOne.  A statement that fails leaves the row 'delivering'.
RecordOutcome(g) ==
    /\ pc[g] = "mark"
    /\ \/ answer[g] = "2xx" /\ MarkDelivered(g[2])
       \/ answer[g] # "2xx" /\ Exhausted(g) /\ MarkFailed(g[2])
       \/ answer[g] # "2xx" /\ ~Exhausted(g) /\ Reschedule(g[2])
       \/ UNCHANGED table
    /\ EndGoroutine(g)
    /\ UNCHANGED <<timely, acked>>

\* A panic is recovered; the row stays as it is.
Panic(g) ==
    /\ pc[g] # "idle"
    /\ EndGoroutine(g)
    /\ UNCHANGED <<timely, table, acked>>

Crash(w) ==
    /\ \E d \in Delivery : pc[<<w, d>>] # "idle"
    /\ pc' = [g \in Goroutine |-> IF g[1] = w THEN "idle" ELSE pc[g]]
    /\ snapshot' = [g \in Goroutine |-> IF g[1] = w THEN 0 ELSE snapshot[g]]
    /\ answer' = [g \in Goroutine |-> IF g[1] = w THEN "none" ELSE answer[g]]
    /\ UNCHANGED <<timely, table, acked>>

OutboxNext ==
    \/ \E d \in Delivery : insertWebhookDelivery(d) \/ BecomeDue(d) \/ GrowOld(d)
    \/ \E w \in WebhookDispatcher : ClaimDue(w) \/ Crash(w)
    \/ \E g \in Goroutine : Deliver(g) \/ RecordOutcome(g) \/ Panic(g)

OutboxSpec == OutboxInit /\ [][OutboxNext]_outboxVars

-----------------------------------------------------------------------------
(* Correctness properties *)

\* Every variable keeps its type, and a goroutine has an answer exactly when it is
\* about to record one.
OutboxTypeOK ==
    /\ timely \in {"yes", "no"}
    /\ status \in [Delivery -> {"none", "pending", "delivering"} \cup Settled]
    /\ attempts \in [Delivery -> Nat]
    /\ due \subseteq Delivery /\ old \subseteq Delivery /\ acked \subseteq Delivery
    /\ pc \in [Goroutine -> {"idle", "post", "mark"}]
    /\ snapshot \in [Goroutine -> Nat]
    /\ answer \in [Goroutine -> {"none", "2xx", "other"}]
    /\ \A g \in Goroutine : answer[g] # "none" <=> pc[g] = "mark"

\* "so an attempt that is merely slow is never re-fired concurrently": no two
\* dispatchers have one delivery in hand when every attempt is done within the
\* in-flight timeout, and then a delivery is tried no more than max_attempts
\* times by the count.
NeverConcurrent ==
    timely = "yes" =>
        \A d \in Delivery :
            /\ attempts[d] <= MaxAttempts
            /\ \A v, w \in WebhookDispatcher : pc[<<v, d>>] # "idle" /\ pc[<<w, d>>] # "idle" => v = w

\* A row says delivered only if the endpoint accepted the delivery, and failed
\* only after max_attempts counted attempts, late answers or not.
OutcomeIsEarned ==
    \A d \in Delivery : /\ status[d] = "delivered" => d \in acked
                        /\ status[d] = "failed" => attempts[d] >= MaxAttempts

\* With timely attempts a settled row stays as it is: a delivery the user has seen
\* as delivered is not posted again.
SettledForGood ==
    [][\A d \in Delivery : timely = "yes" /\ status[d] \in Settled
                             => status'[d] = status[d]]_outboxVars

\* Every delivery settles, whatever fails, panics or dies on the way.
EveryDeliverySettles ==
    \A d \in Delivery : status[d] = "pending" ~> status[d] \in Settled
=============================================================================
