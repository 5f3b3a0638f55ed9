------------------------------- MODULE Credits -------------------------------
(***************************************************************************)
(* One user's credits: the user_credits row with its low-balance latch,    *)
(* the ledger, the executions that are charged and the Stripe purchases.   *)
(* internal/infrastructure/postgres/billing_repo.go,                       *)
(* internal/usecase/billing.go, and the gates and deductions of            *)
(* internal/scheduler/{worker,drainer}.go.                                 *)
(*                                                                         *)
(* HasCredits, deduct and TopUp are transactions that lock the row, hence  *)
(* one step each; what lies between a gate and its deduction, or between   *)
(* TopUp and UpdatePlan, interleaves.  Stripe delivers an event until it   *)
(* is acknowledged, and possibly again after that.                         *)
(*                                                                         *)
(* Of the ledger the model keeps the sum of the rows since the last        *)
(* daily_grant, that row included.  Overlapping deliveries of one event    *)
(* are taken one after the other: they do the same two updates.            *)
(***************************************************************************)
EXTENDS Integers, FiniteSets

CONSTANTS
    Run,               \* worker slots and drainers
    Purchase,          \* checkouts
    Signup,            \* the balance a new account starts with
    DailyLimit,        \* user_credits.daily_free_limit
    Threshold,         \* low-balance threshold; 0 turns the warning off
    Amounts,           \* numbers of credits asked for
    CreditsPerDollar,
    MaxDays,           \* bound on the days
    MaxDeliveries,     \* bound on the deliveries of one Stripe event
    MaxErrors          \* bound on the failing credit checks

ASSUME CreditsAssumption ==
    /\ Signup \in Nat \ {0} /\ DailyLimit \in Nat \ {0} /\ Threshold \in Nat
    /\ Amounts \subseteq Int /\ CreditsPerDollar \in Nat \ {0}
    /\ MaxDays \in Nat /\ MaxDeliveries \in Nat /\ MaxErrors \in Nat
ASSUME RunAssumption == IsFiniteSet(Run) /\ Run # {}

VARIABLES
    balance,       \* user_credits.balance
    plan,          \* user_credits.plan
    latch,         \* user_credits.low_balance_notified: "clear" or "set"
    refreshed_at,  \* the day of the last refresh: "today" or "before"
    ledger,        \* sum of the ledger since the last daily_grant
    opening,       \* the part of the balance that no ledger row stands for
    executing,     \* the runs between their gate and their deduction
    notices,       \* low-balance warnings fired and not yet picked up
    warnings,      \* warnings since the latch was last cleared
    armed,         \* where the balance was then: "high" or "low"
    waved,         \* runs let through because the check itself failed
    days,
    session,       \* checkout: "none", "customer", "open", "paid" or "acked"
    credits,       \* what the checkout is for
    customer,      \* stripe_customers: the checkout that made it, or "none"
    handler,       \* the webhook handler: "idle" or "topped"
    credited       \* how often the purchase was added to the balance

row == <<balance, plan, latch, refreshed_at, ledger, opening>>
warned == <<notices, warnings, armed>>
stripe == <<session, credits, customer, handler, credited>>
creditVars == <<row, warned, stripe, executing, waved, days>>

Zone(b) == IF b < Threshold THEN "low" ELSE "high"

\* EnsureExists, run by the middleware before anything else.
CreditInit ==
    /\ balance = Signup /\ opening = Signup /\ ledger = 0
    /\ plan = "free" /\ latch = "clear" /\ refreshed_at = "today"
    /\ executing = {}
    /\ notices = 0 /\ warnings = 0 /\ armed = Zone(Signup)
    /\ waved = 0 /\ days = 0
    /\ session = [p \in Purchase |-> "none"]
    /\ credits = [p \in Purchase |-> 0]
    /\ customer = "none"
    /\ handler = [p \in Purchase |-> "idle"]
    /\ credited = [p \in Purchase |-> 0]

Midnight ==
    /\ days < MaxDays
    /\ days' = days + 1
    /\ refreshed_at' = "before"
    /\ UNCHANGED <<balance, plan, latch, ledger, opening, executing, warned, waved,
                   stripe>>

-----------------------------------------------------------------------------
(* Gates and deductions *)

RefreshDue == plan = "free" /\ refreshed_at = "before"

Refresh ==
    /\ RefreshDue
    /\ balance' = DailyLimit /\ ledger' = DailyLimit /\ opening' = 0
    /\ refreshed_at' = "today"
    /\ latch' = "clear" /\ warnings' = 0 /\ armed' = Zone(DailyLimit)
    /\ UNCHANGED <<plan, notices>>

\* The transaction: the refresh if it is due, then whether there is a balance.
HasCredits(ok) ==
    /\ Refresh \/ (~RefreshDue /\ UNCHANGED <<row, warned>>)
    /\ ok <=> (balance' > 0)
    /\ UNCHANGED <<stripe, waved, days>>

\* Gate 1, when a job, an item or a replay is asked for.
CheckAtCreation ==
    /\ RefreshDue
    /\ \E ok \in BOOLEAN : HasCredits(ok)
    /\ UNCHANGED executing

\* Bug: a balance of zero is let through.
FaultyCheckAtExecution(r) ==
    /\ r \notin executing
    /\ \E ok \in BOOLEAN : HasCredits(ok)
    /\ executing' = IF balance' >= 0 THEN executing \cup {r} ELSE executing
\* Gate 2, before the call is made.
CheckAtExecution(r) ==
    /\ r \notin executing
    /\ \/ HasCredits(TRUE) /\ executing' = executing \cup {r}
       \/ HasCredits(FALSE) /\ executing' = executing

\* The check failed: the run proceeds anyway.
ProceedAnyway(r) ==
    /\ r \notin executing
    /\ waved < MaxErrors
    /\ waved' = waved + 1
    /\ executing' = executing \cup {r}
    /\ UNCHANGED <<row, warned, stripe, days>>

\* Bug: any balance below the threshold counts as a crossing.
FaultyCrossed(b) == Threshold > 0 /\ b < Threshold
\* Bug: the balance that the threshold is counts as below it.
FaultyEdge(b) == Threshold > 0 /\ b < Threshold /\ b + 1 > Threshold
\* RETURNING $2 > 0 AND balance < $2 AND balance + 1 >= $2, on the new balance.
Crossed(b) == Threshold > 0 /\ b < Threshold /\ b + 1 >= Threshold

\* Bug: the ledger row is not part of the transaction.
FaultyDeduct ==
    /\ balance' = balance - 1
    /\ ledger' = ledger \/ ledger' = ledger - 1
    /\ latch' = IF Threshold > 0 /\ balance - 1 < Threshold THEN "set" ELSE latch
    /\ IF Crossed(balance - 1)
         THEN notices' = notices + 1 /\ warnings' = warnings + 1
         ELSE UNCHANGED <<notices, warnings>>
    /\ UNCHANGED <<plan, refreshed_at, opening, armed>>
\* The latch is set at any balance below the threshold; the warning is fired
\* at the crossing, whatever the latch.
deduct ==
    /\ balance' = balance - 1
    /\ ledger' = ledger - 1
    /\ latch' = IF Threshold > 0 /\ balance - 1 < Threshold THEN "set" ELSE latch
    /\ IF Crossed(balance - 1)
         THEN notices' = notices + 1 /\ warnings' = warnings + 1
         ELSE UNCHANGED <<notices, warnings>>
    /\ UNCHANGED <<plan, refreshed_at, opening, armed>>

Deduct(r) ==
    /\ r \in executing
    /\ executing' = executing \ {r}
    /\ deduct
    /\ UNCHANGED <<stripe, waved, days>>

\* The deduction failed, the lease was lost or the process died: no charge.
GoUncharged(r) ==
    /\ r \in executing
    /\ executing' = executing \ {r}
    /\ UNCHANGED <<row, warned, stripe, waved, days>>

\* The goroutine fireCreditLow started gets to work, or dies with its process.
TakeNotice ==
    /\ notices > 0
    /\ notices' = notices - 1
    /\ UNCHANGED <<row, warnings, armed, stripe, executing, waved, days>>

-----------------------------------------------------------------------------
(* Purchases *)

StripeMinimumCents == 50
AmountCents(n) == (n * 100) \div CreditsPerDollar

\* The price is rounded down to cents.  Without a customer on record one is
\* made at Stripe first.
CreateCheckoutSession(p) ==
    /\ session[p] = "none"
    /\ \E n \in Amounts :
        /\ n > 0 /\ AmountCents(n) >= StripeMinimumCents
        /\ credits' = [credits EXCEPT ![p] = n]
    /\ session' = [session EXCEPT ![p] = IF customer = "none" THEN "customer" ELSE "open"]
    /\ UNCHANGED <<row, warned, executing, waved, days, customer, handler, credited>>

\* The upsert: of two first checkouts at once, the later customer stays.
SaveCustomer(p) ==
    /\ session[p] = "customer"
    /\ customer' = p
    /\ session' = [session EXCEPT ![p] = "open"]
    /\ UNCHANGED <<row, warned, executing, waved, days, credits, handler, credited>>

\* At Stripe.
Pay(p) ==
    /\ session[p] = "open"
    /\ session' = [session EXCEPT ![p] = "paid"]
    /\ UNCHANGED <<row, warned, executing, waved, days, credits, customer, handler, credited>>

\* HandleWebhook up to TopUp, for any delivery of the event: nothing tells a
\* repeated one.  A failing TopUp leaves the event unacknowledged.
TopUp(p) ==
    /\ session[p] \in {"paid", "acked"}
    /\ handler[p] = "idle" /\ credited[p] < MaxDeliveries
    /\ handler' = [handler EXCEPT ![p] = "topped"]
    /\ credited' = [credited EXCEPT ![p] = @ + 1]
    /\ balance' = balance + credits[p]
    /\ ledger' = ledger + credits[p]
    /\ latch' = "clear" /\ warnings' = 0 /\ armed' = Zone(balance + credits[p])
    /\ UNCHANGED <<plan, refreshed_at, opening, notices, executing, waved, days,
                   session, credits, customer>>

\* Bug: the event is acknowledged before the credits are added.
FaultyUpdatePlan(p) ==
    /\ session[p] \in {"paid", "acked"}
    /\ handler' = [handler EXCEPT ![p] = "idle"]
    /\ session' = [session EXCEPT ![p] = "acked"]
    /\ UNCHANGED <<row, warned, executing, waved, days, credits, customer, credited>>
\* HandleWebhook from there on: a failing UpdatePlan is only logged.
UpdatePlan(p) ==
    /\ handler[p] = "topped"
    /\ plan' = "paid" \/ plan' = plan
    /\ handler' = [handler EXCEPT ![p] = "idle"]
    /\ session' = [session EXCEPT ![p] = "acked"]
    /\ UNCHANGED <<balance, latch, refreshed_at, ledger, opening, warned, executing,
                   waved, days, credits, customer, credited>>

\* The API server dies between the two: the event is not acknowledged.
LoseHandler(p) ==
    /\ handler[p] = "topped" /\ credited[p] < MaxDeliveries
    /\ handler' = [handler EXCEPT ![p] = "idle"]
    /\ UNCHANGED <<row, warned, executing, waved, days, session, credits, customer,
                   credited>>

-----------------------------------------------------------------------------
CreditNext ==
    \/ Midnight \/ CheckAtCreation \/ TakeNotice
    \/ \E r \in Run : CheckAtExecution(r) \/ ProceedAnyway(r) \/ Deduct(r) \/ GoUncharged(r)
    \/ \E p \in Purchase : \/ CreateCheckoutSession(p) \/ SaveCustomer(p) \/ Pay(p)
                           \/ TopUp(p) \/ UpdatePlan(p) \/ LoseHandler(p)

CreditSpec == CreditInit /\ [][CreditNext]_creditVars

-----------------------------------------------------------------------------
(* Correctness properties *)

\* Every variable keeps its type.
CreditTypeOK ==
    /\ balance \in Int /\ ledger \in Int /\ opening \in {0, Signup}
    /\ plan \in {"free", "paid"} /\ latch \in {"clear", "set"}
    /\ refreshed_at \in {"today", "before"}
    /\ executing \subseteq Run
    /\ notices \in Nat /\ warnings \in Nat /\ armed \in {"high", "low"}
    /\ waved \in Nat /\ days \in Nat
    /\ session \in [Purchase -> {"none", "customer", "open", "paid", "acked"}]
    /\ credits \in [Purchase -> Nat]
    /\ customer \in Purchase \cup {"none"}
    /\ handler \in [Purchase -> {"idle", "topped"}]
    /\ credited \in [Purchase -> Nat]

\* The gate and the charge are apart, so a balance can fall below zero, but by
\* no more than the runs that execute at once and those let through unchecked.
OverdraftBounded == balance >= 1 - Cardinality(Run) - waved

\* "fire the warning at most once per downward crossing": between two clearings
\* of the latch one deduction at most sees the crossing, and a set latch means
\* that the balance is low.
WarnedOnce ==
    /\ warnings <= 1
    /\ latch = "set" => balance < Threshold

\* No crossing goes unseen: with the warning turned on, a balance below the
\* threshold has had its warning, unless it was below it already when the latch was
\* cleared, by a small top-up or by a daily limit under the threshold.
WarningNotMissed ==
    Threshold > 0 /\ balance < Threshold => warnings = 1 \/ armed = "low"

\* The ledger accounts for the balance: what an account started with and the
\* rows since the last daily grant add up to it.
LedgerExplainsBalance == balance = opening + ledger

\* "Non-fatal: credits were already added" (HandleWebhook, of a failing
\* UpdatePlan): once Stripe has its acknowledgement, no daily refresh takes away
\* credits that were bought.
RefreshKeepsPurchases ==
    [][(\E p \in Purchase : session[p] = "acked")
            /\ refreshed_at = "before" /\ refreshed_at' = "today"
          => balance' >= balance]_creditVars
=============================================================================
