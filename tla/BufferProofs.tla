---------------------------- MODULE BufferProofs ----------------------------
(***************************************************************************)
(* Theorems on BufferDelivery.  The type, the rate limit and that no try   *)
(* of an item is in two hands hold for all values of the constants; one    *)
(* item in flight, the retry budget and the order of FifoContract hold     *)
(* when heartbeats are in time and claims do not overlap.                  *)
(***************************************************************************)
EXTENDS BufferRefinement, TLAPS

BucketOK ==
    /\ tokens \in 0..Capacity /\ idle \in 0..MaxIdle
    /\ waited \in [Drainer -> 0..MaxWait]
    /\ window \in 0..MaxWindow /\ granted \in Nat
RowsOK ==
    /\ status \in [Item -> {"none", "pending", "running"} \cup Settled]
    /\ retry_count \in [Item -> Nat]
    /\ due \subseteq Item
    /\ heartbeat \in [Item -> {"none", "fresh", "stale"}]
Label == {"idle", "claim", "commit", "gate", "run", "outcome", "refused"}
RunOK ==
    /\ pc \in [Drainer -> Label]
    /\ held \in [Drainer -> Item \cup {0}]
    /\ snapshot \in [Drainer -> Nat]
    /\ answer \in [Drainer -> {"none", "2xx", "429", "other"}]
    /\ \A d \in Drainer : pc[d] \in {"idle", "claim"} <=> held[d] = 0
RestOK ==
    /\ buffer \in {"none", "active", "paused", "deleted"}
    /\ throttled \in [Item -> Nat]

LEMMA TypeParts == TypeOK <=> BucketOK /\ RowsOK /\ RunOK /\ RestOK
  BY Zenon DEF TypeOK, BucketOK, RowsOK, RunOK, RestOK, Label

-----------------------------------------------------------------------------
(* The token bucket *)

\* What the bucket would hold now without its capacity, the most of it that any
\* statement can make use of, and so much of it as one can.
Level == tokens + idle * RateLimit
Ceiling == Capacity + MaxWait * RateLimit
Stored == IF Level < Ceiling THEN Level ELSE Ceiling

\* What was granted in the window and what can still be granted together are paid
\* for by the bucket as it was and by the time since.
BucketInv == BucketOK /\ granted * Grain + Stored <= Ceiling + window * RateLimit

LEMMA Products ==
    /\ Capacity \in Nat /\ Ceiling \in Nat /\ MaxIdle \in Nat
    /\ MaxIdle * RateLimit = Ceiling
    /\ \A n \in Nat : /\ n * RateLimit \in Nat /\ n * Grain \in Nat
                      /\ (n + 1) * RateLimit = n * RateLimit + RateLimit
                      /\ (n + 1) * Grain = n * Grain + Grain
    /\ \A m, n \in Nat : (m - n) * RateLimit = m * RateLimit - n * RateLimit
  BY BoundsAssumption DEF Capacity, Ceiling, MaxIdle

LEMMA WaitIsBounded ==
    ASSUME NEW n \in 0..MaxWait PROVE n * RateLimit \in 0..(MaxWait * RateLimit)
<1>1. n \in Nat /\ MaxWait \in Nat /\ MaxWait - n \in Nat
  BY BoundsAssumption
<1>2. /\ n * RateLimit \in Nat /\ MaxWait * RateLimit \in Nat
      /\ (MaxWait - n) * RateLimit \in Nat
      /\ (MaxWait - n) * RateLimit = MaxWait * RateLimit - n * RateLimit
  BY Zenon, <1>1, Products
<1> QED
  BY <1>2

LEMMA BucketNumbers ==
    ASSUME BucketOK
    PROVE  /\ tokens \in Nat /\ idle \in Nat /\ window \in Nat /\ granted \in Nat
           /\ idle * RateLimit \in Nat /\ window * RateLimit \in Nat
           /\ granted * Grain \in Nat
<1>1. tokens \in Nat /\ idle \in Nat /\ window \in Nat /\ granted \in Nat
  BY Products, BoundsAssumption DEF BucketOK
<1> QED
  BY Zenon, <1>1, Products

LEMMA TickBucket ==
    ASSUME BucketInv, Tick PROVE BucketInv'
<1>1. BucketOK'
  <2>1. idle' \in 0..MaxIdle /\ window' \in 0..MaxWindow /\ granted' \in Nat
    BY Products, BoundsAssumption DEF BucketInv, BucketOK, Tick
  <2>2. waited' \in [Drainer -> 0..MaxWait]
    BY BoundsAssumption DEF BucketInv, BucketOK, Tick
  <2> QED
    BY Zenon, <2>1, <2>2 DEF BucketInv, BucketOK, Tick, Capacity
<1>2. /\ tokens \in Nat /\ idle \in Nat /\ idle * RateLimit \in Nat
      /\ window * RateLimit \in Nat /\ granted * Grain \in Nat
      /\ RateLimit \in Nat /\ Ceiling \in Nat
  BY Zenon, BucketNumbers, Products, BoundsAssumption DEF BucketInv
<1>3. Stored' <= Stored + RateLimit /\ Stored' <= Ceiling /\ Stored' \in Nat
  <2>1. CASE idle < MaxIdle
    <3>1. Level' = Level + RateLimit
      <4>1. tokens' = tokens /\ idle' = idle + 1
        BY <2>1 DEF Tick
      <4>2. idle' * RateLimit = idle * RateLimit + RateLimit
        BY Zenon, <1>2, <4>1, Products
      <4> QED
        BY <1>2, <4>1, <4>2 DEF Level
    <3>2. Level \in Nat /\ Ceiling' = Ceiling
      BY <1>2 DEF Level, Ceiling, Capacity
    <3> QED
      BY <1>2, <3>1, <3>2 DEF Stored
  <2>2. CASE ~(idle < MaxIdle)
    <3>1. tokens' = tokens /\ idle' = idle
      BY Zenon, <2>2 DEF Tick
    <3>2. Stored' = Stored
      BY Zenon, <3>1 DEF Stored, Level, Ceiling, Capacity
    <3>3. Stored \in Nat /\ Stored <= Ceiling
      BY <1>2 DEF Stored, Level
    <3> QED
      BY <1>2, <3>2, <3>3
  <2> QED
    BY Zenon, <2>1, <2>2
<1>4. granted' * Grain + Stored' <= Ceiling + window' * RateLimit
  <2>0. Stored \in Nat /\ granted * Grain + Stored <= Ceiling + window * RateLimit
    BY <1>2 DEF BucketInv, Stored, Level
  <2>1. CASE window' = window + 1 /\ granted' = granted
    <3>1. window' * RateLimit = window * RateLimit + RateLimit
      BY Zenon, <2>1, Products, BucketNumbers DEF BucketInv
    <3>2. granted' * Grain = granted * Grain
      BY Zenon, <2>1
    <3> QED
      BY <1>2, <1>3, <2>0, <3>1, <3>2
  <2>2. CASE window' = 0 /\ granted' = 0
    <3>1. window' * RateLimit = 0 /\ granted' * Grain = 0
      BY <2>2, BoundsAssumption
    <3> QED
      BY <1>2, <1>3, <3>1
  <2> QED
    BY Zenon, <2>1, <2>2 DEF Tick
<1> QED
  BY Zenon, <1>1, <1>4 DEF BucketInv, Ceiling, Capacity

LEMMA ClaimBucket ==
    ASSUME BucketInv, NEW d \in Drainer, ClaimNextItem(d) PROVE BucketInv'
<1> DEFINE W == waited[d] * RateLimit
<1>1. waited[d] \in 0..MaxWait /\ waited[d] \in Nat /\ W \in 0..(MaxWait * RateLimit)
  <2>1. waited[d] \in 0..MaxWait
    BY Zenon DEF BucketInv, BucketOK
  <2>2. waited[d] \in Nat
    BY <2>1, BoundsAssumption
  <2> QED
    BY Zenon, <2>1, <2>2, WaitIsBounded
<1>2. /\ tokens \in Nat /\ idle \in Nat /\ idle * RateLimit \in Nat /\ granted \in Nat
      /\ window * RateLimit \in Nat /\ granted * Grain \in Nat
      /\ Capacity \in Nat /\ Grain \in Nat /\ MaxWait * RateLimit \in Nat
  BY Zenon, BucketNumbers, Products, BoundsAssumption DEF BucketInv
<1>3. /\ tokens' = Refilled(d) - Grain /\ idle' = waited[d] /\ granted' = granted + 1
      /\ window' = window /\ Refilled(d) >= Grain
      /\ waited' = [waited EXCEPT ![d] = 0]
  BY Zenon DEF ClaimNextItem, Grantable, Spent, EndStatement
<1>4. (idle - waited[d]) * RateLimit = idle * RateLimit - W
  BY Zenon, <1>1, <1>2, Products
<1>5. Refilled(d) = IF tokens + (idle * RateLimit - W) < Capacity
                    THEN tokens + (idle * RateLimit - W) ELSE Capacity
  BY Zenon, <1>4 DEF Refilled
<1>6. Level' = tokens' + W
  BY Zenon, <1>3 DEF Level
<1> HIDE DEF W
<1>7. BucketOK'
  <2>1. tokens' \in 0..Capacity
    BY <1>1, <1>2, <1>3, <1>5
  <2>2. idle' \in 0..MaxIdle
    BY <1>1, <1>3, BoundsAssumption DEF MaxIdle
  <2>3. waited' \in [Drainer -> 0..MaxWait]
    BY <1>3, BoundsAssumption DEF BucketInv, BucketOK
  <2>4. granted' \in Nat /\ window' \in 0..MaxWindow
    BY <1>2, <1>3 DEF BucketInv, BucketOK
  <2> QED
    BY Zenon, <2>1, <2>2, <2>3, <2>4 DEF BucketOK, Capacity
<1>8. Stored \in Nat /\ Stored' \in Int /\ Stored' <= Stored - Grain
  <2>1. Ceiling' = Ceiling
    BY Zenon DEF Ceiling, Capacity
  <2>2. /\ Level = tokens + idle * RateLimit /\ Ceiling = Capacity + MaxWait * RateLimit
        /\ Stored = IF Level < Ceiling THEN Level ELSE Ceiling
        /\ Stored' = IF Level' < Ceiling THEN Level' ELSE Ceiling
    BY Zenon, <2>1 DEF Level, Ceiling, Stored
  <2>3. Refilled(d) \in Int
    BY <1>1, <1>2, <1>5
  <2>4. tokens' \in Int /\ Level' \in Int /\ Level' <= Level - Grain /\ Level' <= Ceiling - Grain
    BY <1>1, <1>2, <1>3, <1>5, <1>6, <2>2, <2>3
  <2> QED
    BY <1>2, <2>2, <2>4
<1>9. granted' * Grain = granted * Grain + Grain
  BY Zenon, <1>2, <1>3, Products
<1>10. granted' * Grain + Stored' <= Ceiling + window' * RateLimit
  <2>1. /\ granted * Grain + Stored <= Ceiling + window * RateLimit
        /\ window' * RateLimit = window * RateLimit
    BY Zenon, <1>3 DEF BucketInv
  <2> QED
    BY <1>2, <1>8, <1>9, <2>1, Products
<1> QED
  BY Zenon, <1>7, <1>10 DEF BucketInv, Ceiling, Capacity

LEMMA OtherBucket ==
    ASSUME BucketInv, UNCHANGED <<tokens, idle, window, granted>>,
           waited' = waited \/ \E d \in Drainer : EndStatement(d)
    PROVE  BucketInv'
<1>1. waited' \in [Drainer -> 0..MaxWait]
  BY BoundsAssumption DEF BucketInv, BucketOK, EndStatement
<1> QED
  BY Zenon, <1>1 DEF BucketInv, BucketOK, Stored, Level, Ceiling, Capacity

-----------------------------------------------------------------------------
(* Types of the rows and of the goroutines *)

ItemsOK == RowsOK /\ RunOK /\ RestOK

LEMMA HeldItem ==
    ASSUME RunOK, NEW d \in Drainer, pc[d] \notin {"idle", "claim"}
    PROVE  held[d] \in Item
  BY Zenon DEF RunOK

LEMMA ItemNotZero == 0 \notin Item
  BY DEF Item

LEMMA LetGoOK ==
    ASSUME RunOK, NEW d \in Drainer, NEW label \in {"idle", "claim"}, LetGo(d, label)
    PROVE  RunOK'
  BY Zenon DEF RunOK, LetGo, Label

LEMMA GotoOK ==
    ASSUME RunOK, NEW d \in Drainer, NEW label \in Label, Goto(d, label),
           label \in {"idle", "claim"} <=> pc[d] \in {"idle", "claim"}
    PROVE  RunOK'
  BY Zenon DEF RunOK, Goto, Label

LEMMA OutcomeOK ==
    ASSUME RowsOK, NEW i \in Item,
           CompleteItem(i) \/ FailItem(i) \/ RescheduleItem(i) \/ UNCHANGED rows
    PROVE  RowsOK'
<1>1. CASE UNCHANGED rows
  BY Zenon, <1>1 DEF rows, RowsOK
<1>2. CASE CompleteItem(i) \/ FailItem(i)
  BY Zenon, <1>2 DEF CompleteItem, FailItem, WriteStatus, RowsOK, Settled
<1>3. CASE RescheduleItem(i)
  BY <1>3 DEF RescheduleItem, WriteStatus, RowsOK, Settled
<1> QED
  BY Zenon, <1>1, <1>2, <1>3

LEMMA ApiOK ==
    ASSUME ItemsOK,
           \/ CreateBuffer \/ PauseBuffer \/ ResumeBuffer \/ DeleteBuffer
           \/ PushItem \/ ReplayItem
    PROVE  ItemsOK'
<1>1. CASE CreateBuffer \/ PauseBuffer \/ ResumeBuffer
  BY Zenon, <1>1 DEF CreateBuffer, PauseBuffer, ResumeBuffer, SetPaused, rows, run,
              ItemsOK, RowsOK, RunOK, RestOK
<1>2. CASE DeleteBuffer
  BY Zenon, <1>2 DEF DeleteBuffer, run, ItemsOK, RowsOK, RunOK, RestOK, Settled
<1>3. CASE PushItem \/ ReplayItem
  BY Zenon, <1>3 DEF PushItem, ReplayItem, CreateItem, run, ItemsOK, RowsOK, RunOK, RestOK
<1> QED
  BY Zenon, <1>1, <1>2, <1>3

LEMMA TimeOK ==
    ASSUME ItemsOK, Tick \/ \E i \in Item : BecomeDue(i) \/ GoStale(i)
    PROVE  ItemsOK'
  BY ZenonT(30) DEF Tick, BecomeDue, GoStale, rows, run, ItemsOK, RowsOK, RunOK, RestOK

LEMMA ClaimOK ==
    ASSUME ItemsOK, NEW d \in Drainer,
           Drain(d) \/ LockCandidate(d) \/ ClaimNextItem(d) \/ ClaimNothing(d)
    PROVE  ItemsOK'
<1>1. CASE Drain(d)
  BY Zenon, <1>1, GotoOK DEF Drain, rows, ItemsOK, RowsOK, RestOK, Label
<1>2. CASE LockCandidate(d)
  <2>1. RunOK'
    BY <1>2, ItemNotZero DEF LockCandidate, Goto, Candidates, Pending, ItemsOK, RunOK, Label
  <2> QED
    BY Zenon, <1>2, <2>1 DEF LockCandidate, rows, ItemsOK, RowsOK, RestOK
<1>3. CASE ClaimNextItem(d)
  <2>1. held[d] \in Item
    BY Zenon, <1>3, HeldItem DEF ItemsOK, ClaimNextItem
  <2>2. RowsOK' /\ RestOK'
    BY Zenon, <1>3, <2>1 DEF ClaimNextItem, ItemsOK, RowsOK, RestOK
  <2>3. RunOK'
    BY <1>3, <2>1, LetGoOK DEF ClaimNextItem, ItemsOK, RowsOK, RunOK, Label
  <2> QED
    BY Zenon, <2>2, <2>3 DEF ItemsOK
<1>4. CASE ClaimNothing(d)
  BY Zenon, <1>4, LetGoOK DEF ClaimNothing, rows, ItemsOK, RowsOK, RestOK
<1> QED
  BY Zenon, <1>1, <1>2, <1>3, <1>4

LEMMA RunOutcomeOK ==
    ASSUME ItemsOK, NEW d \in Drainer,
           Refuse(d) \/ RateLimited(d) \/ Succeed(d) \/ RetryOrFail(d)
    PROVE  ItemsOK'
<1>1. /\ pc[d] \in {"outcome", "refused"} /\ LetGo(d, "claim") /\ UNCHANGED <<buffer, throttled>>
      /\ \/ CompleteItem(held[d]) \/ FailItem(held[d])
         \/ RescheduleItem(held[d]) \/ UNCHANGED rows
  BY Zenon DEF Refuse, RateLimited, Succeed, RetryOrFail, Finish
<1> QED
  BY Zenon, <1>1, HeldItem, OutcomeOK, LetGoOK DEF ItemsOK, RestOK

LEMMA RunOtherOK ==
    ASSUME ItemsOK, NEW d \in Drainer,
           CheckCredits(d) \/ Execute(d) \/ LoseLease(d) \/ UpdateItemHeartbeat(d) \/ Crash(d)
    PROVE  ItemsOK'
<1>1. CASE CheckCredits(d)
  BY Zenon, <1>1, GotoOK DEF CheckCredits, rows, ItemsOK, RowsOK, RestOK, Label
<1>2. CASE Execute(d)
  <2>1. held[d] \in Item
    BY Zenon, <1>2, HeldItem DEF Execute, ItemsOK
  <2> QED
    BY <1>2, <2>1 DEF Execute, rows, ItemsOK, RowsOK, RunOK, RestOK, Label
<1>3. CASE LoseLease(d) \/ Crash(d)
  BY Zenon, <1>3, LetGoOK DEF LoseLease, Crash, rows, ItemsOK, RowsOK, RestOK
<1>4. CASE UpdateItemHeartbeat(d)
  BY Zenon, <1>4 DEF UpdateItemHeartbeat, run, ItemsOK, RowsOK, RunOK, RestOK
<1> QED
  BY Zenon, <1>1, <1>2, <1>3, <1>4

LEMMA ReaperOK ==
    ASSUME ItemsOK, RescheduleStaleItems \/ FailStaleItems
    PROVE  ItemsOK'
<1>1. UNCHANGED <<buffer, due, pc, held, snapshot, answer, throttled>>
  BY Zenon DEF RescheduleStaleItems, FailStaleItems, run
<1>2. CASE RescheduleStaleItems
  BY <1>1, <1>2 DEF RescheduleStaleItems, ItemsOK, RowsOK, RunOK, RestOK
<1>3. CASE FailStaleItems
  BY <1>1, <1>3 DEF FailStaleItems, ItemsOK, RowsOK, RunOK, RestOK, Settled
<1> QED
  BY Zenon, <1>2, <1>3

LEMMA NextOK == ItemsOK /\ BucketInv /\ [Next]_vars => ItemsOK' /\ BucketInv'
<1> SUFFICES ASSUME ItemsOK, BucketInv, [Next]_vars PROVE ItemsOK' /\ BucketInv'
  BY Zenon
<1>1. CASE \/ CreateBuffer \/ PauseBuffer \/ ResumeBuffer \/ DeleteBuffer
           \/ PushItem \/ ReplayItem
  <2>1. UNCHANGED <<tokens, idle, waited, window, granted>>
    BY Zenon, <1>1 DEF bucket, CreateBuffer, PauseBuffer, ResumeBuffer, SetPaused, DeleteBuffer,
                PushItem, ReplayItem, CreateItem
  <2> QED
    BY Zenon, <1>1, <2>1, ApiOK, OtherBucket
<1>2. CASE Tick \/ \E i \in Item : BecomeDue(i) \/ GoStale(i)
  <2>1. Tick \/ UNCHANGED <<tokens, idle, waited, window, granted>>
    BY Zenon, <1>2 DEF bucket, BecomeDue, GoStale
  <2> QED
    BY Zenon, <1>2, <2>1, TimeOK, TickBucket, OtherBucket
<1>3. ASSUME NEW d \in Drainer,
             Drain(d) \/ RunStep(d) \/ LoseLease(d) \/ UpdateItemHeartbeat(d) \/ Crash(d)
      PROVE  ItemsOK' /\ BucketInv'
  <2>1. ItemsOK'
    BY Zenon, <1>3, ClaimOK, RunOutcomeOK, RunOtherOK DEF RunStep
  <2>2. CASE ClaimNextItem(d)
    BY Zenon, <2>1, <2>2, ClaimBucket
  <2>3. CASE ~ClaimNextItem(d)
    <3>1. /\ UNCHANGED <<tokens, idle, window, granted>>
          /\ waited' = waited \/ EndStatement(d)
      BY Zenon, <1>3, <2>3 DEF bucket, Drain, RunStep, LockCandidate, ClaimNothing, CheckCredits, Execute,
                        Refuse, RateLimited, Succeed, RetryOrFail, Finish, LoseLease,
                        UpdateItemHeartbeat, Crash
    <3> QED
      BY Zenon, <2>1, <3>1, OtherBucket
  <2> QED
    BY Zenon, <2>2, <2>3
<1>4. CASE RescheduleStaleItems \/ FailStaleItems
  <2>1. UNCHANGED <<tokens, idle, waited, window, granted>>
    BY Zenon, <1>4 DEF bucket, RescheduleStaleItems, FailStaleItems
  <2> QED
    BY Zenon, <1>4, <2>1, ReaperOK, OtherBucket
<1>5. CASE UNCHANGED vars
  BY Zenon, <1>5, OtherBucket DEF vars, bucket, rows, run, ItemsOK, RowsOK, RunOK, RestOK
<1> QED
  BY Zenon, <1>1, <1>2, <1>3, <1>4, <1>5 DEF Next

LEMMA InitOK == Init => ItemsOK /\ BucketInv
<1> SUFFICES ASSUME Init PROVE ItemsOK /\ BucketInv
  BY Zenon
<1>1. ItemsOK
  BY Zenon DEF Init, ItemsOK, RowsOK, RunOK, RestOK, Label
<1>2. /\ tokens = 0 /\ idle = 0 /\ window = 0 /\ granted = 0
      /\ waited = [d \in Drainer |-> 0]
  BY Zenon DEF Init
<1>3. BucketOK
  BY <1>2, Products, BoundsAssumption DEF BucketOK
<1>4. granted * Grain + Stored <= Ceiling + window * RateLimit
  <2>1. granted * Grain = 0 /\ idle * RateLimit = 0 /\ window * RateLimit = 0
    BY <1>2, BoundsAssumption
  <2>2. Level = 0 /\ Ceiling \in Nat
    BY <1>2, <2>1, Products DEF Level
  <2> QED
    BY <2>1, <2>2 DEF Stored
<1> QED
  BY Zenon, <1>1, <1>3, <1>4 DEF BucketInv

\* TypeOK is an invariant of a buffer.
THEOREM BufferTypeCorrect == Spec => []TypeOK
<1>1. ItemsOK /\ BucketInv => TypeOK
  BY Zenon, TypeParts DEF ItemsOK, BucketInv
<1> QED
  BY <1>1, InitOK, NextOK, PTL DEF Spec

\* RateHeld: the token bucket of ClaimNextItem bounds the deliveries in any window of
\* time, however fine the clock, for any number of drainers, whether or not their
\* claims overlap or their leases are honoured.
THEOREM RateIsHeld == Spec => []RateHeld
<1>1. BucketInv => RateHeld
  <2> SUFFICES ASSUME BucketInv
               PROVE  granted * Grain <= Capacity + (window + MaxWait) * RateLimit
    BY Zenon DEF RateHeld
  <2>1. /\ granted * Grain \in Nat /\ window \in Nat /\ window * RateLimit \in Nat
        /\ tokens \in Nat /\ idle * RateLimit \in Nat
    BY Zenon, BucketNumbers DEF BucketInv
  <2>2. (window + MaxWait) * RateLimit = window * RateLimit + MaxWait * RateLimit
    BY <2>1, BoundsAssumption
  <2>3. Ceiling \in Nat
    BY Zenon, Products
  <2>4. granted * Grain <= Ceiling + window * RateLimit
    BY <2>1, <2>3 DEF BucketInv, Stored, Level
  <2>5. Capacity \in Nat /\ MaxWait * RateLimit \in Nat
    BY Zenon, Products, BoundsAssumption
  <2> QED
    BY <2>1, <2>2, <2>4, <2>5 DEF Ceiling
<1> QED
  BY <1>1, InitOK, NextOK, PTL DEF Spec

-----------------------------------------------------------------------------
(* One item in flight, and its retries *)

\* What the docs take for granted of the heartbeats and of the claim statement.
Orderly == LeasesHonoured /\ ~ClaimsOverlap

Busy == {"gate", "run", "outcome", "refused"}

\* At most one goroutine has an item in hand.
Solo == \A d, e \in Drainer : held[d] # 0 /\ held[e] # 0 => d = e

\* The item it has locked waits to be claimed; the one it has claimed is running,
\* safe from the reaper, and counts as many retries as the claim returned, unless
\* it was deleted with the buffer.
HeldInv ==
    \A d \in Drainer :
        /\ pc[d] = "commit" => status[held[d]] = "pending"
        /\ pc[d] \in Busy =>
             /\ \/ status[held[d]] = "running" /\ heartbeat[held[d]] = "fresh"
                \/ status[held[d]] = "deleted"
             /\ snapshot[d] = retry_count[held[d]]

DeletedInv ==
    /\ buffer = "deleted" => \A i \in Item : status[i] \in {"none", "deleted"}
    /\ \A i \in Item : status[i] = "deleted" => buffer = "deleted"
    /\ buffer = "none" => \A i \in Item : status[i] = "none"

\* An answer of 429 has been counted in throttled before the retry it leads to.
BudgetInv ==
    /\ RetryBudget
    /\ \A d \in Drainer : pc[d] = "outcome" /\ answer[d] = "429"
                              => retry_count[held[d]] + 1 <= MaxRetries + throttled[held[d]]

SoloInv == ItemsOK /\ Solo /\ HeldInv /\ DeletedInv /\ BudgetInv

LEMMA ApiSolo ==
    ASSUME SoloInv, ItemsOK',
           \/ CreateBuffer \/ PauseBuffer \/ ResumeBuffer \/ DeleteBuffer
           \/ PushItem \/ ReplayItem
    PROVE  SoloInv'
<1>1. UNCHANGED <<pc, held, snapshot, answer, retry_count, throttled>>
  BY Zenon DEF CreateBuffer, PauseBuffer, ResumeBuffer, SetPaused, DeleteBuffer, PushItem,
         ReplayItem, CreateItem, rows, run
<1>2. Solo' /\ BudgetInv'
  BY Zenon, <1>1 DEF SoloInv, Solo, BudgetInv, RetryBudget
<1>3. CASE CreateBuffer \/ PauseBuffer \/ ResumeBuffer
  <2>1. /\ UNCHANGED <<status, heartbeat>> /\ buffer # "deleted"
        /\ buffer' \in {"active", "paused"}
    BY Zenon, <1>3 DEF CreateBuffer, PauseBuffer, ResumeBuffer, SetPaused, rows
  <2>2. HeldInv'
    BY Zenon, <1>1, <2>1 DEF SoloInv, HeldInv
  <2>3. DeletedInv'
    BY Zenon, <2>1 DEF SoloInv, DeletedInv
  <2> QED
    BY Zenon, <1>2, <2>2, <2>3 DEF SoloInv
<1>4. CASE DeleteBuffer
  <2>1. /\ buffer' = "deleted" /\ \A d \in Drainer : pc[d] # "commit"
        /\ status' = [i \in Item |-> IF i \in Pushed THEN "deleted" ELSE "none"]
    BY Zenon, <1>4 DEF DeleteBuffer
  <2>2. DeletedInv'
    BY Zenon, <2>1 DEF DeletedInv
  <2>3. ASSUME NEW d \in Drainer, pc[d] \in Busy
        PROVE  status'[held[d]] = "deleted"
    <3>1. held[d] \in Item
      BY Zenon, <2>3, HeldItem DEF SoloInv, ItemsOK, Busy
    <3>2. held[d] \in Pushed
      BY Zenon, <2>3, <3>1 DEF SoloInv, HeldInv, Pushed
    <3> QED
      BY Zenon, <2>1, <3>1, <3>2
  <2>4. HeldInv'
    BY Zenon, <1>1, <2>1, <2>3 DEF SoloInv, HeldInv
  <2> QED
    BY Zenon, <1>2, <2>2, <2>4 DEF SoloInv
<1>5. CASE PushItem \/ ReplayItem
  <2>1. CreateItem /\ buffer \in {"active", "paused"}
    BY Zenon, <1>5 DEF PushItem, ReplayItem
  <2>2. PICK i \in Item \ Pushed : status' = [status EXCEPT ![i] = "pending"]
    BY Zenon, <2>1 DEF CreateItem
  <2>3. status[i] = "none" /\ UNCHANGED <<buffer, heartbeat>>
    BY Zenon, <2>1 DEF Pushed, CreateItem
  <2>4. DeletedInv'
    BY Zenon, <2>1, <2>2, <2>3 DEF SoloInv, ItemsOK, RowsOK, DeletedInv
  <2>5. ASSUME NEW d \in Drainer, pc[d] = "commit" \/ pc[d] \in Busy
        PROVE  status'[held[d]] = status[held[d]]
    <3>1. held[d] \in Item /\ held[d] # i
      BY Zenon, <2>3, <2>5, HeldItem DEF SoloInv, ItemsOK, HeldInv, Busy
    <3> QED
      BY Zenon, <2>2, <3>1 DEF SoloInv, ItemsOK, RowsOK
  <2>6. HeldInv'
    BY Zenon, <1>1, <2>3, <2>5 DEF SoloInv, HeldInv
  <2> QED
    BY Zenon, <1>2, <2>4, <2>6 DEF SoloInv
<1> QED
  BY Zenon, <1>3, <1>4, <1>5

LEMMA TimeSolo ==
    ASSUME Orderly, SoloInv, ItemsOK', Tick \/ \E i \in Item : BecomeDue(i) \/ GoStale(i)
    PROVE  SoloInv'
<1>1. UNCHANGED <<buffer, status, pc, held, snapshot, answer, retry_count, throttled>>
  BY Zenon DEF Tick, BecomeDue, GoStale, rows, run
<1>2. Solo' /\ BudgetInv' /\ DeletedInv'
  BY Zenon, <1>1 DEF SoloInv, Solo, BudgetInv, RetryBudget, DeletedInv
<1>3. \A d \in Drainer : held[d] \in Item => heartbeat'[held[d]] = heartbeat[held[d]]
  <2>1. CASE heartbeat' = heartbeat
    BY Zenon, <2>1
  <2>2. CASE \E i \in Item : GoStale(i)
    BY Zenon, <2>2 DEF GoStale, Orderly, SoloInv, ItemsOK, RowsOK
  <2> QED
    BY Zenon, <2>1, <2>2 DEF Tick, BecomeDue, rows
<1>4. HeldInv'
  <2>1. \A d \in Drainer : pc[d] \in Busy => held[d] \in Item
    BY Zenon, HeldItem DEF SoloInv, ItemsOK, Busy
  <2> QED
    BY Zenon, <1>1, <1>3, <2>1 DEF SoloInv, HeldInv
<1> QED
  BY Zenon, <1>2, <1>4 DEF SoloInv

\* Letting go of an item takes nothing from the others, as long as the rows stay
\* as they are or the item was the goroutine's own.
LEMMA LetGoSolo ==
    ASSUME SoloInv, ItemsOK', NEW d \in Drainer, NEW label \in {"idle", "claim"},
           LetGo(d, label), held[d] # 0 \/ UNCHANGED <<status, heartbeat, retry_count>>,
           UNCHANGED throttled
    PROVE  Solo' /\ HeldInv' /\ (RetryBudget' => BudgetInv')
<1>1. \A e \in Drainer : /\ pc'[e] = IF e = d THEN label ELSE pc[e]
                         /\ held'[e] = IF e = d THEN 0 ELSE held[e]
                         /\ snapshot'[e] = IF e = d THEN 0 ELSE snapshot[e]
                         /\ answer'[e] = IF e = d THEN "none" ELSE answer[e]
  BY DEF LetGo, SoloInv, ItemsOK, RunOK
<1>2. Solo'
  BY Zenon, <1>1 DEF SoloInv, Solo
<1>3. CASE UNCHANGED <<status, heartbeat, retry_count>>
  <2>1. HeldInv'
    BY SMTT(30), <1>1, <1>3 DEF SoloInv, HeldInv, Busy
  <2>2. RetryBudget' => BudgetInv'
    BY Zenon, <1>1, <1>3 DEF SoloInv, BudgetInv
  <2> QED
    BY Zenon, <1>2, <2>1, <2>2
<1>4. CASE held[d] # 0
  <2>1. \A e \in Drainer : pc'[e] \in {"idle", "claim"}
    BY ZenonT(30), <1>1, <1>4 DEF SoloInv, Solo, ItemsOK, RunOK
  <2> QED
    BY Zenon, <1>2, <2>1 DEF HeldInv, BudgetInv, Busy
<1> QED
  BY Zenon, <1>3, <1>4

LEMMA LockSolo ==
    ASSUME Orderly, SoloInv, ItemsOK', NEW d \in Drainer, LockCandidate(d)
    PROVE  SoloInv'
<1>1. /\ pc[d] = "claim" /\ \A e \in Drainer : pc[e] # "commit"
      /\ UNCHANGED <<buffer, status, retry_count, heartbeat, throttled, snapshot, answer>>
  BY Zenon DEF LockCandidate, Goto, rows, Orderly
<1>2. DeletedInv'
  BY Zenon, <1>1 DEF SoloInv, DeletedInv
<1>3. CASE Goto(d, "idle")
  <2>1. /\ held' = held
        /\ \A e \in Drainer : pc'[e] = IF e = d THEN "idle" ELSE pc[e]
    BY Zenon, <1>3 DEF Goto, SoloInv, ItemsOK, RunOK
  <2>2. Solo' /\ HeldInv' /\ BudgetInv'
    BY Zenon, <1>1, <2>1 DEF SoloInv, Solo, HeldInv, BudgetInv, RetryBudget, Busy
  <2> QED
    BY Zenon, <1>2, <2>2 DEF SoloInv
<1>4. ASSUME NEW i \in Candidates,
             pc' = [pc EXCEPT ![d] = "commit"], held' = [held EXCEPT ![d] = i]
      PROVE  SoloInv'
  <2>1. i \in Item /\ status[i] = "pending" /\ \A j \in Item : status[j] # "running"
    BY Zenon, <1>4 DEF Candidates, Pending, Running
  <2>2. buffer # "deleted" /\ \A j \in Item : status[j] # "deleted"
    BY Zenon, <2>1 DEF SoloInv, DeletedInv
  <2>3. \A e \in Drainer : pc[e] \in {"idle", "claim"} /\ held[e] = 0
    <3> SUFFICES ASSUME NEW e \in Drainer, pc[e] \notin {"idle", "claim"} PROVE FALSE
      BY Zenon DEF SoloInv, ItemsOK, RunOK
    <3>1. held[e] \in Item
      BY Zenon, HeldItem DEF SoloInv, ItemsOK
    <3>2. pc[e] \in Busy
      BY Zenon, <1>1 DEF SoloInv, ItemsOK, RunOK, Label, Busy
    <3> QED
      BY Zenon, <2>1, <2>2, <3>1, <3>2 DEF SoloInv, HeldInv
  <2>4. \A e \in Drainer : /\ pc'[e] = IF e = d THEN "commit" ELSE pc[e]
                           /\ held'[e] = IF e = d THEN i ELSE 0
    BY ZenonT(30), <1>4, <2>3 DEF SoloInv, ItemsOK, RunOK
  <2>5. Solo' /\ HeldInv' /\ BudgetInv'
    BY SMTT(30), <1>1, <2>1, <2>3, <2>4 DEF SoloInv, Solo, HeldInv, BudgetInv, RetryBudget, Busy
  <2> QED
    BY Zenon, <1>2, <2>5 DEF SoloInv
<1> QED
  BY Zenon, <1>3, <1>4 DEF LockCandidate

LEMMA ClaimSolo ==
    ASSUME SoloInv, ItemsOK', NEW d \in Drainer, ClaimNextItem(d)
    PROVE  SoloInv'
<1>1. pc[d] = "commit" /\ UNCHANGED <<buffer, retry_count, throttled>>
  BY Zenon DEF ClaimNextItem
<1>2. held[d] \in Item /\ held[d] # 0
  BY <1>1, HeldItem DEF SoloInv, ItemsOK, Item
<1>3. /\ status[held[d]] = "pending"
      /\ status' = [status EXCEPT ![held[d]] = "running"]
      /\ heartbeat' = [heartbeat EXCEPT ![held[d]] = "fresh"]
  BY Zenon, <1>1 DEF ClaimNextItem, SoloInv, HeldInv
<1>4. DeletedInv'
  BY Zenon, <1>1, <1>2, <1>3 DEF SoloInv, DeletedInv, ItemsOK, RowsOK
<1>5. CASE LetGo(d, "idle")
  <2>1. RetryBudget'
    BY Zenon, <1>1 DEF SoloInv, BudgetInv, RetryBudget
  <2> QED
    BY Zenon, <1>1, <1>2, <1>4, <1>5, <2>1, LetGoSolo DEF SoloInv
<1>6. CASE /\ pc' = [pc EXCEPT ![d] = "gate"]
           /\ snapshot' = [snapshot EXCEPT ![d] = retry_count[held[d]]]
           /\ UNCHANGED <<held, answer>>
  <2>1. \A e \in Drainer : e # d => pc[e] \in {"idle", "claim"}
    BY Zenon, <1>2 DEF SoloInv, Solo, ItemsOK, RunOK
  <2>2. /\ \A e \in Drainer : pc'[e] = IF e = d THEN "gate" ELSE pc[e]
        /\ snapshot'[d] = retry_count[held[d]]
    BY ZenonT(30), <1>6 DEF SoloInv, ItemsOK, RunOK
  <2>3. status'[held[d]] = "running" /\ heartbeat'[held[d]] = "fresh"
    BY Zenon, <1>2, <1>3 DEF SoloInv, ItemsOK, RowsOK
  <2>4. Solo' /\ HeldInv' /\ BudgetInv'
    BY SMTT(30), <1>1, <1>6, <2>1, <2>2, <2>3 DEF SoloInv, Solo, HeldInv, BudgetInv, RetryBudget, Busy
  <2> QED
    BY Zenon, <1>4, <2>4 DEF SoloInv
<1> QED
  BY Zenon, <1>5, <1>6 DEF ClaimNextItem

\* A retry is counted once: the snapshot is exact, and a 429 was counted before.
LEMMA OutcomeSolo ==
    ASSUME SoloInv, ItemsOK', NEW d \in Drainer,
           Refuse(d) \/ RateLimited(d) \/ Succeed(d) \/ RetryOrFail(d)
    PROVE  SoloInv'
<1> DEFINE i == held[d]
<1>1. /\ pc[d] \in {"outcome", "refused"} /\ LetGo(d, "claim") /\ UNCHANGED <<buffer, throttled>>
      /\ \/ CompleteItem(i) \/ FailItem(i) \/ UNCHANGED rows
         \/ /\ RescheduleItem(i) /\ pc[d] = "outcome"
            /\ answer[d] = "429" \/ snapshot[d] < MaxRetries
  <2>1. CASE Refuse(d)
    BY Zenon, <2>1 DEF Refuse, Finish
  <2>2. CASE RateLimited(d)
    BY Zenon, <2>2 DEF RateLimited, Finish
  <2>3. CASE Succeed(d)
    BY Zenon, <2>3 DEF Succeed, Finish
  <2>4. CASE RetryOrFail(d)
    BY Zenon, <2>4 DEF RetryOrFail, Finish
  <2> QED
    BY Zenon, <2>1, <2>2, <2>3, <2>4
<1>2. i \in Item /\ i # 0
  <2>1. pc[d] \notin {"idle", "claim"}
    BY Zenon, <1>1
  <2> QED
    BY Zenon, <2>1, HeldItem, ItemNotZero DEF SoloInv, ItemsOK
<1>3. /\ snapshot[d] = retry_count[i] /\ status[i] \in {"running", "deleted"}
      /\ retry_count[i] \in Nat /\ throttled[i] \in Nat /\ MaxRetries \in Nat
  <2>1. pc[d] \in Busy
    BY Zenon, <1>1 DEF Busy
  <2>2. snapshot[d] = retry_count[i] /\ status[i] \in {"running", "deleted"}
    BY Zenon, <2>1 DEF SoloInv, HeldInv
  <2>3. retry_count[i] \in Nat /\ throttled[i] \in Nat
    BY Zenon, <1>2 DEF SoloInv, ItemsOK, RowsOK, RestOK
  <2> QED
    BY Zenon, <2>2, <2>3, BoundsAssumption
<1>4. CASE UNCHANGED rows
  <2>1. UNCHANGED <<status, retry_count, heartbeat>>
    BY Zenon, <1>4 DEF rows
  <2>2. RetryBudget' /\ DeletedInv'
    BY Zenon, <1>1, <2>1 DEF SoloInv, BudgetInv, RetryBudget, DeletedInv
  <2> QED
    BY Zenon, <1>1, <2>1, <2>2, LetGoSolo DEF SoloInv
<1>5. ASSUME NEW s \in {"completed", "failed", "pending"}, WriteStatus(i, s),
             \/ retry_count' = retry_count
             \/ /\ retry_count' = [retry_count EXCEPT ![i] = @ + 1]
                /\ retry_count[i] + 1 <= MaxRetries + throttled[i]
      PROVE  SoloInv'
  <2>1. \A j \in Item : status'[j] = IF j = i THEN (IF status[i] = "deleted" THEN "deleted" ELSE s)
                                                ELSE status[j]
    BY Zenon, <1>2, <1>5 DEF WriteStatus, SoloInv, ItemsOK, RowsOK
  <2>2. DeletedInv'
    <3>1. buffer' = buffer /\ DeletedInv
      BY Zenon, <1>1 DEF SoloInv
    <3> QED
      BY Zenon, <1>2, <1>3, <2>1, <3>1 DEF DeletedInv
  <2>3. RetryBudget'
    <3>1. throttled' = throttled /\ RetryBudget /\ retry_count \in [Item -> Nat]
      BY Zenon, <1>1 DEF SoloInv, ItemsOK, RowsOK, BudgetInv
    <3> QED
      BY Zenon, <1>2, <1>5, <3>1 DEF RetryBudget
  <2> QED
    BY Zenon, <1>1, <1>2, <2>2, <2>3, LetGoSolo DEF SoloInv
<1>6. CASE CompleteItem(i) \/ FailItem(i)
  BY Zenon, <1>5, <1>6 DEF CompleteItem, FailItem
<1>7. CASE /\ RescheduleItem(i) /\ pc[d] = "outcome"
           /\ answer[d] = "429" \/ snapshot[d] < MaxRetries
  <2>1. retry_count[i] + 1 <= MaxRetries + throttled[i]
    <3>1. CASE answer[d] = "429"
      BY Zenon, <1>7, <3>1 DEF SoloInv, BudgetInv
    <3>2. CASE snapshot[d] < MaxRetries
      BY <1>3, <3>2
    <3> QED
      BY Zenon, <1>7, <3>1, <3>2
  <2> QED
    BY Zenon, <1>5, <1>7, <2>1 DEF RescheduleItem
<1> QED
  BY Zenon, <1>1, <1>4, <1>6, <1>7

LEMMA RunOtherSolo ==
    ASSUME SoloInv, ItemsOK', NEW d \in Drainer,
           \/ Drain(d) \/ ClaimNothing(d) \/ CheckCredits(d) \/ Execute(d)
           \/ LoseLease(d) \/ UpdateItemHeartbeat(d) \/ Crash(d)
    PROVE  SoloInv'
<1>1. UNCHANGED <<buffer, status, retry_count>>
  BY Zenon DEF Drain, ClaimNothing, CheckCredits, Execute, LoseLease, UpdateItemHeartbeat, Crash, rows
<1>2. DeletedInv'
  BY Zenon, <1>1 DEF SoloInv, DeletedInv
<1>3. CASE Drain(d) \/ CheckCredits(d)
  <2>1. PICK label \in {"claim", "run", "refused"} :
          /\ Goto(d, label)
          /\ label = "claim" <=> pc[d] = "idle"
          /\ pc[d] \in {"idle", "gate"}
    BY Zenon, <1>3 DEF Drain, CheckCredits
  <2>2. /\ UNCHANGED <<heartbeat, throttled, held, snapshot, answer>>
        /\ \A e \in Drainer : pc'[e] = IF e = d THEN label ELSE pc[e]
    <3>1. UNCHANGED <<heartbeat, throttled>>
      BY Zenon, <1>3 DEF Drain, CheckCredits, rows
    <3>2. UNCHANGED <<held, snapshot, answer>> /\ pc' = [pc EXCEPT ![d] = label]
      BY Zenon, <2>1 DEF Goto
    <3>3. DOMAIN pc = Drainer
      BY Zenon DEF SoloInv, ItemsOK, RunOK
    <3> QED
      BY Zenon, <3>1, <3>2, <3>3
  <2>3. Solo' /\ HeldInv' /\ BudgetInv'
    BY ZenonT(30), <1>1, <2>1, <2>2 DEF SoloInv, Solo, HeldInv, BudgetInv, RetryBudget, Busy
  <2> QED
    BY Zenon, <1>2, <2>3 DEF SoloInv
<1>4. CASE ClaimNothing(d) \/ LoseLease(d) \/ Crash(d)
  <2>1. PICK label \in {"idle", "claim"} : LetGo(d, label)
    BY Zenon, <1>4 DEF ClaimNothing, LoseLease, Crash
  <2>2. UNCHANGED <<heartbeat, throttled>>
    BY Zenon, <1>4 DEF ClaimNothing, LoseLease, Crash, rows
  <2>3. RetryBudget'
    BY Zenon, <1>1, <2>2 DEF SoloInv, BudgetInv, RetryBudget
  <2> QED
    BY Zenon, <1>1, <1>2, <2>1, <2>2, <2>3, LetGoSolo DEF SoloInv
<1>5. CASE Execute(d)
  <2>1. PICK a \in {"2xx", "429", "other"} :
          /\ answer' = [answer EXCEPT ![d] = a]
          /\ throttled' = [throttled EXCEPT ![held[d]] = IF a = "429" THEN @ + 1 ELSE @]
    BY Zenon, <1>5 DEF Execute
  <2>2. pc[d] = "run" /\ pc' = [pc EXCEPT ![d] = "outcome"] /\ UNCHANGED <<heartbeat, held, snapshot>>
    BY Zenon, <1>5 DEF Execute, rows
  <2>3. held[d] \in Item /\ held[d] # 0
    BY <2>2, HeldItem DEF SoloInv, ItemsOK, Item
  <2>4. \A e \in Drainer : e # d => pc[e] \in {"idle", "claim"}
    BY Zenon, <2>3 DEF SoloInv, Solo, ItemsOK, RunOK
  <2>5. /\ \A e \in Drainer : pc'[e] = IF e = d THEN "outcome" ELSE pc[e]
        /\ answer'[d] = a
    BY ZenonT(30), <2>1, <2>2 DEF SoloInv, ItemsOK, RunOK
  <2>6. Solo' /\ HeldInv'
    BY <1>1, <2>2, <2>4, <2>5 DEF SoloInv, Solo, HeldInv, Busy
  <2>7. \A j \in Item : /\ throttled[j] \in Nat /\ retry_count[j] \in Nat
                        /\ throttled'[j] = IF j = held[d] /\ a = "429" THEN throttled[j] + 1
                                                                     ELSE throttled[j]
    BY ZenonT(30), <2>1, <2>3 DEF SoloInv, ItemsOK, RowsOK, RestOK
  <2>8. RetryBudget'
    BY SMTT(30), <1>1, <2>7, BoundsAssumption DEF SoloInv, BudgetInv, RetryBudget
  <2>9. a = "429" => retry_count[held[d]] + 1 <= MaxRetries + throttled'[held[d]]
    BY SMTT(30), <2>3, <2>7, BoundsAssumption DEF SoloInv, BudgetInv, RetryBudget
  <2>10. BudgetInv'
    BY Zenon, <1>1, <2>2, <2>4, <2>5, <2>8, <2>9 DEF BudgetInv
  <2> QED
    BY Zenon, <1>2, <2>6, <2>10 DEF SoloInv
<1>6. CASE UpdateItemHeartbeat(d)
  <2>1. /\ heartbeat' = [heartbeat EXCEPT ![held[d]] = "fresh"]
        /\ UNCHANGED <<pc, held, snapshot, answer, throttled>>
    BY Zenon, <1>6 DEF UpdateItemHeartbeat, run
  <2>2. \A j \in Item : heartbeat[j] = "fresh" => heartbeat'[j] = "fresh"
    BY Zenon, <2>1 DEF SoloInv, ItemsOK, RowsOK
  <2>3. \A e \in Drainer : pc[e] \in Busy => held[e] \in Item
    BY Zenon, HeldItem DEF SoloInv, ItemsOK, Busy
  <2>4. Solo' /\ HeldInv' /\ BudgetInv'
    BY Zenon, <1>1, <2>1, <2>2, <2>3 DEF SoloInv, Solo, HeldInv, BudgetInv, RetryBudget
  <2> QED
    BY Zenon, <1>2, <2>4 DEF SoloInv
<1> QED
  BY Zenon, <1>3, <1>4, <1>5, <1>6

\* The reaper takes only items whose heartbeat is stale, so none that is held.
LEMMA ReaperSolo ==
    ASSUME SoloInv, ItemsOK', RescheduleStaleItems \/ FailStaleItems
    PROVE  SoloInv'
<1>1. UNCHANGED <<buffer, pc, held, snapshot, answer, throttled>>
  <2>1. UNCHANGED <<buffer, run, throttled>>
    BY Zenon DEF RescheduleStaleItems, FailStaleItems
  <2> QED
    BY Zenon, <2>1 DEF run
<1>2. \A i \in Item :
        \/ status'[i] = status[i] /\ heartbeat'[i] = heartbeat[i] /\ retry_count'[i] = retry_count[i]
        \/ /\ Stale(i) /\ status'[i] \in {"pending", "failed"}
           /\ \/ retry_count'[i] = retry_count[i]
              \/ retry_count[i] < MaxRetries /\ retry_count'[i] = retry_count[i] + 1
  <2>1. CASE RescheduleStaleItems
    BY Zenon, <2>1 DEF RescheduleStaleItems
  <2>2. CASE FailStaleItems
    BY Zenon, <2>2 DEF FailStaleItems
  <2> QED
    BY Zenon, <2>1, <2>2
<1>3. Solo'
  BY Zenon, <1>1 DEF SoloInv, Solo
<1>4. ASSUME NEW d \in Drainer, pc[d] \notin {"idle", "claim"}
      PROVE  /\ held[d] \in Item
             /\ status'[held[d]] = status[held[d]] /\ heartbeat'[held[d]] = heartbeat[held[d]]
             /\ retry_count'[held[d]] = retry_count[held[d]]
  <2>1. held[d] \in Item
    BY Zenon, <1>4, HeldItem DEF SoloInv, ItemsOK
  <2>2. pc[d] = "commit" \/ pc[d] \in Busy
    BY Zenon, <1>4 DEF SoloInv, ItemsOK, RunOK, Label, Busy
  <2>3. ~Stale(held[d])
    BY Zenon, <2>2 DEF SoloInv, HeldInv, Stale
  <2> QED
    BY Zenon, <1>2, <2>1, <2>3
<1>5. HeldInv'
  BY ZenonT(30), <1>1, <1>4 DEF SoloInv, HeldInv, Busy
<1>6. DeletedInv'
  BY Zenon, <1>1, <1>2 DEF SoloInv, DeletedInv, Stale
<1>7. RetryBudget'
  <2> SUFFICES ASSUME NEW i \in Item PROVE retry_count'[i] <= MaxRetries + throttled'[i]
    BY Zenon DEF RetryBudget
  <2>1. retry_count[i] \in Nat /\ throttled[i] \in Nat /\ MaxRetries \in Nat
    BY Zenon, BoundsAssumption DEF SoloInv, ItemsOK, RowsOK, RestOK
  <2>2. retry_count[i] <= MaxRetries + throttled[i]
    BY Zenon DEF SoloInv, BudgetInv, RetryBudget
  <2>3. \/ retry_count'[i] = retry_count[i]
        \/ retry_count[i] < MaxRetries /\ retry_count'[i] = retry_count[i] + 1
    BY Zenon, <1>2
  <2> QED
    BY <1>1, <2>1, <2>2, <2>3
<1>8. BudgetInv'
  BY Zenon, <1>1, <1>4, <1>7 DEF SoloInv, BudgetInv
<1> QED
  BY <1>3, <1>5, <1>6, <1>8, Zenon DEF SoloInv

LEMMA NextSolo ==
    ASSUME Orderly PROVE BucketInv /\ SoloInv /\ [Next]_vars => BucketInv' /\ SoloInv'
<1> SUFFICES ASSUME BucketInv, SoloInv, [Next]_vars PROVE BucketInv' /\ SoloInv'
  BY Zenon
<1>0. BucketInv' /\ ItemsOK'
  BY Zenon, NextOK DEF SoloInv
<1>1. CASE \/ CreateBuffer \/ PauseBuffer \/ ResumeBuffer \/ DeleteBuffer
           \/ PushItem \/ ReplayItem
  BY Zenon, <1>0, <1>1, ApiSolo
<1>2. CASE Tick \/ \E i \in Item : BecomeDue(i) \/ GoStale(i)
  BY Zenon, <1>0, <1>2, TimeSolo
<1>3. ASSUME NEW d \in Drainer,
             Drain(d) \/ RunStep(d) \/ LoseLease(d) \/ UpdateItemHeartbeat(d) \/ Crash(d)
      PROVE  SoloInv'
  <2>1. CASE LockCandidate(d) \/ ClaimNextItem(d)
    BY Zenon, <1>0, <2>1, LockSolo, ClaimSolo
  <2>2. CASE Refuse(d) \/ RateLimited(d) \/ Succeed(d) \/ RetryOrFail(d)
    BY Zenon, <1>0, <2>2, OutcomeSolo
  <2>3. CASE \/ Drain(d) \/ ClaimNothing(d) \/ CheckCredits(d) \/ Execute(d)
             \/ LoseLease(d) \/ UpdateItemHeartbeat(d) \/ Crash(d)
    BY Zenon, <1>0, <2>3, RunOtherSolo
  <2> QED
    BY Zenon, <1>3, <2>1, <2>2, <2>3 DEF RunStep
<1>4. CASE RescheduleStaleItems \/ FailStaleItems
  BY Zenon, <1>0, <1>4, ReaperSolo
<1>5. CASE UNCHANGED vars
  <2>1. UNCHANGED <<buffer, status, retry_count, heartbeat, pc, held, snapshot, answer, throttled>>
    BY Zenon, <1>5 DEF vars, rows, run
  <2>2. Solo' /\ HeldInv' /\ DeletedInv' /\ BudgetInv'
    BY Zenon, <2>1 DEF SoloInv, Solo, HeldInv, DeletedInv, BudgetInv, RetryBudget
  <2> QED
    BY Zenon, <1>0, <2>2 DEF SoloInv
<1> QED
  BY Zenon, <1>0, <1>1, <1>2, <1>3, <1>4, <1>5 DEF Next

LEMMA InitSolo == Init => SoloInv
<1> SUFFICES ASSUME Init PROVE SoloInv
  BY Zenon
<1>1. ItemsOK
  BY Zenon, InitOK
<1>2. Solo /\ HeldInv /\ DeletedInv
  BY Zenon DEF Init, Solo, HeldInv, DeletedInv, Busy
<1>3. BudgetInv
  BY BoundsAssumption DEF Init, BudgetInv, RetryBudget
<1> QED
  BY Zenon, <1>1, <1>2, <1>3 DEF SoloInv

\* OneInFlight, as far as it is true: with timely heartbeats, and if claim
\* statements did not overlap, no two drainers would have items of one buffer in
\* flight.  The run buffers_overlap shows that the second condition is needed.
THEOREM OneInFlightIfOrderly == ASSUME Orderly PROVE Spec => []OneInFlight
<1>1. SoloInv => OneInFlight
  BY Zenon DEF SoloInv, ItemsOK, RunOK, Solo, OneInFlight
<1> QED
  BY <1>1, InitOK, InitSolo, NextSolo, PTL DEF Spec

\* RetryBudget: under the same conditions RescheduleItem and the reaper never count
\* one failure twice; what exceeds max_retries are answers of 429.
THEOREM RetriesWithinBudget == ASSUME Orderly PROVE Spec => []RetryBudget
<1>1. SoloInv => RetryBudget
  BY Zenon DEF SoloInv, BudgetInv
<1> QED
  BY <1>1, InitOK, InitSolo, NextSolo, PTL DEF Spec

-----------------------------------------------------------------------------
(* The order of delivery *)

\* Items are pushed from the front, one runs at a time, and an item that is about
\* to be claimed is the head of the queue.
QueueInv ==
    /\ \A i, j \in Item : i < j /\ status[i] = "none" => status[j] = "none"
    /\ \A i, j \in Item : status[i] = "running" /\ status[j] = "running" => i = j
    /\ \A d \in Drainer : pc[d] = "commit" =>
         \A j \in Item : status[j] # "running" /\ (status[j] = "pending" => held[d] <= j)

\* Steps that leave the items alone and lock none.
LEMMA QuietFifo ==
    ASSUME QueueInv, UNCHANGED status,
           \A e \in Drainer : pc'[e] = "commit" => pc[e] = "commit" /\ held'[e] = held[e]
    PROVE  QueueInv' /\ [Fifo!Next]_status
  BY Zenon DEF QueueInv

LEMMA ApiFifo ==
    ASSUME SoloInv, QueueInv,
           \/ CreateBuffer \/ PauseBuffer \/ ResumeBuffer \/ DeleteBuffer
           \/ PushItem \/ ReplayItem
    PROVE  QueueInv' /\ [Fifo!Next]_status
<1>1. UNCHANGED <<pc, held>>
  BY Zenon DEF CreateBuffer, PauseBuffer, ResumeBuffer, SetPaused, DeleteBuffer, PushItem,
         ReplayItem, CreateItem, rows, run
<1>2. CASE CreateBuffer \/ PauseBuffer \/ ResumeBuffer
  <2>1. UNCHANGED status
    BY Zenon, <1>2 DEF CreateBuffer, PauseBuffer, ResumeBuffer, SetPaused, rows
  <2> QED
    BY Zenon, <1>1, <2>1, QuietFifo
<1>3. CASE DeleteBuffer
  <2>1. /\ \A d \in Drainer : pc[d] # "commit"
        /\ status' = [i \in Item |-> IF i \in Pushed THEN "deleted" ELSE "none"]
    BY Zenon, <1>3 DEF DeleteBuffer
  <2>2. status' = [i \in Item |-> IF status[i] = "none" THEN "none" ELSE "deleted"]
    BY Zenon, <2>1 DEF Pushed
  <2>3. Fifo!Discard
    BY Zenon, <2>2 DEF Fifo!Discard, Fifo!Item, Item
  <2>4. QueueInv'
    BY Zenon, <1>1, <2>1, <2>2 DEF QueueInv
  <2> QED
    BY Zenon, <2>3, <2>4 DEF Fifo!Next
<1>4. CASE PushItem \/ ReplayItem
  <2>1. CreateItem
    BY Zenon, <1>4 DEF PushItem, ReplayItem
  <2>2. PICK i \in Item \ Pushed : /\ \A j \in Item \ Pushed : i <= j
                                   /\ status' = [status EXCEPT ![i] = "pending"]
    BY Zenon, <2>1 DEF CreateItem
  <2>3. /\ i \in Item /\ status[i] = "none"
        /\ \A j \in Item : status[j] = "none" => i <= j
    BY Zenon, <2>2 DEF Pushed
  <2>4. \A j \in Item : status'[j] = IF j = i THEN "pending" ELSE status[j]
    BY Zenon, <2>2 DEF SoloInv, ItemsOK, RowsOK
  <2>5. Fifo!Push(i)
    <3>1. \A j \in 1..(i - 1) : j \in Item /\ ~(i <= j)
      BY <2>3, BoundsAssumption DEF Item
    <3>2. \A j \in 1..(i - 1) : status[j] # "none"
      BY Zenon, <2>3, <3>1
    <3> QED
      BY Zenon, <2>2, <2>3, <3>2 DEF Fifo!Push
  <2>6. ASSUME NEW d \in Drainer, pc[d] = "commit" PROVE held[d] <= i
    <3>1. held[d] \in Item /\ status[held[d]] = "pending"
      BY Zenon, <2>6, HeldItem DEF SoloInv, ItemsOK, HeldInv
    <3>2. ~(i < held[d])
      BY Zenon, <2>3, <3>1 DEF QueueInv
    <3> QED
      BY <2>3, <3>1, <3>2, BoundsAssumption DEF Item
  <2>7. \A a, b \in Item : a < b /\ status'[a] = "none" => status'[b] = "none"
    <3> SUFFICES ASSUME NEW a \in Item, NEW b \in Item, a < b, status'[a] = "none"
                 PROVE  status'[b] = "none"
      BY Zenon
    <3>1. status[a] = "none" /\ i <= a
      BY Zenon, <2>3, <2>4
    <3>2. b # i
      BY <2>3, <3>1, BoundsAssumption DEF Item
    <3> QED
      BY Zenon, <2>4, <3>1, <3>2 DEF QueueInv
  <2>8. \A a, b \in Item : status'[a] = "running" /\ status'[b] = "running" => a = b
    BY Zenon, <2>4 DEF QueueInv
  <2>9. \A d \in Drainer : pc'[d] = "commit" =>
          \A j \in Item : status'[j] # "running" /\ (status'[j] = "pending" => held'[d] <= j)
    BY ZenonT(30), <1>1, <2>4, <2>6 DEF QueueInv
  <2>10. QueueInv'
    BY Zenon, <2>7, <2>8, <2>9 DEF QueueInv
  <2>11. Fifo!Next
    BY Zenon, <2>3, <2>5 DEF Fifo!Next, Fifo!Item, Item
  <2> QED
    BY Zenon, <2>10, <2>11
<1> QED
  BY Zenon, <1>2, <1>3, <1>4

LEMMA LockFifo ==
    ASSUME Orderly, SoloInv, QueueInv, NEW d \in Drainer, LockCandidate(d)
    PROVE  QueueInv' /\ [Fifo!Next]_status
<1>1. (\A e \in Drainer : pc[e] # "commit") /\ UNCHANGED status
  BY Zenon DEF LockCandidate, Orderly, rows
<1>2. CASE Goto(d, "idle")
  <2>1. \A e \in Drainer : pc'[e] # "commit"
    BY Zenon, <1>1, <1>2 DEF Goto, SoloInv, ItemsOK, RunOK
  <2> QED
    BY Zenon, <1>1, <2>1, QuietFifo
<1>3. ASSUME NEW i \in Candidates, \A j \in Candidates : i <= j,
             pc' = [pc EXCEPT ![d] = "commit"], held' = [held EXCEPT ![d] = i]
      PROVE  QueueInv'
  <2>1. \A j \in Item : status[j] = "pending" => j \in Candidates
    BY Zenon, <1>1, <1>3 DEF Candidates, Pending, Locked
  <2>2. \A j \in Item : status[j] # "running"
    BY Zenon, <1>3 DEF Candidates, Running
  <2>3. \A e \in Drainer : pc'[e] = "commit" => held'[e] = i
    BY Zenon, <1>1, <1>3 DEF SoloInv, ItemsOK, RunOK
  <2> QED
    BY Zenon, <1>1, <1>3, <2>1, <2>2, <2>3 DEF QueueInv
<1> QED
  BY Zenon, <1>1, <1>2, <1>3 DEF LockCandidate

LEMMA ClaimFifo ==
    ASSUME SoloInv, QueueInv, NEW d \in Drainer, ClaimNextItem(d)
    PROVE  QueueInv' /\ [Fifo!Next]_status
<1> DEFINE i == held[d]
<1>1. pc[d] = "commit" /\ status' = [status EXCEPT ![i] = "running"]
  BY Zenon DEF ClaimNextItem
<1>2. i \in Item /\ i # 0 /\ status[i] = "pending"
  BY <1>1, HeldItem DEF SoloInv, ItemsOK, Item, HeldInv
<1>3. \A j \in Item : status'[j] = IF j = i THEN "running" ELSE status[j]
  BY Zenon, <1>1, <1>2 DEF SoloInv, ItemsOK, RowsOK
<1>4. \A j \in Item : status[j] # "running" /\ (status[j] = "pending" => i <= j)
  BY Zenon, <1>1 DEF QueueInv
<1>5. Fifo!Deliver(i)
  <2>1. \A j \in 1..(i - 1) : j \in Item /\ ~(i <= j)
    BY <1>2, BoundsAssumption DEF Item
  <2>2. \A j \in 1..(i - 1) : status[j] \notin Fifo!Waiting
    BY Zenon, <1>4, <2>1 DEF Fifo!Waiting
  <2> QED
    BY Zenon, <1>1, <1>2, <2>2 DEF Fifo!Deliver
<1>6. \A e \in Drainer : pc'[e] # "commit"
  <2>1. \A e \in Drainer : e # d => pc[e] # "commit"
    BY Zenon, <1>2 DEF SoloInv, Solo, ItemsOK, RunOK
  <2>2. PICK label \in {"idle", "gate"} : pc' = [pc EXCEPT ![d] = label]
    BY Zenon DEF ClaimNextItem, LetGo
  <2> QED
    BY Zenon, <2>1, <2>2 DEF SoloInv, ItemsOK, RunOK
<1>7. QueueInv'
  BY <1>2, <1>3, <1>4, <1>6 DEF QueueInv
<1>8. Fifo!Next
  BY Zenon, <1>2, <1>5 DEF Fifo!Next, Fifo!Item, Item
<1> QED
  BY Zenon, <1>7, <1>8

LEMMA OutcomeFifo ==
    ASSUME SoloInv, QueueInv, NEW d \in Drainer,
           Refuse(d) \/ RateLimited(d) \/ Succeed(d) \/ RetryOrFail(d)
    PROVE  QueueInv' /\ [Fifo!Next]_status
<1>1. /\ pc[d] \in {"outcome", "refused"} /\ LetGo(d, "claim")
      /\ \/ UNCHANGED status
         \/ \E s \in {"completed", "failed", "pending"} : WriteStatus(held[d], s)
  BY Zenon DEF Refuse, RateLimited, Succeed, RetryOrFail, Finish, CompleteItem, FailItem,
         RescheduleItem, rows
<1>2. held[d] \in Item /\ held[d] # 0 /\ status[held[d]] \in {"running", "deleted"}
  <2>1. pc[d] \notin {"idle", "claim"} /\ pc[d] \in Busy
    BY Zenon, <1>1 DEF Busy
  <2>2. held[d] \in Item
    BY Zenon, <2>1, HeldItem DEF SoloInv, ItemsOK
  <2>3. status[held[d]] \in {"running", "deleted"}
    BY Zenon, <2>1 DEF SoloInv, HeldInv
  <2> QED
    BY Zenon, <2>2, <2>3, ItemNotZero
<1>3. \A e \in Drainer : pc'[e] # "commit"
  <2>1. \A e \in Drainer : e # d => pc[e] # "commit"
    BY Zenon, <1>2 DEF SoloInv, Solo, ItemsOK, RunOK
  <2>2. pc' = [pc EXCEPT ![d] = "claim"]
    BY Zenon, <1>1 DEF LetGo
  <2> QED
    BY Zenon, <2>1, <2>2 DEF SoloInv, ItemsOK, RunOK
<1>4. CASE UNCHANGED status
  BY Zenon, <1>3, <1>4, QuietFifo
<1>5. ASSUME NEW s \in {"completed", "failed", "pending"}, WriteStatus(held[d], s)
      PROVE  QueueInv' /\ [Fifo!Next]_status
  <2>1. CASE status[held[d]] = "deleted"
    <3>1. status' = status
      BY Zenon, <1>2, <1>5, <2>1 DEF WriteStatus, SoloInv, ItemsOK, RowsOK
    <3> QED
      BY Zenon, <1>4, <3>1
  <2>2. CASE status[held[d]] = "running"
    <3>1. status' = [status EXCEPT ![held[d]] = s]
      BY Zenon, <1>5, <2>2 DEF WriteStatus
    <3>2. \A j \in Item : status'[j] = IF j = held[d] THEN s ELSE status[j]
      BY Zenon, <1>2, <3>1 DEF SoloInv, ItemsOK, RowsOK
    <3>3. Fifo!Conclude(held[d])
      BY Zenon, <2>2, <3>1 DEF Fifo!Conclude
    <3>4. Fifo!Next
      BY Zenon, <1>2, <3>3 DEF Fifo!Next, Fifo!Item, Item
    <3>5. QueueInv'
      BY <1>2, <1>3, <2>2, <3>2 DEF QueueInv
    <3> QED
      BY Zenon, <3>4, <3>5
  <2> QED
    BY Zenon, <1>2, <2>1, <2>2
<1> QED
  BY Zenon, <1>1, <1>4, <1>5

\* One item is running at most, so the reaper's batch is one item at most.
LEMMA ReaperFifo ==
    ASSUME SoloInv, QueueInv, RescheduleStaleItems \/ FailStaleItems
    PROVE  QueueInv' /\ [Fifo!Next]_status
<1>1. PICK S \in SUBSET {i \in Item : Stale(i)} : \E s \in {"pending", "failed"} :
        S # {} /\ status' = [i \in Item |-> IF i \in S THEN s ELSE status[i]]
  <2>1. CASE RescheduleStaleItems
    BY <2>1, Zenon DEF RescheduleStaleItems
  <2>2. CASE FailStaleItems
    BY <2>2, Zenon DEF FailStaleItems
  <2> QED
    BY Zenon, <2>1, <2>2
<1>2. PICK s \in {"pending", "failed"} :
        S # {} /\ status' = [i \in Item |-> IF i \in S THEN s ELSE status[i]]
  BY Zenon, <1>1
<1>3. PICK i \in Item : i \in S /\ status[i] = "running"
  BY Zenon, <1>2 DEF Stale
<1>4. S = {i}
  BY Zenon, <1>3 DEF QueueInv, Stale
<1>5. status' = [status EXCEPT ![i] = s]
  BY Zenon, <1>2, <1>4 DEF SoloInv, ItemsOK, RowsOK
<1>6. \A j \in Item : status'[j] = IF j = i THEN s ELSE status[j]
  BY Zenon, <1>2, <1>4
<1>7. \A e \in Drainer : pc'[e] # "commit"
  <2>1. UNCHANGED pc
    <3>1. UNCHANGED run
      BY Zenon DEF RescheduleStaleItems, FailStaleItems
    <3> QED
      BY Zenon, <3>1 DEF run
  <2> QED
    BY Zenon, <1>3, <2>1 DEF QueueInv
<1>8. QueueInv'
  BY ZenonT(30), <1>3, <1>6, <1>7 DEF QueueInv
<1>9. Fifo!Next
  BY Zenon, <1>3, <1>5 DEF Fifo!Next, Fifo!Conclude, Fifo!Item, Item
<1> QED
  BY Zenon, <1>8, <1>9

\* A goroutine that leaves for a step other than the commit adds no commit.
LEMMA NoNewCommit ==
    ASSUME RunOK, NEW d \in Drainer, NEW label \in Label \ {"commit"},
           pc' = [pc EXCEPT ![d] = label], held' = held \/ held' = [held EXCEPT ![d] = 0]
    PROVE  \A e \in Drainer : pc'[e] = "commit" => pc[e] = "commit" /\ held'[e] = held[e]
  BY Zenon DEF RunOK

LEMMA OtherFifo ==
    ASSUME SoloInv, QueueInv, NEW d \in Drainer,
           \/ Drain(d) \/ ClaimNothing(d) \/ CheckCredits(d) \/ Execute(d)
           \/ LoseLease(d) \/ UpdateItemHeartbeat(d) \/ Crash(d)
    PROVE  QueueInv' /\ [Fifo!Next]_status
<1>1. UNCHANGED status
  BY Zenon DEF Drain, ClaimNothing, CheckCredits, Execute, LoseLease, UpdateItemHeartbeat,
                    Crash, rows
<1>2. CASE UNCHANGED <<pc, held>>
  BY Zenon, <1>1, <1>2, QuietFifo
<1>3. ASSUME NEW label \in Label \ {"commit"}, pc' = [pc EXCEPT ![d] = label],
             held' = held \/ held' = [held EXCEPT ![d] = 0]
      PROVE  QueueInv' /\ [Fifo!Next]_status
  <2>1. \A e \in Drainer : pc'[e] = "commit" => pc[e] = "commit" /\ held'[e] = held[e]
    BY Zenon, <1>3, NoNewCommit DEF SoloInv, ItemsOK
  <2> QED
    BY Zenon, <1>1, <2>1, QuietFifo
<1>4. CASE UpdateItemHeartbeat(d)
  BY Zenon, <1>2, <1>4 DEF UpdateItemHeartbeat, run
<1>5. CASE Drain(d) \/ CheckCredits(d) \/ Execute(d)
  <2>1. held' = held /\ \E label \in Label \ {"commit"} : pc' = [pc EXCEPT ![d] = label]
    BY Zenon, <1>5 DEF Drain, CheckCredits, Execute, Goto, Label
  <2> QED
    BY Zenon, <1>3, <2>1
<1>6. CASE ClaimNothing(d) \/ LoseLease(d) \/ Crash(d)
  <2>1. /\ held' = [held EXCEPT ![d] = 0]
        /\ \E label \in Label \ {"commit"} : pc' = [pc EXCEPT ![d] = label]
    BY Zenon, <1>6 DEF ClaimNothing, LoseLease, Crash, LetGo, Label
  <2> QED
    BY Zenon, <1>3, <2>1
<1> QED
  BY Zenon, <1>4, <1>5, <1>6

LEMMA NextFifo ==
    ASSUME Orderly PROVE SoloInv /\ QueueInv /\ [Next]_vars => QueueInv' /\ [Fifo!Next]_status
<1> SUFFICES ASSUME SoloInv, QueueInv, [Next]_vars PROVE QueueInv' /\ [Fifo!Next]_status
  BY Zenon
<1>1. CASE \/ CreateBuffer \/ PauseBuffer \/ ResumeBuffer \/ DeleteBuffer
           \/ PushItem \/ ReplayItem
  BY Zenon, <1>1, ApiFifo
<1>2. CASE Tick \/ \E i \in Item : BecomeDue(i) \/ GoStale(i)
  <2>1. UNCHANGED <<status, pc, held>>
    BY Zenon, <1>2 DEF Tick, BecomeDue, GoStale, rows, run
  <2> QED
    BY Zenon, <2>1, QuietFifo
<1>3. ASSUME NEW d \in Drainer,
             Drain(d) \/ RunStep(d) \/ LoseLease(d) \/ UpdateItemHeartbeat(d) \/ Crash(d)
      PROVE  QueueInv' /\ [Fifo!Next]_status
  <2>1. CASE LockCandidate(d) \/ ClaimNextItem(d)
    BY Zenon, <2>1, LockFifo, ClaimFifo
  <2>2. CASE Refuse(d) \/ RateLimited(d) \/ Succeed(d) \/ RetryOrFail(d)
    BY Zenon, <2>2, OutcomeFifo
  <2>3. CASE \/ Drain(d) \/ ClaimNothing(d) \/ CheckCredits(d) \/ Execute(d)
             \/ LoseLease(d) \/ UpdateItemHeartbeat(d) \/ Crash(d)
    BY Zenon, <2>3, OtherFifo
  <2> QED
    BY <1>3, <2>1, <2>2, <2>3, Zenon DEF RunStep
<1>4. CASE RescheduleStaleItems \/ FailStaleItems
  BY Zenon, <1>4, ReaperFifo
<1>5. CASE UNCHANGED vars
  <2>1. UNCHANGED <<status, pc, held>>
    BY Zenon, <1>5 DEF vars, rows, run
  <2> QED
    BY Zenon, <2>1, QuietFifo
<1> QED
  BY <1>1, <1>2, <1>3, <1>4, <1>5, Zenon DEF Next

\* ImplementsFifo: under the same conditions the claim statement, the retries, the
\* 429s and the reaper deliver the items in order, one at a time, for any number of
\* items, drainers and retries.
THEOREM BufferIsFifo == ASSUME Orderly PROVE Spec => ImplementsFifo
<1>1. Init => QueueInv /\ Fifo!Init
  BY DEF Init, QueueInv, Fifo!Init, Fifo!Item, Item
<1>2. QED
  BY <1>1, InitOK, InitSolo, NextSolo, NextFifo, PTL DEF Spec, ImplementsFifo, Fifo!Spec

\* A step of the contract keeps the order, whatever the state it starts from.
LEMMA OrderStep ==
    ASSUME RowsOK, Fifo!InOrder, [Fifo!Next]_status
    PROVE  Fifo!InOrder'
<1> DEFINE Out == {"running", "completed", "failed"}
<1> SUFFICES ASSUME NEW i \in Item, NEW j \in Item, i < j
             PROVE  /\ status'[j] # "none" => status'[i] # "none"
                    /\ status'[j] \in Out => status'[i] \notin {"pending", "running"}
  BY Zenon DEF Fifo!InOrder, Fifo!Waiting, Fifo!Item, Item
<1>1. /\ status[j] # "none" => status[i] # "none"
      /\ status[j] \in Out => status[i] \notin {"pending", "running"}
  BY Zenon DEF Fifo!InOrder, Fifo!Waiting, Fifo!Item, Item
<1>2. i # j /\ i \in 1..(j - 1)
  BY BoundsAssumption DEF Item
<1>3. CASE UNCHANGED status
  BY Zenon, <1>1, <1>3
<1>4. CASE Fifo!Discard
  BY Zenon, <1>1, <1>4 DEF Fifo!Discard, Fifo!Item, Item
<1>5. ASSUME NEW k \in Item, NEW s \in {"pending", "running", "completed", "failed"},
             status' = [status EXCEPT ![k] = s]
      PROVE  status'[i] = (IF i = k THEN s ELSE status[i])
             /\ status'[j] = (IF j = k THEN s ELSE status[j])
  BY Zenon, <1>5 DEF RowsOK
<1>6. ASSUME NEW k \in Item, Fifo!Push(k)
      PROVE  /\ status'[j] # "none" => status'[i] # "none"
             /\ status'[j] \in Out => status'[i] \notin {"pending", "running"}
  <2>1. /\ status[k] = "none" /\ status' = [status EXCEPT ![k] = "pending"]
        /\ \A l \in 1..(k - 1) : status[l] # "none"
    BY Zenon, <1>6 DEF Fifo!Push
  <2>2. /\ status'[i] = IF i = k THEN "pending" ELSE status[i]
        /\ status'[j] = IF j = k THEN "pending" ELSE status[j]
    BY Zenon, <1>5, <2>1
  <2> QED BY <1>1, <1>2, <2>1, <2>2
<1>7. ASSUME NEW k \in Item, Fifo!Deliver(k)
      PROVE  /\ status'[j] # "none" => status'[i] # "none"
             /\ status'[j] \in Out => status'[i] \notin {"pending", "running"}
  <2>1. /\ status[k] = "pending" /\ status' = [status EXCEPT ![k] = "running"]
        /\ \A l \in 1..(k - 1) : status[l] \notin {"pending", "running"}
    BY Zenon, <1>7 DEF Fifo!Deliver, Fifo!Waiting
  <2>2. /\ status'[i] = IF i = k THEN "running" ELSE status[i]
        /\ status'[j] = IF j = k THEN "running" ELSE status[j]
    BY Zenon, <1>5, <2>1
  <2> QED BY <1>1, <1>2, <2>1, <2>2
<1>8. ASSUME NEW k \in Item, Fifo!Conclude(k)
      PROVE  /\ status'[j] # "none" => status'[i] # "none"
             /\ status'[j] \in Out => status'[i] \notin {"pending", "running"}
  <2>1. PICK s \in {"pending", "completed", "failed"} :
           status[k] = "running" /\ status' = [status EXCEPT ![k] = s]
    BY Zenon, <1>8 DEF Fifo!Conclude
  <2>2. /\ status'[i] = IF i = k THEN s ELSE status[i]
        /\ status'[j] = IF j = k THEN s ELSE status[j]
    BY Zenon, <1>5, <2>1
  <2> QED BY <1>1, <1>2, <2>1, <2>2
<1> QED BY Zenon, <1>3, <1>4, <1>6, <1>7, <1>8 DEF Fifo!Next, Fifo!Item, Item

\* First in, first out in plain words: under the same conditions no item is handed
\* to the target while one that was pushed before it is still to be delivered.
THEOREM ItemsStayInOrder == ASSUME Orderly PROVE Spec => []Fifo!InOrder
<1>1. Fifo!Init => Fifo!InOrder
  BY Zenon DEF Fifo!Init, Fifo!InOrder
<1>2. TypeOK /\ Fifo!InOrder /\ [Fifo!Next]_status => Fifo!InOrder'
  BY Zenon, TypeParts, OrderStep
<1> QED BY <1>1, <1>2, BufferTypeCorrect, BufferIsFifo, PTL DEF ImplementsFifo, Fifo!Spec

-----------------------------------------------------------------------------
(* Tries in hand, whatever overlaps or stalls *)

\* A row in one step: as it was, new, settled or taken, or back in the queue, or
\* deleted meanwhile, with one more retry.
RowStep(i) ==
    \/ status'[i] = status[i] /\ retry_count'[i] = retry_count[i]
    \/ status[i] = "none" /\ status'[i] = "pending" /\ retry_count'[i] = retry_count[i]
    \/ status[i] # "none" /\ status'[i] \notin {"none", "pending"}
                          /\ retry_count'[i] = retry_count[i]
    \/ status[i] # "none" /\ status'[i] # "none" /\ retry_count'[i] = retry_count[i] + 1

Throttled(d) == pc[d] = "outcome" /\ answer[d] = "429"

\* A goroutine that gives its item up, if it has one; one that keeps what it has; one
\* that does either, and is not answered 429.
Releases(e) == pc'[e] \in {"idle", "claim"} /\ held'[e] = 0
Keeps(e) ==
    /\ held'[e] = held[e] /\ snapshot'[e] = snapshot[e]
    /\ pc'[e] \in Busy => pc[e] \in Busy
    /\ pc'[e] = "commit" => pc[e] = "commit"
Proceeds(e) == Releases(e) \/ (Keeps(e) /\ (Throttled(e)' <=> Throttled(e)))
OthersProceed(d) == \A e \in Drainer \ {d} : Proceeds(e)

\* What a step can be for those who hold items: nothing in particular, the reaper's
\* retries included; a candidate locked; an item claimed; an answer of 429; a retry.
Ordinary ==
    /\ UNCHANGED throttled
    /\ \A i \in Item : \/ retry_count'[i] = retry_count[i]
                       \/ retry_count[i] < MaxRetries /\ retry_count'[i] = retry_count[i] + 1
    /\ \A e \in Drainer : Proceeds(e)
Locks(d) ==
    /\ UNCHANGED <<status, retry_count, throttled>>
    /\ pc'[d] = "commit" /\ held'[d] \in Item
    /\ status[held'[d]] = "pending" /\ ~Locked(held'[d])
    /\ OthersProceed(d)
Claims(d) ==
    /\ UNCHANGED <<retry_count, throttled>>
    /\ pc[d] = "commit" /\ pc'[d] = "gate" /\ held'[d] = held[d]
    /\ status'[held[d]] = "running" /\ snapshot'[d] = retry_count[held[d]]
    /\ OthersProceed(d)
Throttles(d) ==
    /\ UNCHANGED retry_count
    /\ throttled' = [throttled EXCEPT ![held[d]] = @ + 1]
    /\ pc[d] \in Busy /\ Keeps(d) /\ Throttled(d)'
    /\ OthersProceed(d)
Retries(d) ==
    /\ UNCHANGED throttled
    /\ retry_count' = [retry_count EXCEPT ![held[d]] = @ + 1]
    /\ pc[d] = "outcome" /\ Releases(d)
    /\ Throttled(d) \/ snapshot[d] < MaxRetries
    /\ OthersProceed(d)

\* Rows in hand exist; a claim's snapshot is not ahead of its row, and behind it once
\* the row is back in the queue; a locked row is locked once, and claims of it are old.
HoldsInv ==
    \A d, e \in Drainer :
        /\ held[d] # 0 => status[held[d]] # "none"
        /\ pc[d] \in Busy =>
             /\ snapshot[d] <= retry_count[held[d]]
             /\ status[held[d]] = "pending" => snapshot[d] < retry_count[held[d]]
        /\ pc[d] = "commit" /\ held[e] = held[d] =>
             /\ pc[e] = "commit" => e = d
             /\ pc[e] \in Busy => snapshot[e] < retry_count[held[d]]

\* Drainers that hold the same item hold different retries of it.
DistinctDeliveries ==
    \A d, e \in Drainer :
        d # e /\ pc[d] \in Busy /\ pc[e] \in Busy /\ held[d] = held[e]
            => snapshot[d] # snapshot[e]

DeliveriesInv == HoldsInv /\ DistinctDeliveries

LEMMA RunStays ==
    ASSUME UNCHANGED run, NEW e \in Drainer PROVE Proceeds(e)
  BY Zenon DEF run, Proceeds, Keeps, Throttled

LEMMA LetGoProceeds ==
    ASSUME RunOK, NEW d \in Drainer, NEW label \in {"idle", "claim"}, LetGo(d, label)
    PROVE  Releases(d) /\ \A e \in Drainer : Proceeds(e)
  BY Zenon DEF LetGo, Proceeds, Releases, Keeps, Throttled, RunOK

LEMMA GotoProceeds ==
    ASSUME RunOK, NEW d \in Drainer, NEW label \in Label, Goto(d, label),
           label \in Busy => pc[d] \in Busy, label \notin {"commit", "outcome"},
           pc[d] # "outcome"
    PROVE  \A e \in Drainer : Proceeds(e)
  BY Zenon DEF Goto, Proceeds, Keeps, Throttled, RunOK

LEMMA RowStays ==
    ASSUME UNCHANGED <<status, retry_count>>, NEW i \in Item PROVE RowStep(i)
  BY Zenon DEF RowStep

LEMMA OutcomeRow ==
    ASSUME ItemsOK, NEW k \in Item, status[k] # "none",
           \/ CompleteItem(k) \/ FailItem(k) \/ RescheduleItem(k) \/ UNCHANGED rows,
           NEW i \in Item
    PROVE  RowStep(i)
<1>1. CASE UNCHANGED rows
  BY Zenon, <1>1 DEF rows, RowStep
<1>2. CASE CompleteItem(k)
  BY Zenon, <1>2 DEF CompleteItem, WriteStatus, RowStep, ItemsOK, RowsOK
<1>3. CASE FailItem(k)
  BY Zenon, <1>3 DEF FailItem, WriteStatus, RowStep, ItemsOK, RowsOK
<1>4. CASE RescheduleItem(k)
  BY Zenon, <1>4 DEF RescheduleItem, WriteStatus, RowStep, ItemsOK, RowsOK
<1> QED BY Zenon, <1>1, <1>2, <1>3, <1>4

\* The buffer, its queue and the reaper.
LEMMA TableSteps ==
    ASSUME ItemsOK,
           \/ CreateBuffer \/ PauseBuffer \/ ResumeBuffer \/ DeleteBuffer
           \/ PushItem \/ ReplayItem \/ Tick
           \/ (\E i \in Item : BecomeDue(i) \/ GoStale(i))
           \/ (\E d \in Drainer : UpdateItemHeartbeat(d))
           \/ RescheduleStaleItems \/ FailStaleItems \/ UNCHANGED vars
    PROVE  (\A i \in Item : RowStep(i)) /\ Ordinary
<1>1. CASE \/ CreateBuffer \/ PauseBuffer \/ ResumeBuffer \/ Tick \/ UNCHANGED vars
           \/ (\E i \in Item : BecomeDue(i) \/ GoStale(i))
           \/ (\E d \in Drainer : UpdateItemHeartbeat(d))
  <2>1. UNCHANGED <<status, retry_count, run, throttled>>
    BY Zenon, <1>1 DEF CreateBuffer, PauseBuffer, ResumeBuffer, SetPaused, Tick, BecomeDue,
       GoStale, UpdateItemHeartbeat, vars, rows
  <2> QED BY Zenon, <2>1, RowStays, RunStays DEF Ordinary
<1>2. CASE DeleteBuffer
  <2>1. ASSUME NEW i \in Item PROVE RowStep(i)
    BY Zenon, <1>2 DEF DeleteBuffer, Pushed, RowStep
  <2> QED BY Zenon, <1>2, <2>1, RunStays DEF DeleteBuffer, Ordinary
<1>3. CASE PushItem \/ ReplayItem
  <2>1. CreateItem
    BY Zenon, <1>3 DEF PushItem, ReplayItem
  <2>2. ASSUME NEW i \in Item PROVE RowStep(i)
    BY Zenon, <2>1 DEF CreateItem, Pushed, RowStep, ItemsOK, RowsOK
  <2> QED BY Zenon, <2>1, <2>2, RunStays DEF CreateItem, Ordinary
<1>4. CASE RescheduleStaleItems
  <2>1. ASSUME NEW i \in Item PROVE RowStep(i)
    BY Zenon, <1>4 DEF RescheduleStaleItems, Stale, RowStep
  <2>2. ASSUME NEW i \in Item
        PROVE  \/ retry_count'[i] = retry_count[i]
               \/ retry_count[i] < MaxRetries /\ retry_count'[i] = retry_count[i] + 1
    BY Zenon, <1>4 DEF RescheduleStaleItems
  <2>3. UNCHANGED <<run, throttled>>
    BY Zenon, <1>4 DEF RescheduleStaleItems
  <2> QED BY Zenon, <2>1, <2>2, <2>3, RunStays DEF Ordinary
<1>5. CASE FailStaleItems
  <2>1. ASSUME NEW i \in Item PROVE RowStep(i)
    BY Zenon, <1>5 DEF FailStaleItems, Stale, RowStep
  <2> QED BY Zenon, <1>5, <2>1, RunStays DEF FailStaleItems, Ordinary
<1> QED BY Zenon, <1>1, <1>2, <1>3, <1>4, <1>5

\* A goroutine's steps.
LEMMA DrainerSteps ==
    ASSUME ItemsOK, HoldsInv, NEW d \in Drainer,
           Drain(d) \/ RunStep(d) \/ LoseLease(d) \/ Crash(d)
    PROVE  /\ \A i \in Item : RowStep(i)
           /\ Ordinary \/ Locks(d) \/ Claims(d) \/ Throttles(d) \/ Retries(d)
<1> USE DEF ItemsOK
<1>1. pc[d] \notin {"idle", "claim"} => held[d] \in Item /\ status[held[d]] # "none"
  BY Zenon, HeldItem, ItemNotZero DEF HoldsInv
<1>2. CASE ClaimNothing(d) \/ LoseLease(d) \/ Crash(d)
  <2>1. UNCHANGED <<status, retry_count, throttled>>
    BY Zenon, <1>2 DEF ClaimNothing, LoseLease, Crash, rows
  <2>2. \A e \in Drainer : Proceeds(e)
    BY Zenon, <1>2, LetGoProceeds DEF ClaimNothing, LoseLease, Crash
  <2> QED BY Zenon, <2>1, <2>2, RowStays DEF Ordinary
<1>3. CASE Drain(d) \/ CheckCredits(d)
  <2>1. UNCHANGED <<status, retry_count, throttled>>
    BY Zenon, <1>3 DEF Drain, CheckCredits, rows
  <2>2. \A e \in Drainer : Proceeds(e)
    BY Zenon, <1>3, GotoProceeds DEF Drain, CheckCredits, Busy, Label
  <2> QED BY Zenon, <2>1, <2>2, RowStays DEF Ordinary
<1>4. CASE LockCandidate(d)
  <2>1. UNCHANGED <<status, retry_count, throttled>> /\ pc[d] = "claim"
    BY Zenon, <1>4 DEF LockCandidate, rows
  <2>2. CASE Goto(d, "idle")
    <3>1. \A e \in Drainer : Proceeds(e)
      BY Zenon, <2>1, <2>2, GotoProceeds DEF Busy, Label
    <3> QED BY Zenon, <2>1, <3>1, RowStays DEF Ordinary
  <2>3. CASE ~Goto(d, "idle")
    <3>1. PICK i \in Candidates : /\ pc' = [pc EXCEPT ![d] = "commit"]
                                  /\ held' = [held EXCEPT ![d] = i]
                                  /\ UNCHANGED <<snapshot, answer>>
      BY Zenon, <1>4, <2>3 DEF LockCandidate
    <3>2. i \in Item /\ status[i] = "pending" /\ ~Locked(i)
      BY Zenon, <3>1 DEF Candidates, Pending
    <3>3. pc'[d] = "commit" /\ held'[d] = i
      BY Zenon, <3>1 DEF RunOK
    <3>4. OthersProceed(d)
      BY Zenon, <3>1 DEF OthersProceed, Proceeds, Keeps, Throttled, RunOK
    <3> QED BY Zenon, <2>1, <3>2, <3>3, <3>4, RowStays DEF Locks
  <2> QED BY Zenon, <2>2, <2>3
<1>5. CASE ClaimNextItem(d)
  <2>1. /\ pc[d] = "commit" /\ UNCHANGED <<retry_count, throttled>>
        /\ status' = [status EXCEPT ![held[d]] = "running"]
    BY Zenon, <1>5 DEF ClaimNextItem
  <2>2. ASSUME NEW i \in Item PROVE RowStep(i)
    BY Zenon, <1>1, <2>1 DEF RowStep, RowsOK
  <2>3. CASE LetGo(d, "idle")
    <3>1. \A e \in Drainer : Proceeds(e)
      BY Zenon, <2>3, LetGoProceeds
    <3> QED BY Zenon, <2>1, <2>2, <3>1 DEF Ordinary
  <2>4. CASE ~LetGo(d, "idle")
    <3>1. /\ pc' = [pc EXCEPT ![d] = "gate"]
          /\ snapshot' = [snapshot EXCEPT ![d] = retry_count[held[d]]]
          /\ UNCHANGED <<held, answer>>
      BY Zenon, <1>5, <2>4 DEF ClaimNextItem
    <3>2. /\ pc'[d] = "gate" /\ held'[d] = held[d] /\ snapshot'[d] = retry_count[held[d]]
          /\ status'[held[d]] = "running"
      BY Zenon, <1>1, <2>1, <3>1 DEF RunOK, RowsOK
    <3>3. OthersProceed(d)
      BY Zenon, <3>1 DEF OthersProceed, Proceeds, Keeps, Throttled, RunOK
    <3> QED BY Zenon, <2>1, <2>2, <3>2, <3>3 DEF Claims
  <2> QED BY Zenon, <2>3, <2>4
<1>6. CASE Execute(d)
  <2>1. PICK a \in {"2xx", "429", "other"} :
            /\ answer' = [answer EXCEPT ![d] = a]
            /\ throttled' = [throttled EXCEPT ![held[d]] = IF a = "429" THEN @ + 1 ELSE @]
    BY Zenon, <1>6 DEF Execute
  <2>2. /\ pc[d] = "run" /\ pc' = [pc EXCEPT ![d] = "outcome"]
        /\ UNCHANGED <<status, retry_count, held, snapshot>>
    BY Zenon, <1>6 DEF Execute, rows
  <2>3. /\ OthersProceed(d) /\ Keeps(d) /\ ~Throttled(d)
        /\ Throttled(d)' <=> a = "429"
    BY Zenon, <2>1, <2>2 DEF OthersProceed, Proceeds, Keeps, Throttled, Busy, RunOK
  <2>4. CASE a = "429"
    BY Zenon, <2>1, <2>2, <2>3, <2>4, RowStays DEF Throttles, Busy
  <2>5. CASE a # "429"
    <3>1. UNCHANGED throttled
      BY Zenon, <2>1, <2>5, <1>1, <2>2 DEF RestOK
    <3> QED BY Zenon, <2>2, <2>3, <2>5, <3>1, RowStays DEF Ordinary, OthersProceed, Proceeds
  <2> QED BY Zenon, <2>4, <2>5
<1>7. CASE Refuse(d) \/ RateLimited(d) \/ Succeed(d) \/ RetryOrFail(d)
  <2>1. pc[d] \in {"refused", "outcome"} /\ LetGo(d, "claim") /\ UNCHANGED throttled
    BY Zenon, <1>7 DEF Refuse, RateLimited, Succeed, RetryOrFail, Finish
  <2>2. Releases(d) /\ \A e \in Drainer : Proceeds(e)
    BY Zenon, <2>1, LetGoProceeds
  <2>3. held[d] \in Item /\ status[held[d]] # "none"
    BY Zenon, <1>1, <2>1
  <2>4. \/ CompleteItem(held[d]) \/ FailItem(held[d]) \/ UNCHANGED rows
        \/ /\ RescheduleItem(held[d]) /\ pc[d] = "outcome"
           /\ Throttled(d) \/ snapshot[d] < MaxRetries
    BY Zenon, <1>7 DEF Refuse, RateLimited, Succeed, RetryOrFail, Throttled
  <2>5. \A i \in Item : RowStep(i)
    BY Zenon, <2>3, <2>4, OutcomeRow
  <2>6. CASE CompleteItem(held[d]) \/ FailItem(held[d]) \/ UNCHANGED rows
    BY Zenon, <2>1, <2>2, <2>5, <2>6 DEF CompleteItem, FailItem, rows, Ordinary
  <2>7. CASE /\ RescheduleItem(held[d]) /\ pc[d] = "outcome"
             /\ Throttled(d) \/ snapshot[d] < MaxRetries
    BY Zenon, <2>1, <2>2, <2>5, <2>7 DEF RescheduleItem, Retries, OthersProceed
  <2> QED BY Zenon, <2>4, <2>6, <2>7
<1> QED BY Zenon, <1>2, <1>3, <1>4, <1>5, <1>6, <1>7 DEF RunStep

LEMMA DeliverySteps ==
    ASSUME ItemsOK, HoldsInv, [Next]_vars
    PROVE  /\ \A i \in Item : RowStep(i)
           /\ \/ Ordinary
              \/ \E d \in Drainer : Locks(d) \/ Claims(d) \/ Throttles(d) \/ Retries(d)
  BY Zenon, TableSteps, DrainerSteps DEF Next


\* Proceeding and keeping leave the facts on rows in hand alone.
LEMMA RowFacts ==
    ASSUME ItemsOK, HoldsInv, \A i \in Item : RowStep(i),
           NEW e \in Drainer, Keeps(e) \/ Releases(e)
    PROVE  /\ held'[e] # 0 => status'[held'[e]] # "none"
           /\ pc'[e] \in Busy =>
                /\ snapshot'[e] <= retry_count'[held'[e]]
                /\ status'[held'[e]] = "pending" => snapshot'[e] < retry_count'[held'[e]]
<1>1. CASE Releases(e)
  BY Zenon, <1>1 DEF Releases, Busy
<1>2. CASE Keeps(e) /\ held[e] # 0
  <2>1. /\ held[e] \in Item /\ held'[e] = held[e] /\ snapshot'[e] = snapshot[e]
        /\ pc'[e] \in Busy => pc[e] \in Busy
    BY Zenon, <1>2 DEF Keeps, ItemsOK, RunOK
  <2>2. RowStep(held[e]) /\ status[held[e]] # "none"
    BY Zenon, <1>2, <2>1 DEF HoldsInv
  <2>3. pc[e] \in Busy => /\ snapshot[e] <= retry_count[held[e]]
                          /\ status[held[e]] = "pending" => snapshot[e] < retry_count[held[e]]
    BY Zenon DEF HoldsInv
  <2>4. snapshot[e] \in Nat /\ retry_count[held[e]] \in Nat
    BY Zenon, <2>1 DEF ItemsOK, RowsOK, RunOK
  <2> QED BY <2>1, <2>2, <2>3, <2>4 DEF RowStep
<1>3. CASE Keeps(e) /\ held[e] = 0
  <2>1. pc[e] \notin Busy
    BY Zenon, <1>3, HeldItem, ItemNotZero DEF ItemsOK, Busy
  <2> QED BY Zenon, <1>3, <2>1 DEF Keeps
<1> QED BY Zenon, <1>1, <1>2, <1>3

\* Of two goroutines that lock nothing new and claim nothing new.
LEMMA PairFacts ==
    ASSUME ItemsOK, DeliveriesInv, \A i \in Item : RowStep(i),
           NEW d \in Drainer, Keeps(d) \/ Releases(d),
           NEW e \in Drainer, Keeps(e) \/ Releases(e)
    PROVE  /\ pc'[d] = "commit" /\ held'[e] = held'[d] =>
                /\ pc'[e] = "commit" => e = d
                /\ pc'[e] \in Busy => snapshot'[e] < retry_count'[held'[d]]
           /\ d # e /\ pc'[d] \in Busy /\ pc'[e] \in Busy /\ held'[d] = held'[e]
                => snapshot'[d] # snapshot'[e]
<1>1. CASE Keeps(d) /\ Keeps(e)
  <2>1. pc[d] = "commit" /\ held[e] = held[d] =>
                /\ pc[e] = "commit" => e = d
                /\ pc[e] \in Busy => snapshot[e] < retry_count[held[d]]
    BY Zenon DEF DeliveriesInv, HoldsInv
  <2>2. pc[d] = "commit" => /\ held[d] \in Item
                            /\ retry_count[held[d]] \in Nat /\ RowStep(held[d])
    BY Zenon, HeldItem DEF ItemsOK, RowsOK
  <2>3. pc[d] = "commit" => retry_count'[held[d]] >= retry_count[held[d]]
    BY <2>2 DEF RowStep
  <2>4. snapshot[e] \in Nat
    BY Zenon DEF ItemsOK, RunOK
  <2>5. pc[d] = "commit" /\ snapshot[e] < retry_count[held[d]]
            => snapshot[e] < retry_count'[held[d]]
    BY <2>2, <2>4 DEF RowStep
  <2> QED BY Zenon, <1>1, <2>1, <2>5 DEF Keeps, DeliveriesInv, DistinctDeliveries
<1>2. CASE Releases(d) \/ Releases(e)
  <2>1. pc'[d] \notin {"idle", "claim"} /\ pc'[e] \notin {"idle", "claim"} =>
           ~(Releases(d) \/ Releases(e))
    BY Zenon DEF Releases
  <2> QED BY Zenon, <1>2, <2>1 DEF Busy
<1> QED BY Zenon, <1>1, <1>2

LEMMA InitDeliveries == Init => DeliveriesInv
  BY Zenon DEF Init, DeliveriesInv, HoldsInv, DistinctDeliveries, Busy

LEMMA DeliveriesStep ==
    ASSUME ItemsOK, ItemsOK', DeliveriesInv, [Next]_vars PROVE DeliveriesInv'
<1> USE DEF DeliveriesInv
<1>1. \A i \in Item : RowStep(i)
  BY Zenon, DeliverySteps
<1>2. CASE \A e \in Drainer : Keeps(e) \/ Releases(e)
  BY Zenon, <1>1, <1>2, RowFacts, PairFacts DEF HoldsInv, DistinctDeliveries
<1>3. ASSUME NEW d \in Drainer, Locks(d) PROVE DeliveriesInv'
  <2>1. \A e \in Drainer \ {d} : Keeps(e) \/ Releases(e)
    BY Zenon, <1>3 DEF Locks, OthersProceed, Proceeds
  <2>2. /\ pc'[d] = "commit" /\ held'[d] \in Item /\ status'[held'[d]] = "pending"
        /\ UNCHANGED <<status, retry_count>> /\ ~Locked(held'[d])
    BY Zenon, <1>3 DEF Locks
  <2>3. ASSUME NEW e \in Drainer \ {d}, held'[e] = held'[d]
        PROVE  pc'[e] # "commit" /\ (pc'[e] \in Busy => snapshot'[e] < retry_count'[held'[d]])
    <3>1. Keeps(e)
      BY Zenon, <2>1, <2>2, <2>3, ItemNotZero DEF Releases
    <3>2. held[e] = held'[d] /\ pc[e] # "commit"
      BY Zenon, <2>2, <2>3, <3>1 DEF Keeps, Locked
    <3>3. pc[e] \in Busy => snapshot[e] < retry_count[held'[d]]
      BY Zenon, <2>2, <3>2 DEF HoldsInv
    <3> QED BY Zenon, <2>2, <3>1, <3>2, <3>3 DEF Keeps
  <2>4. ASSUME NEW a \in Drainer, NEW b \in Drainer, a # d, b # d
        PROVE  /\ pc'[a] = "commit" /\ held'[b] = held'[a] =>
                    /\ pc'[b] = "commit" => b = a
                    /\ pc'[b] \in Busy => snapshot'[b] < retry_count'[held'[a]]
               /\ a # b /\ pc'[a] \in Busy /\ pc'[b] \in Busy /\ held'[a] = held'[b]
                    => snapshot'[a] # snapshot'[b]
    BY Zenon, <1>1, <2>1, <2>4, PairFacts
  <2>5. ASSUME NEW a \in Drainer
        PROVE  /\ held'[a] # 0 => status'[held'[a]] # "none"
               /\ pc'[a] \in Busy =>
                    /\ snapshot'[a] <= retry_count'[held'[a]]
                    /\ status'[held'[a]] = "pending" => snapshot'[a] < retry_count'[held'[a]]
    <3>1. CASE a = d
      BY Zenon, <2>2, <3>1 DEF Busy
    <3>2. CASE a # d
      BY Zenon, <1>1, <2>1, <3>2, RowFacts
    <3> QED BY Zenon, <3>1, <3>2
  <2>6. pc'[d] \notin Busy
    BY Zenon, <2>2 DEF Busy
  <2>7. HoldsInv'
    BY Zenon, <2>3, <2>4, <2>5, <2>6 DEF HoldsInv
  <2>8. DistinctDeliveries'
    BY Zenon, <2>4, <2>6 DEF DistinctDeliveries
  <2> QED BY Zenon, <2>7, <2>8
<1>4. ASSUME NEW d \in Drainer, Claims(d) PROVE DeliveriesInv'
  <2>1. \A e \in Drainer \ {d} : Keeps(e) \/ Releases(e)
    BY Zenon, <1>4 DEF Claims, OthersProceed, Proceeds
  <2>2. /\ pc[d] = "commit" /\ pc'[d] = "gate" /\ held'[d] = held[d]
        /\ status'[held[d]] = "running" /\ snapshot'[d] = retry_count[held[d]]
        /\ UNCHANGED retry_count
    BY Zenon, <1>4 DEF Claims
  <2>3. held[d] \in Item /\ retry_count[held[d]] \in Nat
    BY Zenon, <2>2, HeldItem DEF ItemsOK, RowsOK
  <2>4. ASSUME NEW e \in Drainer \ {d}, held'[e] = held'[d]
        PROVE  pc'[e] # "commit" /\ (pc'[e] \in Busy => snapshot'[e] # snapshot'[d])
    <3>1. Keeps(e)
      BY Zenon, <2>1, <2>2, <2>3, <2>4, ItemNotZero DEF Releases
    <3>2. held[e] = held[d] /\ snapshot'[e] = snapshot[e] /\ snapshot[e] \in Nat
      BY Zenon, <2>2, <2>4, <3>1 DEF Keeps, ItemsOK, RunOK
    <3>3. pc[e] # "commit" /\ (pc[e] \in Busy => snapshot[e] < retry_count[held[d]])
      BY Zenon, <2>2, <3>2 DEF HoldsInv
    <3>4. snapshot[e] < retry_count[held[d]] => snapshot[e] # retry_count[held[d]]
      BY <2>3, <3>2
    <3> QED BY Zenon, <2>2, <3>1, <3>2, <3>3, <3>4 DEF Keeps
  <2>5. ASSUME NEW a \in Drainer, NEW b \in Drainer, a # d, b # d
        PROVE  /\ pc'[a] = "commit" /\ held'[b] = held'[a] =>
                    /\ pc'[b] = "commit" => b = a
                    /\ pc'[b] \in Busy => snapshot'[b] < retry_count'[held'[a]]
               /\ a # b /\ pc'[a] \in Busy /\ pc'[b] \in Busy /\ held'[a] = held'[b]
                    => snapshot'[a] # snapshot'[b]
    BY Zenon, <1>1, <2>1, <2>5, PairFacts
  <2>6. ASSUME NEW a \in Drainer
        PROVE  /\ held'[a] # 0 => status'[held'[a]] # "none"
               /\ pc'[a] \in Busy =>
                    /\ snapshot'[a] <= retry_count'[held'[a]]
                    /\ status'[held'[a]] = "pending" => snapshot'[a] < retry_count'[held'[a]]
    <3>1. CASE a = d
      BY <2>2, <2>3, <3>1
    <3>2. CASE a # d
      BY Zenon, <1>1, <2>1, <3>2, RowFacts
    <3> QED BY Zenon, <3>1, <3>2
  <2>7. HoldsInv'
    BY Zenon, <2>2, <2>4, <2>5, <2>6 DEF HoldsInv
  <2>8. DistinctDeliveries'
    BY Zenon, <2>4, <2>5 DEF DistinctDeliveries
  <2> QED BY Zenon, <2>7, <2>8
<1>5. CASE Ordinary
  BY Zenon, <1>2, <1>5 DEF Ordinary, Proceeds
<1>6. ASSUME NEW d \in Drainer, Throttles(d) \/ Retries(d) PROVE DeliveriesInv'
  BY Zenon, <1>2, <1>6 DEF Throttles, Retries, OthersProceed, Proceeds
<1> QED BY Zenon, <1>3, <1>4, <1>5, <1>6, DeliverySteps

\* DistinctDeliveries: even where claims overlap and stalled goroutines go on, no two
\* of them ever have the same try of an item in hand, because whatever puts an item
\* back in the queue counts a retry.
THEOREM DeliveriesAreDistinct == Spec => []DistinctDeliveries
<1>1. TypeOK => ItemsOK
  BY Zenon, TypeParts DEF ItemsOK
<1>2. ItemsOK /\ ItemsOK' /\ DeliveriesInv /\ [Next]_vars => DeliveriesInv'
  BY Zenon, DeliveriesStep
<1>3. DeliveriesInv => DistinctDeliveries
  BY Zenon DEF DeliveriesInv
<1> QED BY <1>1, <1>2, <1>3, InitDeliveries, BufferTypeCorrect, PTL DEF Spec

\* Goroutines that have item i, before and after an answer of 429; the tries they have
\* of it that may still be counted, for want of retries so far and for the 429.
Delivers(e, i) == pc[e] \in Busy /\ held[e] = i /\ ~Throttled(e)
WasThrottled(e, i) == Throttled(e) /\ held[e] = i
Spare(i) == {n \in 0..(MaxRetries - 1) : \E e \in Drainer : Delivers(e, i) /\ snapshot[e] = n}
Limited(i) == {n \in Nat : \E e \in Drainer : WasThrottled(e, i) /\ snapshot[e] = n}

\* What a step does to the retries of an item and to the tries in hand: no retry; an
\* answer of 429; a retry by the reaper, by a goroutine, and by one answered 429.
CountStep(i) ==
    \/ /\ retry_count'[i] = retry_count[i] /\ throttled'[i] = throttled[i]
       /\ Limited(i)' \subseteq Limited(i)
       /\ retry_count[i] >= MaxRetries => Spare(i)' \subseteq Spare(i)
    \/ /\ retry_count'[i] = retry_count[i] /\ throttled'[i] = throttled[i] + 1
       /\ Spare(i)' \subseteq Spare(i)
       /\ \E n \in Nat : Limited(i)' \subseteq Limited(i) \cup {n}
    \/ /\ retry_count[i] < MaxRetries
       /\ retry_count'[i] = retry_count[i] + 1 /\ throttled'[i] = throttled[i]
       /\ Limited(i)' \subseteq Limited(i)
    \/ /\ retry_count'[i] = retry_count[i] + 1 /\ throttled'[i] = throttled[i]
       /\ Limited(i)' \subseteq Limited(i)
       /\ \E n \in Spare(i) : Spare(i)' \subseteq Spare(i) \ {n}
    \/ /\ retry_count'[i] = retry_count[i] + 1 /\ throttled'[i] = throttled[i]
       /\ Spare(i)' \subseteq Spare(i)
       /\ \E n \in Limited(i) : Limited(i)' \subseteq Limited(i) \ {n}

LEMMA NoNewTry ==
    ASSUME NEW e \in Drainer, NEW i \in Item, Proceeds(e)
    PROVE  /\ Delivers(e, i)' => Delivers(e, i) /\ snapshot'[e] = snapshot[e]
           /\ WasThrottled(e, i)' => WasThrottled(e, i) /\ snapshot'[e] = snapshot[e]
  BY Zenon, ItemNotZero DEF Proceeds, Releases, Keeps, Delivers, WasThrottled

LEMMA CountSteps ==
    ASSUME ItemsOK, DeliveriesInv, [Next]_vars, NEW i \in Item PROVE CountStep(i)
<1> USE DEF DeliveriesInv
<1>1. ASSUME NEW d \in Drainer, OthersProceed(d), NEW n,
             (Delivers(d, i)' /\ snapshot'[d] = n) => n \notin 0..(MaxRetries - 1)
      PROVE  n \in Spare(i)' =>
                \E e \in Drainer \ {d} : /\ Delivers(e, i) /\ snapshot[e] = n
                                         /\ n \in Spare(i)
  BY Zenon, <1>1, NoNewTry DEF OthersProceed, Spare
<1>2. ASSUME NEW d \in Drainer, OthersProceed(d), NEW n, ~WasThrottled(d, i)'
      PROVE  n \in Limited(i)' =>
                \E e \in Drainer \ {d} : /\ WasThrottled(e, i) /\ snapshot[e] = n
                                         /\ n \in Limited(i)
  BY Zenon, <1>2, NoNewTry DEF OthersProceed, Limited
<1>3. CASE Ordinary
  <2>1. Spare(i)' \subseteq Spare(i) /\ Limited(i)' \subseteq Limited(i)
    BY Zenon, <1>3, NoNewTry DEF Ordinary, Spare, Limited
  <2> QED BY Zenon, <1>3, <2>1 DEF Ordinary, CountStep
<1>4. ASSUME NEW d \in Drainer, Locks(d) PROVE CountStep(i)
  <2>1. ~Delivers(d, i)' /\ ~WasThrottled(d, i)'
    BY Zenon, <1>4 DEF Locks, Delivers, WasThrottled, Throttled, Busy
  <2>2. Spare(i)' \subseteq Spare(i) /\ Limited(i)' \subseteq Limited(i)
    BY Zenon, <1>1, <1>2, <1>4, <2>1 DEF Locks
  <2> QED BY Zenon, <1>4, <2>2 DEF Locks, CountStep
<1>5. ASSUME NEW d \in Drainer, Claims(d) PROVE CountStep(i)
  <2>1. ~WasThrottled(d, i)'
    BY Zenon, <1>5 DEF Claims, WasThrottled, Throttled
  <2>2. Limited(i)' \subseteq Limited(i)
    BY Zenon, <1>2, <1>5, <2>1 DEF Claims
  <2>3. ASSUME retry_count[i] >= MaxRetries PROVE Spare(i)' \subseteq Spare(i)
    <3>1. retry_count[i] \notin 0..(MaxRetries - 1)
      BY <2>3, BoundsAssumption DEF ItemsOK, RowsOK
    <3>2. ASSUME NEW n, Delivers(d, i)', snapshot'[d] = n PROVE n \notin 0..(MaxRetries - 1)
      BY Zenon, <1>5, <3>1, <3>2 DEF Claims, Delivers
    <3> QED BY Zenon, <1>1, <1>5, <3>2 DEF Claims
  <2> QED BY Zenon, <1>5, <2>2, <2>3 DEF Claims, CountStep
<1>6. ASSUME NEW d \in Drainer, Throttles(d) PROVE CountStep(i)
  <2>1. /\ ~Delivers(d, i)' /\ held'[d] = held[d] /\ snapshot'[d] = snapshot[d]
        /\ held[d] \in Item /\ snapshot[d] \in Nat
    BY Zenon, <1>6, HeldItem DEF Throttles, Keeps, Delivers, Busy, ItemsOK, RunOK
  <2>2. Spare(i)' \subseteq Spare(i)
    BY Zenon, <1>1, <1>6, <2>1 DEF Throttles
  <2>3. CASE held[d] = i
    <3>1. Limited(i)' \subseteq Limited(i) \cup {snapshot[d]}
      BY Zenon, <1>6, <2>1, NoNewTry DEF Throttles, OthersProceed, Limited
    <3>2. throttled'[i] = throttled[i] + 1 /\ retry_count'[i] = retry_count[i]
      BY Zenon, <1>6, <2>3 DEF Throttles, ItemsOK, RestOK
    <3> QED BY Zenon, <2>1, <2>2, <3>1, <3>2 DEF CountStep
  <2>4. CASE held[d] # i
    <3>1. Limited(i)' \subseteq Limited(i)
      BY Zenon, <1>2, <1>6, <2>1, <2>4 DEF Throttles, WasThrottled
    <3>2. throttled'[i] = throttled[i] /\ retry_count'[i] = retry_count[i]
      BY Zenon, <1>6, <2>1, <2>4 DEF Throttles, ItemsOK, RestOK
    <3> QED BY Zenon, <2>2, <3>1, <3>2 DEF CountStep
  <2> QED BY Zenon, <2>3, <2>4
<1>7. ASSUME NEW d \in Drainer, Retries(d) PROVE CountStep(i)
  <2>1. /\ ~Delivers(d, i)' /\ ~WasThrottled(d, i)'
        /\ pc[d] \in Busy /\ held[d] \in Item /\ snapshot[d] \in Nat
    BY Zenon, <1>7, HeldItem, ItemNotZero
       DEF Retries, Releases, Delivers, WasThrottled, Busy, ItemsOK, RunOK
  <2>2. Spare(i)' \subseteq Spare(i) /\ Limited(i)' \subseteq Limited(i)
    BY Zenon, <1>1, <1>2, <1>7, <2>1 DEF Retries
  <2>3. throttled'[i] = throttled[i]
    BY Zenon, <1>7 DEF Retries
  <2>4. CASE held[d] # i
    BY Zenon, <1>7, <2>1, <2>2, <2>3, <2>4 DEF Retries, CountStep, ItemsOK, RowsOK
  <2>5. CASE held[d] = i
    <3>1. retry_count'[i] = retry_count[i] + 1
      BY Zenon, <1>7, <2>1, <2>5 DEF Retries, ItemsOK, RowsOK
    <3>2. ASSUME NEW e \in Drainer \ {d}, Delivers(e, i) \/ WasThrottled(e, i)
          PROVE  snapshot[e] # snapshot[d]
      BY Zenon, <2>1, <2>5, <3>2
         DEF DistinctDeliveries, Delivers, WasThrottled, Throttled, Busy
    <3>3. CASE Throttled(d)
      <4>1. snapshot[d] \in Limited(i)
        BY Zenon, <2>1, <2>5, <3>3 DEF Limited, WasThrottled
      <4>2. Limited(i)' \subseteq Limited(i) \ {snapshot[d]}
        <5>1. snapshot[d] \notin Limited(i)'
          BY ZenonT(30), <1>2, <1>7, <2>1, <3>2 DEF Retries
        <5> QED BY Zenon, <2>2, <5>1
      <4> QED BY Zenon, <2>2, <2>3, <3>1, <4>1, <4>2 DEF CountStep
    <3>4. CASE ~Throttled(d)
      <4>1. snapshot[d] \in 0..(MaxRetries - 1)
        <5>1. snapshot[d] < MaxRetries
          BY Zenon, <1>7, <3>4 DEF Retries
        <5> QED BY <2>1, <5>1, BoundsAssumption
      <4>2. snapshot[d] \in Spare(i)
        BY Zenon, <2>1, <2>5, <3>4, <4>1 DEF Spare, Delivers
      <4>3. Spare(i)' \subseteq Spare(i) \ {snapshot[d]}
        <5>1. snapshot[d] \notin Spare(i)'
          BY ZenonT(30), <1>1, <1>7, <2>1, <3>2 DEF Retries
        <5> QED BY Zenon, <2>2, <5>1
      <4> QED BY Zenon, <2>2, <2>3, <3>1, <4>2, <4>3 DEF CountStep
    <3> QED BY Zenon, <3>3, <3>4
  <2> QED BY Zenon, <2>4, <2>5
<1> QED BY Zenon, <1>3, <1>4, <1>5, <1>6, <1>7, DeliverySteps
=============================================================================
