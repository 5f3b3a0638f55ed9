---------------------------- MODULE AccountProofs ----------------------------
(***************************************************************************)
(* Theorems on Credits, AlertChannels and Account, which puts them side by *)
(* side: for any sets of runs, purchases and channels and all bounds.      *)
(***************************************************************************)
EXTENDS Account, FiniteSetTheorems, TLAPS

-----------------------------------------------------------------------------
(* Credits *)

\* What a run in progress still takes is accounted for in advance.
Reserve == balance >= 1 - Cardinality(Run) - waved + Cardinality(executing)

\* A warning since the latch was cleared means that the balance is low.
WarningInv ==
    /\ warnings \in 0..1
    /\ warnings = 1 => balance < Threshold
    /\ latch = "set" => balance < Threshold

CreditsInv == CreditTypeOK /\ Reserve /\ WarningInv /\ WarningNotMissed /\ LedgerExplainsBalance

LEMMA ExecutingCardinality ==
    ASSUME NEW S, S \subseteq Run
    PROVE  /\ Cardinality(S) \in Nat /\ Cardinality(Run) \in Nat
           /\ Cardinality(S) <= Cardinality(Run)
           /\ \A r \in Run \ S : Cardinality(S \cup {r}) = Cardinality(S) + 1
           /\ \A r \in S : Cardinality(S \ {r}) = Cardinality(S) - 1
<1>1. IsFiniteSet(Run) /\ IsFiniteSet(S)
  BY Zenon, RunAssumption, FS_Subset
<1>2. Cardinality(S) \in Nat /\ Cardinality(Run) \in Nat /\ Cardinality(S) <= Cardinality(Run)
  BY Zenon, <1>1, FS_CardinalityType, FS_Subset
<1>3. \A r \in Run \ S : Cardinality(S \cup {r}) = Cardinality(S) + 1
  BY Zenon, <1>1, FS_AddElement
<1>4. \A r \in S : Cardinality(S \ {r}) = Cardinality(S) - 1
  BY Zenon, <1>1, FS_RemoveElement
<1> QED
  BY Zenon, <1>2, <1>3, <1>4

LEMMA ZoneType == \A b \in Int : Zone(b) \in {"high", "low"} /\ (Zone(b) = "high" => b >= Threshold)
  BY CreditsAssumption DEF Zone

LEMMA InitCredits == CreditInit => CreditsInv
<1> SUFFICES ASSUME CreditInit PROVE CreditsInv
  BY Zenon
<1>1. CreditTypeOK
  BY CreditsAssumption, ZoneType DEF CreditInit, CreditTypeOK
<1>2. Reserve
  BY CreditsAssumption, ExecutingCardinality, FS_EmptySet DEF CreditInit, Reserve
<1>3. WarningInv /\ LedgerExplainsBalance
  BY CreditsAssumption DEF CreditInit, WarningInv, LedgerExplainsBalance
<1>4. WarningNotMissed
  BY CreditsAssumption, ZoneType DEF CreditInit, WarningNotMissed
<1> QED
  BY Zenon, <1>1, <1>2, <1>3, <1>4 DEF CreditsInv

\* The gates.  What HasCredits leaves behind is as good as before, and a run it
\* lets through finds a positive balance.
LEMMA GatePreserves ==
    ASSUME CreditsInv, NEW ok \in BOOLEAN, HasCredits(ok), executing' \subseteq Run,
           executing' = executing \/ (ok /\ \E r \in Run : executing' = executing \cup {r})
    PROVE  CreditsInv'
<1> USE CreditsAssumption
<1>1. CASE Refresh
  <2>1. /\ balance' = DailyLimit /\ ledger' = DailyLimit /\ opening' = 0
        /\ latch' = "clear" /\ warnings' = 0 /\ armed' = Zone(DailyLimit)
        /\ refreshed_at' = "today" /\ plan' = plan /\ notices' = notices
        /\ UNCHANGED <<stripe, waved, days>>
    BY Zenon, <1>1 DEF Refresh, HasCredits
  <2>2. CreditTypeOK'
    BY <2>1, ZoneType DEF CreditsInv, CreditTypeOK, stripe
  <2>3. Reserve'
    BY <2>1, ExecutingCardinality DEF CreditsInv, CreditTypeOK, Reserve
  <2>4. WarningInv' /\ LedgerExplainsBalance'
    BY <2>1 DEF WarningInv, LedgerExplainsBalance
  <2>5. WarningNotMissed'
    BY <2>1, ZoneType DEF WarningNotMissed
  <2> QED
    BY Zenon, <2>2, <2>3, <2>4, <2>5 DEF CreditsInv
<1>2. CASE ~RefreshDue /\ UNCHANGED <<row, warned>>
  <2>1. UNCHANGED <<balance, plan, latch, refreshed_at, ledger, opening, notices, warnings,
                    armed, waved, days, session, credits, customer, handler, credited>>
    BY Zenon, <1>2 DEF HasCredits, row, warned, stripe
  <2>2. CreditTypeOK' /\ WarningInv' /\ WarningNotMissed' /\ LedgerExplainsBalance'
    BY <2>1 DEF CreditsInv, CreditTypeOK, WarningInv, WarningNotMissed, LedgerExplainsBalance
  <2>3. Reserve'
    <3>1. CASE executing' = executing
      BY Zenon, <2>1, <3>1 DEF CreditsInv, Reserve
    <3>2. CASE ok
      BY <2>1, <3>2, ExecutingCardinality DEF HasCredits, CreditsInv, CreditTypeOK, Reserve
    <3> QED
      BY Zenon, <3>1, <3>2
  <2> QED
    BY Zenon, <2>2, <2>3 DEF CreditsInv
<1> QED
  BY Zenon, <1>1, <1>2 DEF HasCredits

LEMMA DeductPreserves ==
    ASSUME CreditsInv, NEW r \in Run, Deduct(r)
    PROVE  CreditsInv'
<1> USE CreditsAssumption
<1>1. /\ r \in executing /\ executing' = executing \ {r}
      /\ balance' = balance - 1 /\ ledger' = ledger - 1
      /\ latch' = IF Threshold > 0 /\ balance - 1 < Threshold THEN "set" ELSE latch
      /\ UNCHANGED <<plan, refreshed_at, opening, armed>>
      /\ UNCHANGED <<stripe, waved, days>>
  BY Zenon DEF Deduct, deduct
<1>2. \/ /\ Threshold > 0 /\ balance = Threshold
         /\ notices' = notices + 1 /\ warnings' = warnings + 1
      \/ /\ ~(Threshold > 0 /\ balance = Threshold)
         /\ notices' = notices /\ warnings' = warnings
  BY DEF Deduct, deduct, Crossed, CreditsInv, CreditTypeOK
<1>3. CreditTypeOK'
  BY <1>1, <1>2 DEF CreditsInv, CreditTypeOK, stripe
<1>4. Reserve'
  <2>1. executing \subseteq Run
    BY Zenon DEF CreditsInv, CreditTypeOK
  <2>2. Cardinality(executing') = Cardinality(executing) - 1
    BY ZenonT(30), <1>1, <2>1, ExecutingCardinality
  <2> QED
    BY <1>1, <2>1, <2>2, ExecutingCardinality DEF CreditsInv, CreditTypeOK, Reserve
<1>5. WarningInv'
  BY <1>1, <1>2 DEF CreditsInv, CreditTypeOK, WarningInv
<1>6. WarningNotMissed'
  BY <1>1, <1>2 DEF CreditsInv, CreditTypeOK, WarningInv, WarningNotMissed
<1>7. LedgerExplainsBalance'
  BY <1>1 DEF CreditsInv, CreditTypeOK, LedgerExplainsBalance
<1> QED
  BY Zenon, <1>3, <1>4, <1>5, <1>6, <1>7 DEF CreditsInv

LEMMA TopUpPreserves ==
    ASSUME CreditsInv, NEW p \in Purchase, TopUp(p)
    PROVE  CreditsInv'
<1> USE CreditsAssumption
<1>1. /\ balance' = balance + credits[p] /\ ledger' = ledger + credits[p]
      /\ latch' = "clear" /\ warnings' = 0 /\ armed' = Zone(balance + credits[p])
      /\ handler' = [handler EXCEPT ![p] = "topped"]
      /\ credited' = [credited EXCEPT ![p] = @ + 1]
      /\ UNCHANGED <<plan, refreshed_at, opening, notices, executing, waved, days,
                     session, credits, customer>>
  BY Zenon DEF TopUp
<1>2. credits[p] \in Nat /\ credited[p] \in Nat /\ balance + credits[p] \in Int
  BY DEF CreditsInv, CreditTypeOK
<1>3. CreditTypeOK'
  BY <1>1, <1>2, ZoneType DEF CreditsInv, CreditTypeOK
<1>4. Reserve'
  BY <1>1, <1>2, ExecutingCardinality DEF CreditsInv, CreditTypeOK, Reserve
<1>5. WarningInv' /\ LedgerExplainsBalance'
  BY <1>1, <1>2 DEF CreditsInv, CreditTypeOK, WarningInv, LedgerExplainsBalance
<1>6. WarningNotMissed'
  BY <1>1, <1>2, ZoneType DEF WarningNotMissed
<1> QED
  BY Zenon, <1>3, <1>4, <1>5, <1>6 DEF CreditsInv

\* Steps that leave the balance, the ledger and the latch alone.
LEMMA BalanceUntouched ==
    ASSUME CreditsInv, CreditTypeOK', Reserve',
           UNCHANGED <<balance, ledger, opening, latch, warnings, armed>>
    PROVE  CreditsInv'
  BY Zenon DEF CreditsInv, WarningInv, WarningNotMissed, LedgerExplainsBalance

LEMMA RunStepPreserves ==
    ASSUME CreditsInv, NEW r \in Run,
           CheckAtExecution(r) \/ ProceedAnyway(r) \/ Deduct(r) \/ GoUncharged(r)
    PROVE  CreditsInv'
<1> USE CreditsAssumption
<1>0. executing \subseteq Run
  BY Zenon DEF CreditsInv, CreditTypeOK
<1>1. CASE CheckAtExecution(r)
  <2>1. CASE HasCredits(TRUE) /\ executing' = executing \cup {r}
    BY Zenon, <1>0, <2>1, GatePreserves
  <2>2. CASE HasCredits(FALSE) /\ executing' = executing
    BY Zenon, <1>0, <2>2, GatePreserves
  <2> QED
    BY Zenon, <1>1, <2>1, <2>2 DEF CheckAtExecution
<1>2. CASE ProceedAnyway(r)
  <2>1. /\ r \notin executing /\ waved' = waved + 1 /\ executing' = executing \cup {r}
        /\ UNCHANGED <<balance, plan, latch, refreshed_at, ledger, opening, notices, warnings,
                       armed, days, session, credits, customer, handler, credited>>
    BY Zenon, <1>2 DEF ProceedAnyway, row, warned, stripe
  <2>2. CreditTypeOK'
    BY <2>1 DEF CreditsInv, CreditTypeOK
  <2>3. Cardinality(executing') = Cardinality(executing) + 1
    BY ZenonT(30), <1>0, <2>1, ExecutingCardinality
  <2>4. Reserve'
    BY <1>0, <2>1, <2>3, ExecutingCardinality DEF CreditsInv, CreditTypeOK, Reserve
  <2> QED
    BY Zenon, <2>1, <2>2, <2>4, BalanceUntouched
<1>3. CASE Deduct(r)
  BY Zenon, <1>3, DeductPreserves
<1>4. CASE GoUncharged(r)
  <2>1. /\ r \in executing /\ executing' = executing \ {r}
        /\ UNCHANGED <<balance, plan, latch, refreshed_at, ledger, opening, notices, warnings,
                       armed, waved, days, session, credits, customer, handler, credited>>
    BY Zenon, <1>4 DEF GoUncharged, row, warned, stripe
  <2>2. CreditTypeOK'
    BY ZenonT(30), <2>1 DEF CreditsInv, CreditTypeOK
  <2>3. Cardinality(executing') = Cardinality(executing) - 1
    BY Zenon, <1>0, <2>1, ExecutingCardinality
  <2>4. Reserve'
    BY <1>0, <2>1, <2>3, ExecutingCardinality DEF CreditsInv, CreditTypeOK, Reserve
  <2> QED
    BY Zenon, <2>1, <2>2, <2>4, BalanceUntouched
<1> QED
  BY Zenon, <1>1, <1>2, <1>3, <1>4

LEMMA PurchaseStepPreserves ==
    ASSUME CreditsInv, NEW p \in Purchase,
           \/ CreateCheckoutSession(p) \/ SaveCustomer(p) \/ Pay(p)
           \/ TopUp(p) \/ UpdatePlan(p) \/ LoseHandler(p)
    PROVE  CreditsInv'
<1> USE CreditsAssumption
<1>1. CASE TopUp(p)
  BY Zenon, <1>1, TopUpPreserves
<1>2. CASE CreateCheckoutSession(p)
  <2>1. PICK n \in Amounts : n > 0 /\ credits' = [credits EXCEPT ![p] = n]
    BY Zenon, <1>2 DEF CreateCheckoutSession
  <2>2. n \in Nat
    BY <2>1
  <2>3. /\ session' = [session EXCEPT ![p] = IF customer = "none" THEN "customer" ELSE "open"]
        /\ UNCHANGED <<balance, plan, latch, refreshed_at, ledger, opening, notices, warnings,
                       armed, executing, waved, days, customer, handler, credited>>
    BY Zenon, <1>2 DEF CreateCheckoutSession, row, warned
  <2>4. CreditTypeOK'
    BY Zenon, <2>1, <2>2, <2>3 DEF CreditsInv, CreditTypeOK
  <2>5. Reserve'
    BY Zenon, <2>3 DEF CreditsInv, Reserve
  <2> QED
    BY Zenon, <2>3, <2>4, <2>5, BalanceUntouched
<1>3. CASE SaveCustomer(p) \/ Pay(p) \/ UpdatePlan(p) \/ LoseHandler(p)
  <2>1. /\ UNCHANGED <<balance, latch, refreshed_at, ledger, opening, notices, warnings,
                       armed, executing, waved, days, credits, credited>>
        /\ plan' \in {plan, "paid"} /\ customer' \in {customer, p}
        /\ session' \in {session} \cup {[session EXCEPT ![p] = t] : t \in {"open", "paid", "acked"}}
        /\ handler' \in {handler, [handler EXCEPT ![p] = "idle"]}
    BY Zenon, <1>3 DEF SaveCustomer, Pay, UpdatePlan, LoseHandler, row, warned
  <2>2. session' \in [Purchase -> {"none", "customer", "open", "paid", "acked"}]
    BY <2>1 DEF CreditsInv, CreditTypeOK
  <2>3. CreditTypeOK'
    BY <2>1, <2>2 DEF CreditsInv, CreditTypeOK
  <2>4. Reserve'
    BY Zenon, <2>1 DEF CreditsInv, Reserve
  <2> QED
    BY Zenon, <2>1, <2>3, <2>4, BalanceUntouched
<1> QED
  BY Zenon, <1>1, <1>2, <1>3

LEMMA NextCredits == CreditsInv /\ [CreditNext]_creditVars => CreditsInv'
<1> SUFFICES ASSUME CreditsInv, [CreditNext]_creditVars PROVE CreditsInv'
  BY Zenon
<1>0. executing \subseteq Run
  BY Zenon DEF CreditsInv, CreditTypeOK
<1>1. CASE Midnight \/ TakeNotice
  <2>1. /\ UNCHANGED <<balance, plan, latch, ledger, opening, warnings, armed, executing,
                       waved, session, credits, customer, handler, credited>>
        /\ notices' \in Nat /\ days' \in Nat /\ refreshed_at' \in {"today", "before"}
    BY <1>1 DEF Midnight, TakeNotice, row, warned, stripe, CreditsInv, CreditTypeOK
  <2>2. CreditTypeOK'
    BY Zenon, <2>1 DEF CreditsInv, CreditTypeOK
  <2>3. Reserve'
    BY Zenon, <2>1 DEF CreditsInv, Reserve
  <2> QED
    BY ZenonT(30), <2>1, <2>2, <2>3, BalanceUntouched
<1>2. CASE CheckAtCreation
  <2>1. PICK ok \in BOOLEAN : HasCredits(ok)
    BY Zenon, <1>2 DEF CheckAtCreation
  <2> QED
    BY Zenon, <1>0, <1>2, <2>1, GatePreserves DEF CheckAtCreation
<1>3. CASE \E r \in Run : CheckAtExecution(r) \/ ProceedAnyway(r) \/ Deduct(r) \/ GoUncharged(r)
  BY Zenon, <1>3, RunStepPreserves
<1>4. CASE \E p \in Purchase : \/ CreateCheckoutSession(p) \/ SaveCustomer(p) \/ Pay(p)
                               \/ TopUp(p) \/ UpdatePlan(p) \/ LoseHandler(p)
  BY Zenon, <1>4, PurchaseStepPreserves
<1>5. CASE UNCHANGED creditVars
  <2>1. UNCHANGED <<balance, plan, latch, refreshed_at, ledger, opening, notices, warnings,
                    armed, executing, waved, days, session, credits, customer, handler,
                    credited>>
    BY Zenon, <1>5 DEF creditVars, row, warned, stripe
  <2>2. CreditTypeOK' /\ Reserve'
    BY Zenon, <2>1 DEF CreditsInv, CreditTypeOK, Reserve
  <2> QED
    BY Zenon, <2>1, <2>2, BalanceUntouched
<1> QED
  BY Zenon, <1>1, <1>2, <1>3, <1>4, <1>5 DEF CreditNext

LEMMA CreditsInvariant == CreditSpec => []CreditsInv
  BY InitCredits, NextCredits, PTL DEF CreditSpec

\* CreditTypeOK is an invariant of the credits of one user.
THEOREM CreditsTypeCorrect == CreditSpec => []CreditTypeOK
  BY CreditsInvariant, PTL DEF CreditsInv

\* OverdraftBounded: the gate and the charge are apart, but a balance falls below
\* zero by no more than the concurrent runs and the checks that failed.
THEOREM OverdraftIsBounded == CreditSpec => []OverdraftBounded
<1>1. CreditsInv => OverdraftBounded
  BY ExecutingCardinality DEF CreditsInv, CreditTypeOK, Reserve, OverdraftBounded
<1> QED
  BY <1>1, CreditsInvariant, PTL

\* WarnedOnce: deduct's crossing test sees a downward crossing of the threshold
\* once at most.
THEOREM CrossingSeenOnce == CreditSpec => []WarnedOnce
<1>1. CreditsInv => WarnedOnce
  BY DEF CreditsInv, WarningInv, WarnedOnce
<1> QED
  BY <1>1, CreditsInvariant, PTL

\* WarningNotMissed: and it sees every one, although it looks at one balance only
\* and does not ask the latch.
THEOREM CrossingSeen == CreditSpec => []WarningNotMissed
  BY CreditsInvariant, PTL DEF CreditsInv

\* LedgerExplainsBalance: the ledger rows of deduct, TopUp and the daily grant
\* add up to the balance.
THEOREM LedgerAccountsForBalance == CreditSpec => []LedgerExplainsBalance
  BY CreditsInvariant, PTL DEF CreditsInv

\* Until a purchase is credited, nobody has more than one of the two grants.
GrantsOnly ==
    (\A p \in Purchase : credited[p] = 0) => balance <= Signup \/ balance <= DailyLimit

\* What a step does to the balance and to the day of the last refresh.
BalanceStep ==
    \/ /\ UNCHANGED <<balance, credited>>
       /\ refreshed_at' = "today" => refreshed_at = "today"
    \/ /\ balance' = balance - 1 /\ UNCHANGED <<credited, refreshed_at>>
    \/ /\ plan = "free" /\ balance' = DailyLimit /\ UNCHANGED credited
    \/ /\ \E p \in Purchase : credited'[p] > 0
       /\ UNCHANGED refreshed_at

LEMMA BalanceSteps == ASSUME CreditTypeOK, [CreditNext]_creditVars PROVE BalanceStep
<1>1. CASE Midnight \/ TakeNotice
  BY Zenon, <1>1 DEF Midnight, TakeNotice, stripe, row, BalanceStep
<1>2. ASSUME NEW ok \in BOOLEAN, HasCredits(ok) PROVE BalanceStep
  <2>1. credited' = credited
    BY Zenon, <1>2 DEF HasCredits, stripe
  <2>2. CASE Refresh
    BY Zenon, <2>1, <2>2 DEF Refresh, RefreshDue, BalanceStep
  <2>3. CASE UNCHANGED <<row, warned>>
    BY Zenon, <2>1, <2>3 DEF row, BalanceStep
  <2> QED
    BY Zenon, <1>2, <2>2, <2>3 DEF HasCredits
<1>3. CASE CheckAtCreation
  BY Zenon, <1>2, <1>3 DEF CheckAtCreation
<1>4. ASSUME NEW r \in Run,
             CheckAtExecution(r) \/ ProceedAnyway(r) \/ Deduct(r) \/ GoUncharged(r)
      PROVE  BalanceStep
  <2>1. CASE CheckAtExecution(r)
    BY Zenon, <1>2, <2>1 DEF CheckAtExecution
  <2>2. CASE ProceedAnyway(r) \/ GoUncharged(r)
    BY Zenon, <2>2 DEF ProceedAnyway, GoUncharged, row, stripe, BalanceStep
  <2>3. CASE Deduct(r)
    BY Zenon, <2>3 DEF Deduct, deduct, stripe, BalanceStep
  <2> QED
    BY Zenon, <1>4, <2>1, <2>2, <2>3
<1>5. ASSUME NEW p \in Purchase,
             \/ CreateCheckoutSession(p) \/ SaveCustomer(p) \/ Pay(p)
             \/ TopUp(p) \/ UpdatePlan(p) \/ LoseHandler(p)
      PROVE  BalanceStep
  <2>1. CASE TopUp(p)
    <3>1. credited'[p] = credited[p] + 1 /\ credited[p] \in Nat /\ refreshed_at' = refreshed_at
      BY Zenon, <2>1 DEF TopUp, CreditTypeOK
    <3>2. credited'[p] > 0
      BY <3>1
    <3> QED
      BY Zenon, <3>1, <3>2 DEF BalanceStep
  <2>2. CASE ~TopUp(p)
    BY Zenon, <1>5, <2>2 DEF CreateCheckoutSession, SaveCustomer, Pay, UpdatePlan, LoseHandler, row,
                      BalanceStep
  <2> QED
    BY Zenon, <2>1, <2>2
<1>6. CASE UNCHANGED creditVars
  BY Zenon, <1>6 DEF creditVars, row, stripe, BalanceStep
<1> QED
  BY Zenon, <1>1, <1>3, <1>4, <1>5, <1>6 DEF CreditNext

\* How far RefreshKeepsPurchases fails: to lose credits, a user must be on the free
\* plan although a purchase of theirs was credited.
OnlyUnraisedLose ==
    [][refreshed_at = "before" /\ refreshed_at' = "today" /\ balance' < balance
         => plan = "free" /\ (DailyLimit < Signup \/ \E p \in Purchase : credited[p] > 0)]_creditVars

\* OnlyUnraisedLose: the daily refresh of HasCredits takes credits away only
\* where the webhook handler died, or failed, between TopUp and UpdatePlan.
THEOREM RefreshTakesNothingElse == CreditSpec => OnlyUnraisedLose
<1>1. CreditInit => GrantsOnly
  BY CreditsAssumption DEF CreditInit, GrantsOnly
<1>2. CreditTypeOK /\ CreditTypeOK' /\ GrantsOnly /\ [CreditNext]_creditVars => GrantsOnly'
  <2> SUFFICES ASSUME CreditTypeOK, CreditTypeOK', GrantsOnly, BalanceStep PROVE GrantsOnly'
    BY Zenon, BalanceSteps
  <2>1. /\ balance \in Int /\ Signup \in Nat /\ DailyLimit \in Nat
        /\ \A p \in Purchase : credited'[p] \in Nat
    BY Zenon, CreditsAssumption DEF CreditTypeOK
  <2> QED
    BY <2>1 DEF BalanceStep, GrantsOnly
<1>3. CreditTypeOK /\ GrantsOnly /\ [CreditNext]_creditVars =>
        [refreshed_at = "before" /\ refreshed_at' = "today" /\ balance' < balance
           => plan = "free" /\ (DailyLimit < Signup \/ \E p \in Purchase : credited[p] > 0)]_creditVars
  <2> SUFFICES ASSUME CreditTypeOK, GrantsOnly, BalanceStep,
                      refreshed_at = "before", refreshed_at' = "today", balance' < balance
               PROVE  plan = "free" /\ (DailyLimit < Signup \/ \E p \in Purchase : credited[p] > 0)
    BY Zenon, BalanceSteps
  <2>1. plan = "free" /\ balance' = DailyLimit
    BY Zenon DEF BalanceStep
  <2>2. CASE \A p \in Purchase : credited[p] = 0
    <3>1. balance \in Int /\ Signup \in Nat /\ DailyLimit \in Nat
      BY Zenon, CreditsAssumption DEF CreditTypeOK
    <3> QED
      BY <2>1, <2>2, <3>1 DEF GrantsOnly
  <2>3. CASE ~\A p \in Purchase : credited[p] = 0
    <3>1. PICK p \in Purchase : credited[p] # 0
      BY Zenon, <2>3
    <3>2. credited[p] > 0
      BY <3>1 DEF CreditTypeOK
    <3> QED
      BY Zenon, <2>1, <3>2
  <2> QED
    BY Zenon, <2>2, <2>3
<1> QED
  BY <1>1, <1>2, <1>3, CreditsTypeCorrect, PTL DEF CreditSpec, OnlyUnraisedLose

-----------------------------------------------------------------------------
(* Alert channels *)

\* An address stays confirmed, and every place from which a mail may come holds
\* confirmed addresses only: the columns of the row, a SetEnabled between its two
\* statements, and the notifier's list.
ConfirmedInv ==
    /\ verified \cap email \subseteq confirmed
    /\ enabled \cap email \subseteq confirmed
    /\ checked \cap email \subseteq confirmed
    /\ audience \cap email \subseteq confirmed

AlertInv == ChannelTypeOK /\ ConfirmedInv

\* A channel that is created does not occur anywhere yet.
LEMMA CreatePreserves ==
    ASSUME AlertInv, NEW c \in Channel, CreateChannel(c)
    PROVE  AlertInv'
<1>1. ChannelTypeOK'
  BY Zenon DEF AlertInv, ChannelTypeOK, CreateChannel
<1>2. ConfirmedInv'
  BY DEF AlertInv, ChannelTypeOK, ConfirmedInv, CreateChannel
<1> QED
  BY Zenon, <1>1, <1>2 DEF AlertInv

LEMMA ChannelStepPreserves ==
    ASSUME AlertInv, NEW c \in Channel, ChannelStep(c)
    PROVE  AlertInv'
<1>1. CASE CreateChannel(c)
  BY Zenon, <1>1, CreatePreserves
<1>2. CASE ExpireLink(c)
  BY Zenon, <1>2 DEF ExpireLink, AlertInv, ChannelTypeOK, ConfirmedInv
<1>3. CASE VerifyChannel(c)
  BY Zenon, <1>3 DEF VerifyChannel, AlertInv, ChannelTypeOK, ConfirmedInv
<1>4. CASE CheckVerified(c)
  BY Zenon, <1>4 DEF CheckVerified, AlertInv, ChannelTypeOK, ConfirmedInv
<1>5. CASE Enable(c)
  BY Zenon, <1>5 DEF Enable, AlertInv, ChannelTypeOK, ConfirmedInv
<1>6. CASE Disable(c)
  BY Zenon, <1>6 DEF Disable, AlertInv, ChannelTypeOK, ConfirmedInv
<1>7. CASE DeleteChannel(c)
  BY Zenon, <1>7 DEF DeleteChannel, AlertInv, ChannelTypeOK, ConfirmedInv
<1>8. CASE Dispatch(c)
  BY Zenon, <1>8 DEF Dispatch, AlertInv, ChannelTypeOK, ConfirmedInv
<1> QED
  BY ZenonT(30), <1>1, <1>2, <1>3, <1>4, <1>5, <1>6, <1>7, <1>8 DEF ChannelStep

LEMMA AlertInvariant == ChannelSpec => []AlertInv
<1>1. ChannelInit => AlertInv
  BY Zenon DEF ChannelInit, AlertInv, ChannelTypeOK, ConfirmedInv
<1>2. AlertInv /\ [ChannelNext]_alertVars => AlertInv'
  <2> SUFFICES ASSUME AlertInv, [ChannelNext]_alertVars PROVE AlertInv'
    BY Zenon
  <2>1. CASE \E c \in Channel : ChannelStep(c)
    BY Zenon, <2>1, ChannelStepPreserves
  <2>2. CASE LoadChannels
    BY Zenon, <2>2 DEF LoadChannels, AlertInv, ChannelTypeOK, ConfirmedInv
  <2>3. CASE GiveUp
    BY Zenon, <2>3 DEF GiveUp, AlertInv, ChannelTypeOK, ConfirmedInv
  <2>4. CASE UNCHANGED alertVars
    BY Zenon, <2>4 DEF alertVars, AlertInv, ChannelTypeOK, ConfirmedInv
  <2> QED
    BY Zenon, <2>1, <2>2, <2>3, <2>4 DEF ChannelNext
<1> QED
  BY <1>1, <1>2, PTL DEF ChannelSpec

\* OnlyConfirmedMailed: SetEnabled's check and its update are apart, the notifier's
\* query and its mails are apart, and still no mail goes to an address that was
\* not confirmed.
THEOREM MailIsConfirmed == ChannelSpec => []OnlyConfirmedMailed
<1>1. AlertInv => OnlyConfirmedMailed
  BY Zenon DEF AlertInv, ConfirmedInv, OnlyConfirmedMailed
<1> QED
  BY <1>1, AlertInvariant, PTL
-----------------------------------------------------------------------------
(* Both together *)

\* A step of the account is a step of the credits or leaves them alone, and the
\* same for the channels; the one step of both is NotifyCreditLow.
LEMMA AccountSteps ==
    [AccountNext]_accountVars => [CreditNext]_creditVars /\ [ChannelNext]_alertVars
<1> SUFFICES ASSUME [AccountNext]_accountVars
             PROVE  [CreditNext]_creditVars /\ [ChannelNext]_alertVars
  BY Zenon
<1>1. CASE CreditStep /\ UNCHANGED alertVars
  BY Zenon, <1>1 DEF CreditStep, CreditNext
<1>2. CASE NotifyCreditLow \/ LoseNotice \/ NotifyFailure
  BY Zenon, <1>2 DEF NotifyCreditLow, LoseNotice, NotifyFailure, CreditNext, ChannelNext
<1>3. CASE ((\E c \in Channel : ChannelStep(c)) \/ GiveUp) /\ UNCHANGED creditVars
  BY Zenon, <1>3 DEF ChannelNext
<1>4. CASE UNCHANGED accountVars
  BY Zenon, <1>4 DEF accountVars
<1> QED
  BY Zenon, <1>1, <1>2, <1>3, <1>4 DEF AccountNext

\* The warning that deduct sends to the notifier disturbs neither part: in an
\* account the credits behave as in Credits and the channels as in AlertChannels,
\* so that all that is proved of either holds of the account.
THEOREM PartsKeepTheirSpecs == AccountSpec => CreditSpec /\ ChannelSpec
  BY AccountSteps, PTL DEF AccountSpec, AccountInit, CreditSpec, ChannelSpec

\* AccountTypeOK is an invariant of an account.
THEOREM AccountTypeCorrect == AccountSpec => []AccountTypeOK
<1>1. CreditTypeOK /\ AlertInv => AccountTypeOK
  BY Zenon DEF AlertInv, AccountTypeOK
<1> QED
  BY <1>1, PartsKeepTheirSpecs, CreditsTypeCorrect, AlertInvariant, PTL

\* What is proved of the parts holds of the account: in particular a warning that is
\* in the notifier's hands, lost or late disturbs neither balance nor ledger.
THEOREM AccountIsSound ==
    AccountSpec => /\ [](OverdraftBounded /\ WarnedOnce /\ WarningNotMissed)
                   /\ [](LedgerExplainsBalance /\ OnlyConfirmedMailed)
                   /\ OnlyUnraisedLose
  BY PartsKeepTheirSpecs, OverdraftIsBounded, CrossingSeenOnce, CrossingSeen,
     LedgerAccountsForBalance, MailIsConfirmed, RefreshTakesNothingElse, PTL
=============================================================================
