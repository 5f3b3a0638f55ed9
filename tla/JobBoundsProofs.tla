-------------------------- MODULE JobBoundsProofs ---------------------------
(***************************************************************************)
(* How often a job is retried, executed, paid for and reported, at most:   *)
(* by counting the attempts that are in the hands of goroutines.           *)
(***************************************************************************)
EXTENDS JobLifecycleProofs, FiniteSetTheorems

-----------------------------------------------------------------------------
(* Retries are bounded *)

RetryInv == \A j \in Job : retry_count[j] + Cardinality(Entitled(j)) <= 2 * MaxRetries

LEMMA EntitledFinite ==
    ASSUME NEW T \in SUBSET (0..(MaxRetries - 1))
    PROVE  /\ IsFiniteSet(T)
           /\ Cardinality(T) \in Nat
           /\ Cardinality(T) <= MaxRetries
<1>1. /\ IsFiniteSet(0..(MaxRetries - 1))
      /\ Cardinality(0..(MaxRetries - 1)) = MaxRetries
  BY FS_Interval, RetriesAssumption
<1>2. IsFiniteSet(T) /\ Cardinality(T) <= Cardinality(0..(MaxRetries - 1))
  BY Zenon, <1>1, FS_Subset
<1> QED BY ZenonT(30), <1>1, <1>2, FS_CardinalityType

THEOREM RetryInvariant == Spec => []RetryInv
<1>1. Init => RetryInv
  <2> SUFFICES ASSUME Init, NEW j \in Job
               PROVE  retry_count[j] + Cardinality(Entitled(j)) <= 2 * MaxRetries
    BY Zenon DEF RetryInv
  <2>1. retry_count[j] = 0
    BY Zenon DEF Init
  <2>2. Entitled(j) \in SUBSET (0..(MaxRetries - 1))
    BY Zenon DEF Entitled
  <2> QED BY <2>1, <2>2, EntitledFinite, RetriesAssumption
<1>2. TypeOK /\ TypeOK' /\ NumberingInv /\ RetryInv /\ [Next]_vars => RetryInv'
  <2> SUFFICES ASSUME TypeOK, TypeOK', NumberingInv, RetryInv, [Next]_vars, NEW j \in Job
               PROVE  retry_count'[j] + Cardinality(Entitled(j)') <= 2 * MaxRetries
    BY Zenon DEF RetryInv
  <2>1. retry_count[j] \in Nat /\ retry_count'[j] \in Nat
    BY Zenon DEF TypeOK, TableTypeOK
  <2>2. /\ IsFiniteSet(Entitled(j)')
        /\ Cardinality(Entitled(j)') \in Nat
        /\ Cardinality(Entitled(j)') <= MaxRetries
    <3>1. Entitled(j)' \in SUBSET (0..(MaxRetries - 1))
      BY Zenon DEF Entitled
    <3> QED BY Zenon, <3>1, EntitledFinite
  <2>3. /\ IsFiniteSet(Entitled(j))
        /\ Cardinality(Entitled(j)) \in Nat
        /\ retry_count[j] + Cardinality(Entitled(j)) <= 2 * MaxRetries
    <3>1. Entitled(j) \in SUBSET (0..(MaxRetries - 1))
      BY Zenon DEF Entitled
    <3> QED BY Zenon, <3>1, EntitledFinite DEF RetryInv
  <2>4. CASE retry_count'[j] <= MaxRetries
    BY SMTT(30), <2>1, <2>2, <2>4, RetriesAssumption
  <2>5. CASE retry_count'[j] > MaxRetries
    <3>1. retry_count[j] >= MaxRetries
      <4>1. \/ retry_count'[j] = retry_count[j]
            \/ retry_count'[j] = retry_count[j] + 1
        BY Zenon, StepKinds DEF OrdinaryStep, RowStep, Claim, CreateAttempt, row, NumberingInv
      <4> QED BY SMTT(30), <2>1, <2>5, <4>1, RetriesAssumption
    <3>2. Entitled(j)' \subseteq Entitled(j)
      BY ZenonT(30), <3>1, NoNewEntitlement DEF NumberingInv
    <3>3. CASE retry_count'[j] = retry_count[j]
      <4>1. Cardinality(Entitled(j)') <= Cardinality(Entitled(j))
        BY ZenonT(30), <2>3, <3>2, FS_Subset
      <4> QED BY SMTT(30), <2>1, <2>2, <2>3, <3>3, <4>1, RetriesAssumption
    <3>4. ASSUME NEW s \in Slot, Reschedule(s), held[s] = j,
                 retry_count'[j] = retry_count[j] + 1
          PROVE  retry_count'[j] + Cardinality(Entitled(j)') <= 2 * MaxRetries
      <4> DEFINE n == snapshot[s]
      <4>1. n \in Entitled(j)
        BY SMTT(30), <3>4, RetriesAssumption DEF Reschedule, RetriesLeft, Entitled, TypeOK, RunTypeOK
      <4>2. n \notin Entitled(j)'
        <5> SUFFICES ASSUME NEW t \in Slot, held'[t] = j, snapshot'[t] = n PROVE FALSE
          BY Zenon DEF Entitled
        <5>1. held'[s] = NoJob
          BY Zenon, <3>4 DEF Reschedule, Return, TypeOK, RunTypeOK
        <5>2. t # s
          BY ZenonT(30), <5>1, JobAssumption
        <5>3. held[t] = j /\ snapshot[t] = n
          BY ZenonT(30), <3>4, <5>2 DEF Reschedule, Return, TypeOK, RunTypeOK
        <5> QED
          BY ZenonT(30), <3>4, <5>2, <5>3, JobAssumption DEF NumberingInv, DistinctAttempts
      <4> HIDE DEF n
      <4>3. Entitled(j)' \subseteq Entitled(j) \ {n}
        BY Zenon, <3>2, <4>2
      <4>4. /\ IsFiniteSet(Entitled(j) \ {n})
            /\ Cardinality(Entitled(j) \ {n}) = Cardinality(Entitled(j)) - 1
        BY ZenonT(30), <2>3, <4>1, FS_RemoveElement
      <4>5. Cardinality(Entitled(j)') <= Cardinality(Entitled(j)) - 1
        BY <4>3, <4>4, FS_Subset
      <4>6. retry_count'[j] = retry_count[j] + 1
        BY Zenon, <3>4
      <4> QED BY SMTT(30), <2>1, <2>2, <2>3, <4>5, <4>6, RetriesAssumption
    <3> QED BY SMTT(30), <3>1, <3>3, <3>4, LateIncrement
  <2> QED BY SMTT(30), <2>1, <2>4, <2>5, RetriesAssumption
<1> QED BY <1>1, <1>2, TypeCorrect, NumberingInvariant, PTL DEF Spec

\* Numbers that are all different and lie between 1 and m are m at most.
LEMMA DistinctNumbers ==
    ASSUME NEW q \in Seq(Nat), NEW m \in Nat,
           \A i \in 1..Len(q) : q[i] > 0 /\ q[i] <= m,
           \A a, b \in 1..Len(q) : q[a] = q[b] => a = b
    PROVE  Len(q) <= m
<1> DEFINE n == Len(q)
           f == [i \in 1..n |-> q[i]]
<1>1. n \in Nat /\ \A i \in 1..n : q[i] \in 1..m
  OBVIOUS
<1>2. /\ IsFiniteSet(1..n) /\ Cardinality(1..n) = n
      /\ IsFiniteSet(1..m) /\ Cardinality(1..m) = m
  <2> HIDE DEF n
  <2> QED BY <1>1, FS_Interval
<1>3. SUFFICES ASSUME m < n PROVE FALSE
  BY <1>1
<1>4. f \in [1..n -> 1..m]
  BY Zenon, <1>1
<1>5. \E x, y \in 1..n : x # y /\ f[x] = f[y]
  <2> HIDE DEF f, n
  <2>1. Cardinality(1..m) < Cardinality(1..n)
    BY Zenon, <1>2, <1>3
  <2> QED BY Zenon, <1>2, <1>4, <2>1, FS_PigeonHole
<1> QED BY Zenon, <1>5

\* A job is retried at most twice MaxRetries times, whatever crashes or stalls,
\* and no attempt of its history but the first comes without a retry.
THEOREM RetriesAreBounded == Spec => []RetryBound
<1>1. TypeOK /\ NumberingInv /\ RetryInv => RetryBound
  <2> SUFFICES ASSUME TypeOK, NumberingInv, RetryInv, NEW j \in Job
               PROVE  retry_count[j] <= 2 * MaxRetries /\ Len(attempts[j]) <= retry_count[j] + 1
    BY Zenon DEF RetryBound
  <2>1. Entitled(j) \in SUBSET (0..(MaxRetries - 1))
    BY Zenon DEF Entitled
  <2>2. retry_count[j] \in Nat /\ Cardinality(Entitled(j)) \in Nat
    BY ZenonT(30), <2>1, EntitledFinite DEF TypeOK, TableTypeOK
  <2>3. retry_count[j] <= 2 * MaxRetries
    BY <2>2, RetriesAssumption DEF RetryInv
  <2>4. retry_count[j] + 1 \in Nat /\ attempts[j] \in Seq(Nat)
    BY <2>2 DEF TypeOK, HistoryTypeOK
  <2>5. \A i \in 1..Len(attempts[j]) : attempts[j][i] > 0 /\ attempts[j][i] <= retry_count[j] + 1
    BY Zenon DEF NumberingInv, NumbersOld
  <2>6. \A a, b \in 1..Len(attempts[j]) : attempts[j][a] = attempts[j][b] => a = b
    BY Zenon DEF NumberingInv, AttemptNumUnique
  <2> QED BY Zenon, <2>3, <2>4, <2>5, <2>6, DistinctNumbers
<1> QED BY <1>1, TypeCorrect, NumberingInvariant, RetryInvariant, PTL

-----------------------------------------------------------------------------
(* What is done once per attempt *)

\* For each attempt in the history it has been done, may still be done by the run
\* of that attempt, or will never be.
Covered(L, j, c) ==
    /\ IsFiniteSet(Owing(L, j))
    /\ c + Cardinality(Owing(L, j)) <= Len(attempts[j])

EffectsInv ==
    \A j \in Job : /\ Covered(ToCharge, j, charges[j])
                   /\ Covered(ToWrite, j, Told(j))
                   /\ Covered(ToAlert, j, alerts[j])

\* Cardinalities of what is left of a debt, and of a debt with an attempt more.
LEMMA SmallerDebt ==
    ASSUME NEW D, NEW E, IsFiniteSet(D), E \subseteq D
    PROVE  IsFiniteSet(E) /\ Cardinality(E) \in Nat /\ Cardinality(D) \in Nat
           /\ Cardinality(E) <= Cardinality(D)
  BY ZenonT(30), FS_Subset, FS_CardinalityType

LEMMA BiggerDebt ==
    ASSUME NEW D, NEW n, IsFiniteSet(D)
    PROVE  IsFiniteSet(D \cup {n}) /\ Cardinality(D \cup {n}) <= Cardinality(D) + 1
<1>1. Cardinality(D) \in Nat
  BY Zenon, FS_CardinalityType
<1>2. IsFiniteSet(D \cup {n})
      /\ Cardinality(D \cup {n}) = IF n \in D THEN Cardinality(D) ELSE Cardinality(D) + 1
  BY FS_AddElement, Zenon
<1> QED BY <1>1, <1>2

LEMMA DebtSum ==
    ASSUME NEW c \in Nat, NEW l \in Nat, NEW d \in Nat, NEW e \in Nat, NEW f \in Nat,
           c + d <= l, f <= d + 1, e <= f
    PROVE  c + e <= l + 1
  OBVIOUS

LEMMA DebtLess ==
    ASSUME NEW c \in Nat, NEW l \in Nat, NEW d \in Nat, NEW e \in Nat, c + d <= l, e <= d
    PROVE  c + e <= l
  OBVIOUS

LEMMA DebtPaid ==
    ASSUME NEW c \in Nat, NEW l \in Nat, NEW d \in Nat, NEW e \in Nat, c + d <= l, e <= d - 1
    PROVE  c + 1 + e <= l
  OBVIOUS

\* An attempt is opened, or CreateAttempt fails.
LEMMA CoveredCreateAttempt ==
    ASSUME TypeOK, NEW L, Phase(L), NEW j \in Job, NEW c \in Nat, Covered(L, j, c),
           NEW s \in Slot, CreateAttempt(s)
    PROVE  /\ IsFiniteSet(Owing(L, j)')
           /\ c + Cardinality(Owing(L, j)') <= Len(attempts'[j])
<1> DEFINE n == snapshot[s]
           D == Owing(L, j)
           E == Owing(L, j)'
<1>1. /\ attempts[j] \in Seq(Nat) /\ n \in Nat /\ pc[s] = "attempt"
      /\ Return(s) \/ Goto(s, "gate")
  BY Zenon DEF TypeOK, HistoryTypeOK, RunTypeOK, CreateAttempt
<1>2. /\ Len(attempts[j]) \in Nat /\ n + 1 \in Nat
  <2> HIDE DEF n
  <2> QED BY <1>1
<1>3. /\ IsFiniteSet(D) /\ Cardinality(D) \in Nat
      /\ c + Cardinality(D) <= Len(attempts[j])
  BY Zenon, FS_CardinalityType DEF Covered
<1>4. ASSUME NEW t \in Slot, pc'[t] \in L
      PROVE  \/ pc[t] \in L /\ held'[t] = held[t] /\ snapshot'[t] = snapshot[t]
             \/ t = s /\ held'[t] = held[s] /\ snapshot'[t] = n /\ Goto(s, "gate")
  <2>1. CASE Return(s)
    BY Zenon, <1>4, <2>1, ReturnEndsDebt DEF NoNewDebt
  <2>2. CASE Goto(s, "gate")
    BY Zenon, <1>4, <2>2 DEF Goto, TypeOK, RunTypeOK
  <2> QED BY Zenon, <1>1, <2>1, <2>2
<1>5. CASE held[s] = j /\ attempts' = [attempts EXCEPT ![j] = Append(@, n + 1)]
  <2>1. Len(attempts'[j]) = Len(attempts[j]) + 1
    <3>1. attempts'[j] = Append(attempts[j], n + 1)
      BY Zenon, <1>5 DEF TypeOK, HistoryTypeOK
    <3> HIDE DEF n
    <3> QED BY <1>1, <1>2, <3>1
  <2>2. E \subseteq D \cup {n}
    BY Zenon, <1>4 DEF Owing
  <2> HIDE DEF n, D, E
  <2>3. /\ IsFiniteSet(D \cup {n})
        /\ Cardinality(D \cup {n}) <= Cardinality(D) + 1
    BY Zenon, <1>3, BiggerDebt
  <2>4. /\ IsFiniteSet(E) /\ Cardinality(E) \in Nat
        /\ Cardinality(D \cup {n}) \in Nat
        /\ Cardinality(E) <= Cardinality(D \cup {n})
    BY Zenon, <2>2, <2>3, SmallerDebt
  <2>5. c + Cardinality(E) <= Len(attempts[j]) + 1
    BY Zenon, <1>2, <1>3, <2>3, <2>4, DebtSum
  <2> QED BY Zenon, <2>1, <2>4, <2>5 DEF E
<1>6. CASE ~(held[s] = j /\ attempts' = [attempts EXCEPT ![j] = Append(@, n + 1)])
  <2>1. attempts'[j] = attempts[j]
    BY Zenon, <1>6 DEF CreateAttempt, TypeOK, HistoryTypeOK
  <2>2. held[s] # j \/ Return(s)
    BY Zenon, <1>6 DEF CreateAttempt
  <2>3. E \subseteq D
    <3>1. CASE held[s] # j
      BY Zenon, <1>4, <3>1 DEF Owing
    <3>2. CASE Return(s)
      BY Zenon, <3>2, ReturnEndsDebt, DebtShrinks
    <3> QED BY Zenon, <2>2, <3>1, <3>2
  <2> HIDE DEF D, E
  <2>4. IsFiniteSet(E) /\ Cardinality(E) \in Nat /\ Cardinality(E) <= Cardinality(D)
    BY Zenon, <1>3, <2>3, SmallerDebt
  <2>5. c + Cardinality(E) <= Len(attempts[j])
    BY Zenon, <1>2, <1>3, <2>4, DebtLess
  <2> QED BY Zenon, <2>1, <2>4, <2>5 DEF E
<1> QED BY Zenon, <1>5, <1>6

\* Any other step: it is done by no run, or by one.  In the second case no other run
\* has the same attempt in hand, so that one attempt less is left.
LEMMA CoveredOtherwise ==
    ASSUME TypeOK, DistinctAttempts, NEW L, NEW j \in Job, NEW c \in Nat, NEW d,
           Covered(L, j, c), Done(L, j, c, d),
           attempts' = attempts, \A t \in Slot : NoNewDebt(L, t)
    PROVE  /\ IsFiniteSet(Owing(L, j)')
           /\ d + Cardinality(Owing(L, j)') <= Len(attempts'[j])
<1> DEFINE D == Owing(L, j)
           E == Owing(L, j)'
<1>1. /\ IsFiniteSet(D) /\ Cardinality(D) \in Nat
      /\ c + Cardinality(D) <= Len(attempts[j])
  BY Zenon, FS_CardinalityType DEF Covered
<1>2. Len(attempts[j]) \in Nat
  BY DEF TypeOK, HistoryTypeOK
<1>3. E \subseteq D
  BY Zenon, DebtShrinks
<1>4. CASE d = c
  <2> HIDE DEF D, E
  <2>1. IsFiniteSet(E) /\ Cardinality(E) \in Nat /\ Cardinality(E) <= Cardinality(D)
    BY Zenon, <1>1, <1>3, SmallerDebt
  <2>2. c + Cardinality(E) <= Len(attempts[j])
    BY Zenon, <1>1, <1>2, <2>1, DebtLess
  <2> QED BY Zenon, <1>4, <2>1, <2>2 DEF E
<1>5. ASSUME d = c + 1, NEW s \in Slot, held[s] = j, pc[s] \in L, pc'[s] \notin L
      PROVE  IsFiniteSet(E) /\ d + Cardinality(E) <= Len(attempts'[j])
  <2> DEFINE n == snapshot[s]
  <2>1. n \in D
    BY Zenon, <1>5 DEF Owing, TypeOK, RunTypeOK
  <2>2. n \notin E
    <3> SUFFICES ASSUME NEW t \in Slot, held'[t] = j, snapshot'[t] = n, pc'[t] \in L
                 PROVE  FALSE
      BY Zenon DEF Owing
    <3>1. t # s /\ held[t] = j /\ snapshot[t] = n
      BY Zenon, <1>5 DEF NoNewDebt
    <3> QED BY Zenon, <1>5, <3>1, JobAssumption DEF DistinctAttempts
  <2> HIDE DEF n, D, E
  <2>3. /\ IsFiniteSet(D \ {n})
        /\ Cardinality(D \ {n}) = Cardinality(D) - 1
    BY Zenon, <1>1, <2>1, FS_RemoveElement
  <2>4. /\ IsFiniteSet(E) /\ Cardinality(E) \in Nat
        /\ Cardinality(E) <= Cardinality(D \ {n})
    <3>1. E \subseteq D \ {n}
      BY Zenon, <1>3, <2>2
    <3> QED BY Zenon, <2>3, <3>1, SmallerDebt
  <2>5. c + 1 + Cardinality(E) <= Len(attempts[j])
    BY Zenon, <1>1, <1>2, <2>3, <2>4, DebtPaid
  <2> QED BY Zenon, <1>5, <2>4, <2>5
<1> QED BY Zenon, <1>4, <1>5 DEF Done

LEMMA CoveredKept ==
    ASSUME TypeOK, TypeOK', DistinctAttempts, [Next]_vars, NEW L, Phase(L), NEW j \in Job,
           NEW c \in Nat, NEW d, Covered(L, j, c), Done(L, j, c, d)
    PROVE  /\ IsFiniteSet(Owing(L, j)')
           /\ d + Cardinality(Owing(L, j)') <= Len(attempts'[j])
<1>1. ASSUME NEW s \in Slot, CreateAttempt(s) PROVE d = c
  <2> SUFFICES ASSUME NEW t \in Slot, pc[t] \in L, pc'[t] \notin L, attempts' = attempts PROVE FALSE
    BY Zenon DEF Done
  <2>1. pc[s] = "attempt" /\ (Return(s) \/ Goto(s, "gate"))
    BY Zenon, <1>1 DEF CreateAttempt
  <2>2. t # s
    BY Zenon, <2>1 DEF Phase
  <2> QED BY Zenon, <2>1, <2>2 DEF Return, Goto, TypeOK, RunTypeOK
<1>2. ASSUME NEW s \in Slot, CreateAttempt(s)
      PROVE  /\ IsFiniteSet(Owing(L, j)')
             /\ d + Cardinality(Owing(L, j)') <= Len(attempts'[j])
  BY Zenon, <1>1, <1>2, CoveredCreateAttempt
<1> QED BY Zenon, <1>2, CoveredOtherwise, DebtSteps

\* OncePerAttempt: Deduct, the outcome writes and the alert follow an attempt in the
\* history, and no two goroutines ever act for the same one, however they stall and
\* overlap.
THEOREM EffectsMatchAttempts == Spec => []OncePerAttempt
<1>1. Init => EffectsInv
  <2> SUFFICES ASSUME Init, NEW j \in Job, NEW L
               PROVE  IsFiniteSet(Owing(L, j)) /\ 0 + Cardinality(Owing(L, j)) <= Len(attempts[j])
                      /\ charges[j] = 0 /\ Told(j) = 0 /\ alerts[j] = 0
    BY Zenon DEF EffectsInv, Covered
  <2>1. Owing(L, j) = {} /\ Len(attempts[j]) = 0 /\ charges[j] = 0 /\ alerts[j] = 0
        /\ deliveries[j]["completed"] = 0 /\ deliveries[j]["failed"] = 0
    BY Zenon, JobAssumption DEF Init, Owing, Event
  <2> QED BY <2>1, FS_EmptySet DEF Told
<1>2. TypeOK /\ TypeOK' /\ DistinctAttempts /\ EffectsInv /\ [Next]_vars => EffectsInv'
  <2> SUFFICES ASSUME TypeOK, TypeOK', DistinctAttempts, EffectsInv, [Next]_vars, NEW j \in Job
               PROVE  /\ Covered(ToCharge, j, charges[j])'
                      /\ Covered(ToWrite, j, Told(j))'
                      /\ Covered(ToAlert, j, alerts[j])'
    BY Zenon DEF EffectsInv
  <2>1. charges[j] \in Nat /\ alerts[j] \in Nat /\ Told(j) \in Nat
    BY DEF TypeOK, HistoryTypeOK, Told, Event
  <2>2. Covered(ToCharge, j, charges[j])'
    BY Zenon, <2>1, CoveredKept, EffectSteps, Phases DEF EffectsInv, Covered
  <2>3. Covered(ToWrite, j, Told(j))'
    BY Zenon, <2>1, CoveredKept, EffectSteps, Phases DEF EffectsInv, Covered
  <2>4. Covered(ToAlert, j, alerts[j])'
    BY Zenon, <2>1, CoveredKept, EffectSteps, Phases DEF EffectsInv, Covered
  <2> QED BY Zenon, <2>2, <2>3, <2>4
<1>3. TypeOK /\ EffectsInv => OncePerAttempt
  <2> SUFFICES ASSUME TypeOK, EffectsInv, NEW j \in Job
               PROVE  charges[j] <= Len(attempts[j]) /\ Told(j) <= Len(attempts[j])
                      /\ alerts[j] <= Len(attempts[j])
    BY Zenon DEF OncePerAttempt, Told
  <2>1. Len(attempts[j]) \in Nat /\ charges[j] \in Nat /\ alerts[j] \in Nat /\ Told(j) \in Nat
    BY DEF TypeOK, HistoryTypeOK, Told, Event
  <2>2. ASSUME NEW L, NEW c \in Nat, Covered(L, j, c) PROVE c <= Len(attempts[j])
    <3>1. Cardinality(Owing(L, j)) \in Nat /\ c + Cardinality(Owing(L, j)) <= Len(attempts[j])
      BY Zenon, <2>2, FS_CardinalityType DEF Covered
    <3> QED BY <2>1, <3>1
  <2> QED BY Zenon, <2>1, <2>2 DEF EffectsInv
<1> QED BY <1>1, <1>2, <1>3, TypeCorrect, RunsAreDistinct, PTL DEF Spec

\* However its runs stall, crash and overlap, a job costs its user at most one credit
\* more than it has retries, and is reported that often at most: 2 * MaxRetries + 1
\* times, and MaxRetries + 1 times where RetryWithinMax holds.
THEOREM EffectsAreBounded ==
    Spec => [](\A j \in Job : /\ retry_count[j] <= 2 * MaxRetries
                              /\ charges[j] <= retry_count[j] + 1
                              /\ Told(j) <= retry_count[j] + 1
                              /\ alerts[j] <= retry_count[j] + 1)
<1>1. TypeOK /\ RetryBound /\ OncePerAttempt =>
        \A j \in Job : /\ retry_count[j] <= 2 * MaxRetries
                       /\ charges[j] <= retry_count[j] + 1
                       /\ Told(j) <= retry_count[j] + 1
                       /\ alerts[j] <= retry_count[j] + 1
  <2> SUFFICES ASSUME TypeOK, RetryBound, OncePerAttempt, NEW j \in Job
               PROVE  /\ retry_count[j] <= 2 * MaxRetries
                      /\ charges[j] <= retry_count[j] + 1
                      /\ Told(j) <= retry_count[j] + 1
                      /\ alerts[j] <= retry_count[j] + 1
    BY Zenon
  <2>1. /\ retry_count[j] \in Nat /\ Len(attempts[j]) \in Nat
        /\ charges[j] \in Nat /\ alerts[j] \in Nat /\ Told(j) \in Nat
    BY DEF TypeOK, TableTypeOK, HistoryTypeOK, Told, Event
  <2>2. /\ retry_count[j] <= 2 * MaxRetries /\ Len(attempts[j]) <= retry_count[j] + 1
        /\ charges[j] <= Len(attempts[j]) /\ Told(j) <= Len(attempts[j])
        /\ alerts[j] <= Len(attempts[j])
    BY Zenon DEF RetryBound, OncePerAttempt, Told
  <2> QED BY <2>1, <2>2
<1> QED BY <1>1, TypeCorrect, RetriesAreBounded, EffectsMatchAttempts, PTL
=============================================================================
