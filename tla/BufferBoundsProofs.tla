------------------------- MODULE BufferBoundsProofs -------------------------
(***************************************************************************)
(* How often an item of a buffer is retried, at most, whatever overlaps or *)
(* stalls: by counting the tries of it that goroutines have in hand.       *)
(***************************************************************************)
EXTENDS BufferProofs, FiniteSetTheorems

\* An item is retried at most twice for each of its MaxRetries tries, by its goroutine
\* and by the reaper, and once for each answer of 429.
RetryCeiling == \A i \in Item : retry_count[i] <= 2 * MaxRetries + throttled[i]

CountInv ==
    \A i \in Item :
        /\ IsFiniteSet(Limited(i)) /\ Cardinality(Limited(i)) <= throttled[i]
        /\ retry_count[i] + Cardinality(Spare(i)) + Cardinality(Limited(i))
              <= 2 * MaxRetries + throttled[i]

LEMMA SpareFinite ==
    ASSUME NEW T \in SUBSET (0..(MaxRetries - 1))
    PROVE  IsFiniteSet(T) /\ Cardinality(T) \in Nat /\ Cardinality(T) <= MaxRetries
<1>1. /\ IsFiniteSet(0..(MaxRetries - 1))
      /\ Cardinality(0..(MaxRetries - 1)) = MaxRetries
  BY FS_Interval, BoundsAssumption
<1>2. IsFiniteSet(T) /\ Cardinality(T) <= Cardinality(0..(MaxRetries - 1))
  BY Zenon, <1>1, FS_Subset
<1> QED BY Zenon, <1>1, <1>2, FS_CardinalityType

LEMMA Without ==
    ASSUME NEW T, IsFiniteSet(T), NEW n \in T, NEW U, U \subseteq T \ {n}
    PROVE  IsFiniteSet(U) /\ Cardinality(U) <= Cardinality(T) - 1
<1>1. IsFiniteSet(T \ {n}) /\ Cardinality(T \ {n}) = Cardinality(T) - 1
  BY Zenon, FS_RemoveElement
<1>2. IsFiniteSet(U) /\ Cardinality(U) <= Cardinality(T \ {n})
  BY Zenon, <1>1, FS_Subset
<1> QED BY Zenon, <1>1, <1>2

LEMMA WithOneMore ==
    ASSUME NEW T, IsFiniteSet(T), NEW n, NEW U, U \subseteq T \cup {n}
    PROVE  IsFiniteSet(U) /\ Cardinality(U) <= Cardinality(T) + 1
<1>1. IsFiniteSet(T \cup {n}) /\ Cardinality(T) \in Nat
      /\ Cardinality(T \cup {n}) = IF n \in T THEN Cardinality(T) ELSE Cardinality(T) + 1
  BY Zenon, FS_AddElement, FS_CardinalityType
<1>2. IsFiniteSet(U) /\ Cardinality(U) <= Cardinality(T \cup {n})
  BY Zenon, <1>1, FS_Subset
<1>3. Cardinality(U) \in Nat
  BY Zenon, <1>2, FS_CardinalityType
<1> QED BY <1>1, <1>2, <1>3

LEMMA InitCount == Init => CountInv
<1> SUFFICES ASSUME Init, NEW i \in Item
             PROVE  /\ IsFiniteSet(Limited(i)) /\ Cardinality(Limited(i)) <= throttled[i]
                    /\ retry_count[i] + Cardinality(Spare(i)) + Cardinality(Limited(i))
                          <= 2 * MaxRetries + throttled[i]
  BY Zenon DEF CountInv
<1>1. Limited(i) = {} /\ Spare(i) = {}
  BY Zenon DEF Init, Limited, WasThrottled, Throttled, Spare, Delivers, Busy
<1>2. IsFiniteSet({}) /\ Cardinality({}) = 0
  BY Zenon, FS_EmptySet
<1>3. retry_count[i] = 0 /\ throttled[i] = 0
  BY Zenon DEF Init
<1>4. 0 <= 0 /\ 0 + 0 + 0 <= 2 * MaxRetries + 0
  BY BoundsAssumption
<1> QED BY Zenon, <1>1, <1>2, <1>3, <1>4

LEMMA CountInvStep ==
    ASSUME ItemsOK, ItemsOK', DeliveriesInv, CountInv, [Next]_vars PROVE CountInv'
<1> SUFFICES ASSUME NEW i \in Item
             PROVE  /\ IsFiniteSet(Limited(i)') /\ Cardinality(Limited(i)') <= throttled'[i]
                    /\ retry_count'[i] + Cardinality(Spare(i)') + Cardinality(Limited(i)')
                          <= 2 * MaxRetries + throttled'[i]
  BY Zenon DEF CountInv
<1> DEFINE S == Spare(i)
           SS == Spare(i)'
           L == Limited(i)
           LL == Limited(i)'
           r == retry_count[i]
           h == throttled[i]
           Result ==
             \/ /\ retry_count'[i] = r /\ throttled'[i] = h
                /\ Cardinality(LL) <= Cardinality(L)
                /\ r >= MaxRetries => Cardinality(SS) <= Cardinality(S)
             \/ /\ retry_count'[i] = r /\ throttled'[i] = h + 1
                /\ Cardinality(SS) <= Cardinality(S)
                /\ Cardinality(LL) <= Cardinality(L) + 1
             \/ /\ r < MaxRetries /\ retry_count'[i] = r + 1 /\ throttled'[i] = h
                /\ Cardinality(LL) <= Cardinality(L)
             \/ /\ retry_count'[i] = r + 1 /\ throttled'[i] = h
                /\ Cardinality(LL) <= Cardinality(L)
                /\ Cardinality(SS) <= Cardinality(S) - 1
             \/ /\ retry_count'[i] = r + 1 /\ throttled'[i] = h
                /\ Cardinality(SS) <= Cardinality(S)
                /\ Cardinality(LL) <= Cardinality(L) - 1
<1>1. r \in Nat /\ h \in Nat /\ retry_count'[i] \in Nat /\ throttled'[i] \in Nat
  BY Zenon DEF ItemsOK, RowsOK, RestOK
<1>2. /\ IsFiniteSet(S) /\ Cardinality(S) \in Nat
      /\ IsFiniteSet(SS) /\ Cardinality(SS) \in Nat /\ Cardinality(SS) <= MaxRetries
  <2>1. S \in SUBSET (0..(MaxRetries - 1)) /\ SS \in SUBSET (0..(MaxRetries - 1))
    BY Zenon DEF Spare
  <2> QED BY Zenon, <2>1, SpareFinite
<1>3. /\ IsFiniteSet(L) /\ Cardinality(L) \in Nat /\ Cardinality(L) <= h
      /\ r + Cardinality(S) + Cardinality(L) <= 2 * MaxRetries + h
  BY Zenon, FS_CardinalityType DEF CountInv
<1>4. IsFiniteSet(LL) /\ Result
  <2>1. CountStep(i)
    BY Zenon, CountSteps
  <2>2. LL \subseteq L => IsFiniteSet(LL) /\ Cardinality(LL) <= Cardinality(L)
    BY Zenon, <1>3, FS_Subset
  <2>3. SS \subseteq S => Cardinality(SS) <= Cardinality(S)
    BY Zenon, <1>2, FS_Subset
  <2>4. ASSUME NEW n \in Nat, LL \subseteq L \cup {n}
        PROVE  IsFiniteSet(LL) /\ Cardinality(LL) <= Cardinality(L) + 1
    BY Zenon, <1>3, <2>4, WithOneMore
  <2>5. ASSUME NEW n \in L, LL \subseteq L \ {n}
        PROVE  IsFiniteSet(LL) /\ Cardinality(LL) <= Cardinality(L) - 1
    BY Zenon, <1>3, <2>5, Without
  <2>6. ASSUME NEW n \in S, SS \subseteq S \ {n}
        PROVE  Cardinality(SS) <= Cardinality(S) - 1
    BY Zenon, <1>2, <2>6, Without
  <2> QED BY Zenon, <2>1, <2>2, <2>3, <2>4, <2>5, <2>6 DEF CountStep
<1>5. Cardinality(LL) \in Nat
  BY Zenon, <1>4, FS_CardinalityType
<1>6. /\ Cardinality(LL) <= throttled'[i]
      /\ retry_count'[i] + Cardinality(SS) + Cardinality(LL) <= 2 * MaxRetries + throttled'[i]
  <2> HIDE DEF S, SS, L, LL, r, h
  <2> QED BY <1>1, <1>2, <1>3, <1>4, <1>5, BoundsAssumption
<1> QED BY Zenon, <1>4, <1>6

\* RetryCeiling: the retries of an item are bounded even when claims overlap and
\* goroutines stall for any length of time, where RetryBudget can fail: a goroutine
\* and the reaper may both count one try, and nobody counts it a third time.
THEOREM RetriesHaveCeiling == Spec => []RetryCeiling
<1>1. TypeOK => ItemsOK
  BY Zenon, TypeParts DEF ItemsOK
<1>2. ItemsOK /\ ItemsOK' /\ DeliveriesInv /\ [Next]_vars => DeliveriesInv'
  BY Zenon, DeliveriesStep
<1>3. ItemsOK /\ ItemsOK' /\ DeliveriesInv /\ CountInv /\ [Next]_vars => CountInv'
  BY Zenon, CountInvStep
<1>4. ItemsOK /\ CountInv => RetryCeiling
  <2> SUFFICES ASSUME ItemsOK, CountInv, NEW i \in Item
               PROVE  retry_count[i] <= 2 * MaxRetries + throttled[i]
    BY Zenon DEF RetryCeiling
  <2>1. Spare(i) \in SUBSET (0..(MaxRetries - 1))
    BY Zenon DEF Spare
  <2>2. Cardinality(Spare(i)) \in Nat /\ Cardinality(Limited(i)) \in Nat
    BY Zenon, <2>1, SpareFinite, FS_CardinalityType DEF CountInv
  <2>3. /\ retry_count[i] + Cardinality(Spare(i)) + Cardinality(Limited(i))
              <= 2 * MaxRetries + throttled[i]
        /\ retry_count[i] \in Nat /\ throttled[i] \in Nat
    BY Zenon DEF CountInv, ItemsOK, RowsOK, RestOK
  <2> QED BY <2>2, <2>3, BoundsAssumption
<1> QED BY <1>1, <1>2, <1>3, <1>4, InitDeliveries, InitCount, BufferTypeCorrect, PTL DEF Spec
=============================================================================
