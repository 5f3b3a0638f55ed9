--------------------------- MODULE ScheduleProofs ---------------------------
(***************************************************************************)
(* Theorems on Schedules, for any sets of schedules and dispatchers and    *)
(* all bounds: first what the loop of computeNext returns, then what the   *)
(* transaction of ClaimAndFire does with it.                               *)
(***************************************************************************)
EXTENDS Schedules, WellFoundedInduction, TLAPS

-----------------------------------------------------------------------------
(* Cron arithmetic *)

LEMMA DivBounds ==
    ASSUME NEW p \in Nat \ {0}, NEW a \in Nat
    PROVE  /\ a \div p \in Nat
           /\ (a \div p) * p <= a
           /\ a < (a \div p) * p + p
  BY SMTT(30)

LEMMA ModZero ==
    ASSUME NEW p \in Nat \ {0}, NEW a \in Nat
    PROVE  a % p = 0 <=> a = (a \div p) * p
  BY SMTT(30)

LEMMA MulMod ==
    ASSUME NEW p \in Nat \ {0}, NEW a \in Nat
    PROVE  (a * p) % p = 0
  BY SMTT(30)

LEMMA Gap ==
    ASSUME NEW p \in Nat \ {0}, NEW a \in Nat, NEW b \in Nat, a < b
    PROVE  a * p + p <= b * p
  BY SMTT(30)

\* A set of naturals has a least element.
LEMMA Least ==
    ASSUME NEW T \in SUBSET Nat, T # {}
    PROVE  \E x \in T : \A y \in T : x <= y
<1>1. PICK x \in T : \A y \in T : ~(<<y, x>> \in OpToRel(<, Nat))
  BY NatLessThanWellFounded, WFMin
<1>2. ASSUME NEW y \in T PROVE x <= y
  <2>1. x \in Nat /\ y \in Nat
    BY Zenon
  <2>2. y < x => <<y, x>> \in {ss \in Nat \X Nat : ss[1] < ss[2]}
    BY Zenon, <2>1
  <2>3. ~(y < x)
    BY Zenon, <1>1, <2>2 DEF OpToRel
  <2> QED BY <2>1, <2>3
<1> QED BY Zenon, <1>2

\* cron.Schedule.Next returns the first instant after t.
LEMMA CronNextMeans ==
    ASSUME NEW t \in Nat
    PROVE  /\ CronNext(t) \in Nat
           /\ CronNext(t) > t
           /\ CronNext(t) <= t + Period
           /\ CronNext(t) % Period = 0
           /\ \A c \in Nat : c % Period = 0 /\ c > t => CronNext(t) <= c
<1> DEFINE q == t \div Period
<1>0. Period \in Nat \ {0}
  BY Zenon, SchedulesAssumption
<1>1. q \in Nat /\ q * Period <= t /\ t < q * Period + Period
  BY Zenon, <1>0, DivBounds
<1>2. CronNext(t) = (q + 1) * Period
  BY Zenon DEF CronNext
<1> HIDE DEF q
<1>3. (q + 1) * Period = q * Period + Period /\ q * Period \in Nat
  BY <1>0, <1>1
<1>4. (q + 1) * Period % Period = 0
  BY <1>0, <1>1, MulMod
<1>5. ASSUME NEW c \in Nat, c % Period = 0, c > t PROVE CronNext(t) <= c
  <2> DEFINE r == c \div Period
  <2>1. r \in Nat /\ c = r * Period
    BY Zenon, <1>0, <1>5, DivBounds, ModZero
  <2> HIDE DEF r
  <2>2. CASE r <= q
    <3>1. r * Period <= q * Period
      <4>1. CASE r = q
        BY <4>1, <1>3
      <4>2. CASE r < q
        BY <1>0, <1>1, <2>1, <4>2, <1>3, Gap
      <4> QED BY <2>1, <2>2, <1>1, <4>1, <4>2
    <3> QED BY <1>1, <1>3, <1>5, <2>1, <3>1
  <2>3. CASE q < r
    BY Zenon, <1>0, <1>1, <1>2, <1>3, <2>1, <2>3, Gap
  <2> QED BY <1>1, <2>1, <2>2, <2>3
<1> QED BY <1>0, <1>1, <1>2, <1>3, <1>4, <1>5

\* What the loop finds: the first instant that is not over at n.
Found(m, n) == IF m < n THEN CronNext(n - 1) ELSE m

\* One round of the loop.
Round(f, S, n) == [m \in S |-> IF m < n THEN f[CronNext(m)] ELSE m]

\* A round of the loop does not change what there is to be found.
LEMMA FoundIsKept ==
    ASSUME NEW n \in Nat, NEW m \in Nat, m < n
    PROVE  Found(CronNext(m), n) = Found(m, n)
<1>0. n - 1 \in Nat /\ m <= n - 1
  OBVIOUS
<1> DEFINE a == CronNext(m)
           b == CronNext(n - 1)
<1>1. a \in Nat /\ a % Period = 0 /\ \A c \in Nat : c % Period = 0 /\ c > m => a <= c
  BY Zenon, CronNextMeans
<1>2. b \in Nat /\ b % Period = 0 /\ b > n - 1 /\ \A c \in Nat : c % Period = 0 /\ c > n - 1 => b <= c
  BY Zenon, <1>0, CronNextMeans
<1> HIDE DEF a, b
<1>3. b > m
  BY <1>0, <1>2
<1>4. CASE a < n
  BY Zenon, <1>4 DEF Found, a, b
<1>5. CASE ~(a < n)
  <2>1. a > n - 1
    BY <1>1, <1>5
  <2>2. a = b
    BY <1>1, <1>2, <1>3, <2>1
  <2> QED BY Zenon, <1>5, <2>2 DEF Found, a, b
<1> QED BY Zenon, <1>4, <1>5

\* The loop is a recursive function that some function satisfies (g, the answer), and
\* only one: if another one differed from g there would be a last m before n where it does.
LEMMA LoopFinds ==
    ASSUME NEW t \in Nat, NEW n \in Nat
    PROVE  computeNext(t, n) = Found(CronNext(t), n)
<1> DEFINE S == 0..(n + t + Period)
           g == [m \in S |-> Found(m, n)]
           f == CHOOSE h : h = Round(h, S, n)
<1>0. Period \in Nat \ {0}
  BY Zenon, SchedulesAssumption
<1>1. \A m \in S : m \in Nat /\ (m < n => CronNext(m) \in S /\ CronNext(m) > m)
  <2> SUFFICES ASSUME NEW m \in S PROVE m \in Nat /\ (m < n => CronNext(m) \in S /\ CronNext(m) > m)
    BY Zenon
  <2>1. m \in Nat
    BY <1>0
  <2>2. CronNext(m) \in Nat /\ CronNext(m) > m /\ CronNext(m) <= m + Period
    BY Zenon, <2>1, CronNextMeans
  <2> QED BY <1>0, <2>1, <2>2
<1>2. CronNext(t) \in S
  BY <1>0, CronNextMeans
<1>3. computeNext(t, n) = f[CronNext(t)]
  BY Zenon DEF computeNext, Round
<1> HIDE DEF S
<1>4. g = Round(g, S, n)
  <2> SUFFICES ASSUME NEW m \in S PROVE g[m] = IF m < n THEN g[CronNext(m)] ELSE m
    BY Zenon DEF Round
  <2>1. CASE m < n
    BY Zenon, <1>1, <2>1, FoundIsKept
  <2>2. CASE ~(m < n)
    BY Zenon, <2>2 DEF Found
  <2> QED BY Zenon, <2>1, <2>2
<1> HIDE DEF g
<1>5. f = Round(f, S, n)
  BY Zenon, <1>4
<1> HIDE DEF f
<1>6. \A m \in S : f[m] = IF m < n THEN f[CronNext(m)] ELSE m
  BY Zenon, <1>5 DEF Round
<1>7. \A m \in S : g[m] = IF m < n THEN g[CronNext(m)] ELSE m
  BY Zenon, <1>4 DEF Round
<1> DEFINE T == {d \in Nat : \E m \in S : m < n /\ d = n - m /\ f[m] # g[m]}
<1>8. T = {}
  <2> SUFFICES ASSUME T # {} PROVE FALSE
    BY Zenon
  <2>1. PICK d \in T : \A e \in T : d <= e
    <3>1. T \in SUBSET Nat
      BY Zenon
    <3> HIDE DEF T
    <3> QED BY Zenon, <3>1, Least
  <2>2. PICK m \in S : m < n /\ d = n - m /\ f[m] # g[m]
    BY Zenon, <2>1
  <2> DEFINE c == CronNext(m)
  <2>3. m \in Nat /\ c \in S /\ c \in Nat /\ c > m
    BY Zenon, <1>1, <2>2
  <2>4. f[m] = f[c] /\ g[m] = g[c]
    BY Zenon, <1>6, <1>7, <2>2
  <2> HIDE DEF c
  <2>5. c < n
    BY <1>6, <1>7, <2>2, <2>3, <2>4
  <2>6. n - c \in Nat /\ n - c < d
    BY <2>2, <2>3, <2>5
  <2>7. n - c \in T
    BY Zenon, <2>2, <2>3, <2>4, <2>5, <2>6
  <2>8. d \in Nat
    BY Zenon, <2>1
  <2> QED BY <2>1, <2>6, <2>7, <2>8
<1>9. \A m \in S : f[m] = g[m]
  <2> SUFFICES ASSUME NEW m \in S PROVE f[m] = g[m]
    BY Zenon
  <2>1. CASE m < n
    <3>1. n - m \in Nat
      BY <1>1, <2>1
    <3> QED BY Zenon, <1>8, <2>1, <3>1
  <2>2. CASE ~(m < n)
    BY Zenon, <1>6, <1>7, <2>2
  <2> QED BY Zenon, <2>1, <2>2
<1> QED BY Zenon, <1>2, <1>3, <1>9 DEF g

\* computeNext returns the first instant after t that is not over at n.
LEMMA ComputeNextMeans ==
    ASSUME NEW t \in Nat, NEW n \in Nat
    PROVE  /\ computeNext(t, n) \in Nat
           /\ computeNext(t, n) % Period = 0
           /\ computeNext(t, n) > t
           /\ computeNext(t, n) >= n
           /\ \A c \in Nat : c % Period = 0 /\ c > t /\ c >= n => computeNext(t, n) <= c
<1> DEFINE a == CronNext(t)
           b == CronNext(n - 1)
<1>1. /\ a \in Nat /\ a % Period = 0 /\ a > t
      /\ \A c \in Nat : c % Period = 0 /\ c > t => a <= c
  BY Zenon, CronNextMeans
<1>2. computeNext(t, n) = IF a < n THEN b ELSE a
  BY Zenon, LoopFinds DEF Found
<1>3. ASSUME a < n
      PROVE  /\ b \in Nat /\ b % Period = 0 /\ b > n - 1
             /\ \A c \in Nat : c % Period = 0 /\ c > n - 1 => b <= c
  <2>1. n - 1 \in Nat
    BY <1>1, <1>3
  <2> QED BY Zenon, <2>1, CronNextMeans
<1> HIDE DEF a, b
<1>4. CASE a < n
  BY <1>1, <1>2, <1>3, <1>4
<1>5. CASE ~(a < n)
  BY <1>1, <1>2, <1>5
<1> QED BY Zenon, <1>4, <1>5
-----------------------------------------------------------------------------
(* The transaction of ClaimAndFire *)

\* A row locked for firing.
RowKey == Schedule \X Nat

TableOK ==
    /\ now \in Nat
    /\ state \in [Schedule -> {"none", "active", "paused", "deleted"}]
    /\ next_run_at \in [Schedule -> Nat]
    /\ batch \in [Dispatcher -> SUBSET RowKey]
    /\ passed \subseteq RowKey

\* What a transaction has read of a row it locked stays true until it ends, and no
\* other transaction has locked the row.
LockInv ==
    \A d \in Dispatcher : \A k \in batch[d] :
        /\ state[k[1]] = "active" /\ next_run_at[k[1]] = k[2]
        /\ \A e \in Dispatcher : \A l \in batch[e] : k[1] = l[1] => d = e

\* A schedule never goes back to an instant that it has passed.
PastInv == \A k \in passed : state[k[1]] # "none" /\ k[2] < next_run_at[k[1]]

ScheduleInv == TableOK /\ LockInv /\ PastInv /\ PassedMeansHandled /\ ClashesAreForeign

LEMMA RowKeyParts == \A k \in RowKey : k[1] \in Schedule /\ k[2] \in Nat
  BY Zenon DEF RowKey

LEMMA InitSchedules == ScheduleInit => ScheduleInv
  BY DEF ScheduleInit, ScheduleInv, TableOK, LockInv, PastInv, PassedMeansHandled, ClashesAreForeign

\* API calls touch rows that nobody has locked.
LEMMA ApiPreserves ==
    ASSUME ScheduleInv, NEW s \in Schedule,
           CreateSchedule(s) \/ PauseSchedule(s) \/ ResumeSchedule(s) \/ DeleteSchedule(s)
    PROVE  ScheduleInv'
<1>1. UNCHANGED <<now, fired, foreign, refused, passed, clashed, batch>>
  BY Zenon DEF CreateSchedule, PauseSchedule, ResumeSchedule, SetPaused, DeleteSchedule, jobs, process
<1>2. \A d \in Dispatcher : \A k \in batch[d] : k[1] # s
  <2>1. CASE CreateSchedule(s)
    BY Zenon, <2>1 DEF CreateSchedule, ScheduleInv, LockInv
  <2>2. CASE PauseSchedule(s) \/ ResumeSchedule(s) \/ DeleteSchedule(s)
    BY Zenon, <2>2 DEF PauseSchedule, ResumeSchedule, SetPaused, DeleteSchedule, Locked
  <2> QED
    BY Zenon, <2>1, <2>2
<1>3. /\ state' \in [Schedule -> {"none", "active", "paused", "deleted"}]
      /\ \A r \in Schedule : r # s => state'[r] = state[r]
  BY Zenon DEF CreateSchedule, PauseSchedule, ResumeSchedule, SetPaused, DeleteSchedule, ScheduleInv, TableOK
<1>4. /\ next_run_at' \in [Schedule -> Nat]
      /\ \A r \in Schedule : r # s => next_run_at'[r] = next_run_at[r]
      /\ next_run_at'[s] = next_run_at[s] \/ state[s] = "none"
  <2>1. CASE CreateSchedule(s)
    <3>1. CronNext(now) \in Nat
      BY Zenon, CronNextMeans DEF ScheduleInv, TableOK
    <3> QED
      BY Zenon, <2>1, <3>1 DEF CreateSchedule, ScheduleInv, TableOK
  <2>2. CASE PauseSchedule(s) \/ ResumeSchedule(s) \/ DeleteSchedule(s)
    BY Zenon, <2>2 DEF PauseSchedule, ResumeSchedule, SetPaused, DeleteSchedule, ScheduleInv, TableOK
  <2> QED
    BY Zenon, <2>1, <2>2
<1>5. state'[s] # "none"
  BY Zenon DEF CreateSchedule, PauseSchedule, ResumeSchedule, SetPaused, DeleteSchedule, ScheduleInv, TableOK
<1>6. TableOK'
  BY Zenon, <1>1, <1>3, <1>4 DEF ScheduleInv, TableOK
<1>7. LockInv'
  BY <1>1, <1>2, <1>3, <1>4, RowKeyParts DEF ScheduleInv, TableOK, LockInv
<1>8. PastInv'
  BY <1>1, <1>3, <1>4, <1>5, RowKeyParts DEF ScheduleInv, TableOK, PastInv
<1>9. PassedMeansHandled' /\ ClashesAreForeign'
  BY Zenon, <1>1 DEF ScheduleInv, PassedMeansHandled, ClashesAreForeign
<1> QED
  BY Zenon, <1>6, <1>7, <1>8, <1>9 DEF ScheduleInv

\* A claim locks rows that nobody has locked, with the next_run_at they have.
LEMMA ClaimPreserves ==
    ASSUME ScheduleInv, NEW d \in Dispatcher, Claim(d)
    PROVE  ScheduleInv'
<1>1. PICK S \in SUBSET Schedule : Claimed(S) /\ batch' = [batch EXCEPT ![d] = {KeyOf(s) : s \in S}]
  BY Zenon DEF Claim
<1>2. /\ batch[d] = {}
      /\ UNCHANGED <<now, state, next_run_at, fired, foreign, refused, passed, clashed>>
  BY Zenon DEF Claim, scheduleRows, jobs
<1>3. \A s \in S : /\ s \in Schedule /\ state[s] = "active"
                   /\ \A e \in Dispatcher : \A k \in batch[e] : k[1] # s
  BY Zenon, <1>1 DEF Claimed, Due, Locked
<1>4. \A k \in {KeyOf(s) : s \in S} : k \in RowKey /\ k[1] \in S /\ k[2] = next_run_at[k[1]]
  BY <1>3 DEF KeyOf, RowKey, ScheduleInv, TableOK
<1>5. \A e \in Dispatcher : batch'[e] = IF e = d THEN {KeyOf(s) : s \in S} ELSE batch[e]
  BY Zenon, <1>1 DEF ScheduleInv, TableOK
<1>6. TableOK'
  BY Zenon, <1>1, <1>2, <1>4 DEF ScheduleInv, TableOK
<1>7. LockInv'
  <2> SUFFICES ASSUME NEW e \in Dispatcher, NEW k \in batch'[e]
               PROVE  /\ state[k[1]] = "active" /\ next_run_at[k[1]] = k[2]
                      /\ \A f \in Dispatcher : \A l \in batch'[f] : k[1] = l[1] => e = f
    BY <1>2 DEF LockInv
  <2>1. CASE e = d
    BY Zenon, <1>3, <1>4, <1>5, <2>1
  <2>2. CASE e # d
    BY ZenonT(30), <1>3, <1>4, <1>5, <2>2 DEF ScheduleInv, LockInv
  <2> QED
    BY Zenon, <2>1, <2>2
<1>8. PastInv' /\ PassedMeansHandled' /\ ClashesAreForeign'
  BY Zenon, <1>2 DEF ScheduleInv, PastInv, PassedMeansHandled, ClashesAreForeign
<1> QED
  BY Zenon, <1>6, <1>7, <1>8 DEF ScheduleInv

\* The transaction ends and nothing of it remains.
LEMMA ReleasePreserves ==
    ASSUME ScheduleInv, NEW d \in Dispatcher, batch' = [batch EXCEPT ![d] = {}],
           UNCHANGED <<now, state, next_run_at, fired, foreign, refused, passed>>,
           clashed' \subseteq foreign
    PROVE  ScheduleInv'
<1>1. \A e \in Dispatcher : batch'[e] = IF e = d THEN {} ELSE batch[e]
  BY Zenon DEF ScheduleInv, TableOK
<1>2. TableOK'
  BY Zenon DEF ScheduleInv, TableOK
<1>3. LockInv'
  BY <1>1 DEF ScheduleInv, LockInv
<1>4. PastInv' /\ PassedMeansHandled' /\ ClashesAreForeign'
  BY Zenon DEF ScheduleInv, PastInv, PassedMeansHandled, ClashesAreForeign
<1> QED
  BY Zenon, <1>2, <1>3, <1>4 DEF ScheduleInv

\* What is locked has not been passed.
LEMMA LockedIsNew ==
    ASSUME ScheduleInv, NEW d \in Dispatcher PROVE batch[d] \cap passed = {}
  BY RowKeyParts DEF ScheduleInv, TableOK, LockInv, PastInv

LEMMA CommitPreserves ==
    ASSUME ScheduleInv, NEW d \in Dispatcher, NEW paid \in SUBSET batch[d],
           Commit(d, paid), batch' = [batch EXCEPT ![d] = {}], UNCHANGED <<now, state, foreign>>
    PROVE  ScheduleInv'
<1> DEFINE K == batch[d]
<1>1. /\ fired' = fired \cup paid /\ refused' = refused \cup (K \ paid)
      /\ passed' = passed \cup K /\ UNCHANGED clashed
  BY Zenon DEF Commit, Advance
<1>2. K \subseteq RowKey
  BY Zenon DEF ScheduleInv, TableOK
<1>3. \A e \in Dispatcher : batch'[e] = IF e = d THEN {} ELSE batch[e]
  BY Zenon DEF ScheduleInv, TableOK
<1>4. ASSUME NEW s \in Schedule
      PROVE  /\ next_run_at'[s] \in Nat /\ next_run_at[s] \in Nat
             /\ (\E k \in K : k[1] = s) => next_run_at'[s] > next_run_at[s]
             /\ ~(\E k \in K : k[1] = s) => next_run_at'[s] = next_run_at[s]
  <2>1. next_run_at'[s] = IF \E k \in K : k[1] = s
                          THEN computeNext((CHOOSE k \in K : k[1] = s)[2], now)
                          ELSE next_run_at[s]
    BY Zenon DEF Commit, Advance
  <2>2. next_run_at[s] \in Nat /\ now \in Nat
    BY Zenon DEF ScheduleInv, TableOK
  <2>3. CASE \E k \in K : k[1] = s
    <3>1. PICK k \in K : k = CHOOSE c \in K : c[1] = s
      BY Zenon, <2>3
    <3>2. k[1] = s
      BY Zenon, <2>3, <3>1
    <3>3. k[2] = next_run_at[s]
      BY Zenon, <3>2 DEF ScheduleInv, LockInv
    <3>4. next_run_at'[s] = computeNext(next_run_at[s], now)
      BY Zenon, <2>1, <2>3, <3>1, <3>3
    <3> QED
      BY Zenon, <2>2, <2>3, <3>4, ComputeNextMeans
  <2>4. CASE ~\E k \in K : k[1] = s
    BY Zenon, <2>1, <2>2, <2>4
  <2> QED
    BY Zenon, <2>3, <2>4
<1>5. next_run_at' \in [Schedule -> Nat]
  <2>1. next_run_at' = [s \in Schedule |-> next_run_at'[s]]
    BY Zenon DEF Commit, Advance
  <2> QED
    BY Zenon, <1>4, <2>1
<1>6. TableOK'
  BY Zenon, <1>1, <1>2, <1>5 DEF ScheduleInv, TableOK
<1>7. LockInv'
  BY <1>2, <1>3, <1>4, RowKeyParts DEF ScheduleInv, TableOK, LockInv
<1>8. PastInv'
  <2> SUFFICES ASSUME NEW k \in passed' PROVE state[k[1]] # "none" /\ k[2] < next_run_at'[k[1]]
    BY Zenon DEF PastInv
  <2>1. k \in RowKey
    BY Zenon, <1>1, <1>2 DEF ScheduleInv, TableOK
  <2>2. k[1] \in Schedule /\ k[2] \in Nat
    BY Zenon, <2>1, RowKeyParts
  <2>3. CASE k \in K
    <3>1. state[k[1]] = "active" /\ next_run_at[k[1]] = k[2]
      BY Zenon, <2>3 DEF ScheduleInv, LockInv
    <3> QED
      BY Zenon, <1>4, <2>2, <2>3, <3>1
  <2>4. CASE k \in passed
    <3>1. state[k[1]] # "none" /\ k[2] < next_run_at[k[1]]
      BY Zenon, <2>4 DEF ScheduleInv, PastInv
    <3>2. /\ next_run_at'[k[1]] \in Nat /\ next_run_at[k[1]] \in Nat
          /\ next_run_at'[k[1]] >= next_run_at[k[1]]
      BY <1>4, <2>2
    <3> QED
      BY <2>2, <3>1, <3>2
  <2> QED
    BY Zenon, <1>1, <2>3, <2>4
<1>9. PassedMeansHandled'
  BY Zenon, <1>1 DEF ScheduleInv, PassedMeansHandled
<1>10. ClashesAreForeign'
  BY Zenon, <1>1, LockedIsNew DEF ScheduleInv, PassedMeansHandled, ClashesAreForeign
<1> QED
  BY Zenon, <1>6, <1>7, <1>8, <1>9, <1>10 DEF ScheduleInv

LEMMA NextSchedules == ScheduleInv /\ [ScheduleNext]_scheduleVars => ScheduleInv'
<1> SUFFICES ASSUME ScheduleInv, [ScheduleNext]_scheduleVars PROVE ScheduleInv'
  BY Zenon
<1>1. CASE Tick
  <2>1. now' \in Nat /\ UNCHANGED <<state, next_run_at, fired, foreign, refused, passed, clashed, batch>>
    BY <1>1 DEF Tick, scheduleRows, jobs, process, ScheduleInv, TableOK
  <2> QED
    BY <2>1 DEF ScheduleInv, TableOK, LockInv, PastInv, PassedMeansHandled, ClashesAreForeign
<1>2. CASE \E s \in Schedule : \/ CreateSchedule(s) \/ PauseSchedule(s)
                               \/ ResumeSchedule(s) \/ DeleteSchedule(s)
  BY Zenon, <1>2, ApiPreserves
<1>3. CASE \E k \in Key : CreateJob(k)
  <2>1. /\ foreign \subseteq foreign'
        /\ UNCHANGED <<now, state, next_run_at, fired, refused, passed, clashed, batch>>
    BY Zenon, <1>3 DEF CreateJob, scheduleRows, process
  <2> QED
    BY <2>1 DEF ScheduleInv, TableOK, LockInv, PastInv, PassedMeansHandled, ClashesAreForeign
<1>4. ASSUME NEW d \in Dispatcher, Claim(d) PROVE ScheduleInv'
  BY Zenon, <1>4, ClaimPreserves
<1>5. ASSUME NEW d \in Dispatcher, FireFails(d) \/ Restart(d) PROVE ScheduleInv'
  <2>1. /\ batch' = [batch EXCEPT ![d] = {}]
        /\ UNCHANGED <<now, state, next_run_at, fired, foreign, refused, passed, clashed>>
    BY Zenon, <1>5 DEF FireFails, Restart, scheduleRows, jobs
  <2> QED
    BY Zenon, <2>1, ReleasePreserves DEF ScheduleInv, ClashesAreForeign
<1>6. ASSUME NEW d \in Dispatcher, Fire(d) PROVE ScheduleInv'
  <2>1. PICK paid \in SUBSET batch[d] :
          \/ Commit(d, paid)
          \/ Abort(d, paid \cap (fired \cup foreign))
    BY Zenon, <1>6 DEF Fire
  <2>2. batch' = [batch EXCEPT ![d] = {}] /\ UNCHANGED <<now, state, foreign>>
    BY Zenon, <1>6 DEF Fire
  <2>3. CASE Commit(d, paid)
    BY Zenon, <2>2, <2>3, CommitPreserves
  <2>4. CASE Abort(d, paid \cap (fired \cup foreign))
    <3>1. UNCHANGED <<next_run_at, fired, refused, passed>>
      BY Zenon, <2>4 DEF Abort
    <3>2. clashed' \subseteq foreign
      BY Zenon, <2>4, LockedIsNew DEF Abort, ScheduleInv, PassedMeansHandled, ClashesAreForeign
    <3> QED
      BY Zenon, <2>2, <3>1, <3>2, ReleasePreserves
  <2> QED
    BY Zenon, <2>1, <2>3, <2>4
<1>7. CASE UNCHANGED scheduleVars
  <2>1. UNCHANGED <<now, state, next_run_at, fired, foreign, refused, passed, clashed, batch>>
    BY Zenon, <1>7 DEF scheduleVars, scheduleRows, jobs, process
  <2> QED
    BY <2>1 DEF ScheduleInv, TableOK, LockInv, PastInv, PassedMeansHandled, ClashesAreForeign
<1> QED
  BY Zenon, <1>1, <1>2, <1>3, <1>4, <1>5, <1>6, <1>7 DEF ScheduleNext

LEMMA ScheduleInvariant == ScheduleSpec => []ScheduleInv
  BY InitSchedules, NextSchedules, PTL DEF ScheduleSpec

\* PassedMeansHandled: the transaction of ClaimAndFire moves a schedule on from an
\* instant exactly when it has inserted or refused its job, for any number of
\* dispatchers.
THEOREM EachInstantHandled == ScheduleSpec => []PassedMeansHandled
<1>1. ScheduleInv => PassedMeansHandled
  BY Zenon DEF ScheduleInv
<1> QED
  BY <1>1, ScheduleInvariant, PTL

\* ClashesAreForeign: the row locks and the advance of next_run_at give each instant
\* of a schedule to one dispatcher, so that no insert meets the job of another one.
THEOREM EachInstantOnce == ScheduleSpec => []ClashesAreForeign
<1>1. ScheduleInv => ClashesAreForeign
  BY Zenon DEF ScheduleInv
<1> QED
  BY <1>1, ScheduleInvariant, PTL

\* PausedNeverFires: a pause or a deletion waits for the transaction that has the
\* row locked, so no job is inserted after it.
THEOREM PauseTakesEffect == ScheduleSpec => PausedNeverFires
<1> DEFINE Active == \A k \in fired' \ fired : state[k[1]] = "active" /\ state'[k[1]] = "active"
<1>1. ScheduleInv /\ [ScheduleNext]_scheduleVars => [Active]_scheduleVars
  <2> SUFFICES ASSUME ScheduleInv, ScheduleNext PROVE Active
    BY Zenon
  <2>1. CASE \E d \in Dispatcher : Fire(d)
    BY <2>1 DEF Fire, Commit, Abort, ScheduleInv, LockInv
  <2>2. CASE ~\E d \in Dispatcher : Fire(d)
    <3>1. fired' = fired
      BY Zenon, <2>2 DEF ScheduleNext, Tick, CreateSchedule, PauseSchedule, ResumeSchedule, SetPaused,
                  DeleteSchedule, CreateJob, Claim, FireFails, Restart, jobs
    <3> QED
      BY Zenon, <3>1
  <2> QED
    BY Zenon, <2>1, <2>2
<1> QED
  BY <1>1, ScheduleInvariant, PTL DEF ScheduleSpec, PausedNeverFires

-----------------------------------------------------------------------------
(* Types, and the instants that schedules move to *)

\* A row has a first instant from its creation on, a locked row is due, and a
\* transaction under way has the connection that it could lose.
TypeInv ==
    /\ ScheduleTypeOK
    /\ \A s \in Schedule : state[s] # "none" => next_run_at[s] # 0
    /\ \A d \in Dispatcher : batch[d] # {} => leaked[d] < PoolSize
    /\ \A d \in Dispatcher : \A k \in batch[d] : k[2] <= now

LEMMA InstantMeans == \A c : c \in Instant <=> /\ c \in Nat \ {0}
                                              /\ c <= MaxTime + Period
                                              /\ c % Period = 0
<1>1. MaxTime \in Nat /\ Period \in Nat \ {0}
  BY Zenon, SchedulesAssumption
<1> QED
  BY <1>1 DEF Instant

\* Whatever instant t a schedule was at, there is one after it for a clock within
\* its bound.
LEMMA NextInstant ==
    ASSUME NEW t \in 0..MaxTime, NEW n \in 0..MaxTime
    PROVE  computeNext(t, n) \in Instant
<1>0. MaxTime \in Nat /\ Period \in Nat \ {0}
  BY Zenon, SchedulesAssumption
<1>1. t \in Nat /\ n \in Nat
  BY <1>0
<1>2. CronNext(MaxTime) \in Nat /\ CronNext(MaxTime) % Period = 0
      /\ CronNext(MaxTime) > MaxTime /\ CronNext(MaxTime) <= MaxTime + Period
  BY Zenon, <1>0, CronNextMeans
<1>3. CronNext(MaxTime) > t /\ CronNext(MaxTime) >= n
  BY <1>0, <1>2
<1>4. computeNext(t, n) \in Nat /\ computeNext(t, n) % Period = 0 /\ computeNext(t, n) > t
      /\ computeNext(t, n) <= CronNext(MaxTime)
  BY Zenon, <1>1, <1>2, <1>3, ComputeNextMeans
<1> QED
  BY <1>0, <1>1, <1>2, <1>4, InstantMeans

LEMMA FirstInstant ==
    ASSUME NEW n \in 0..MaxTime
    PROVE  CronNext(n) \in Instant
<1>0. MaxTime \in Nat /\ Period \in Nat \ {0} /\ n \in Nat
  BY SchedulesAssumption
<1>1. CronNext(n) \in Nat /\ CronNext(n) % Period = 0
      /\ CronNext(n) > n /\ CronNext(n) <= n + Period
  BY Zenon, <1>0, CronNextMeans
<1> QED
  BY <1>0, <1>1, InstantMeans

LEMMA TypeApi ==
    ASSUME TypeInv, NEW s \in Schedule,
           CreateSchedule(s) \/ PauseSchedule(s) \/ ResumeSchedule(s) \/ DeleteSchedule(s)
    PROVE  TypeInv'
<1>1. UNCHANGED <<now, fired, foreign, refused, passed, clashed, batch, leaked, failures>>
  BY Zenon DEF CreateSchedule, PauseSchedule, ResumeSchedule, SetPaused, DeleteSchedule, jobs, process
<1>2. state' \in [Schedule -> {"none", "active", "paused", "deleted"}]
  BY Zenon DEF CreateSchedule, PauseSchedule, ResumeSchedule, SetPaused, DeleteSchedule, TypeInv, ScheduleTypeOK
<1>3. /\ next_run_at' \in [Schedule -> Instant \cup {0}]
      /\ \A r \in Schedule : state'[r] # "none" => next_run_at'[r] # 0
  <2>1. CASE CreateSchedule(s)
    <3>1. CronNext(now) \in Instant
      BY Zenon, FirstInstant DEF TypeInv, ScheduleTypeOK
    <3>2. CronNext(now) # 0
      BY Zenon, <3>1, InstantMeans
    <3> QED
      BY Zenon, <2>1, <3>1, <3>2 DEF CreateSchedule, TypeInv, ScheduleTypeOK
  <2>2. CASE PauseSchedule(s) \/ ResumeSchedule(s) \/ DeleteSchedule(s)
    BY Zenon, <2>2 DEF PauseSchedule, ResumeSchedule, SetPaused, DeleteSchedule, TypeInv, ScheduleTypeOK
  <2> QED
    BY Zenon, <2>1, <2>2
<1> QED
  BY Zenon, <1>1, <1>2, <1>3 DEF TypeInv, ScheduleTypeOK

LEMMA TypeClaim ==
    ASSUME TypeInv, NEW d \in Dispatcher, Claim(d)
    PROVE  TypeInv'
<1>1. PICK S \in SUBSET Schedule : Claimed(S) /\ batch' = [batch EXCEPT ![d] = {KeyOf(s) : s \in S}]
  BY Zenon DEF Claim
<1>2. /\ leaked[d] < PoolSize
      /\ UNCHANGED <<now, state, next_run_at, fired, foreign, refused, passed, clashed, leaked, failures>>
  BY Zenon DEF Claim, scheduleRows, jobs
<1>3. \A s \in S : state[s] = "active" /\ next_run_at[s] <= now
  BY Zenon, <1>1 DEF Claimed, Due
<1>4. \A s \in S : KeyOf(s) \in Key /\ KeyOf(s)[2] <= now
  BY Zenon, <1>3 DEF KeyOf, Key, TypeInv, ScheduleTypeOK
<1>5. \A e \in Dispatcher : batch'[e] = IF e = d THEN {KeyOf(s) : s \in S} ELSE batch[e]
  BY Zenon, <1>1 DEF TypeInv, ScheduleTypeOK
<1>6. batch' \in [Dispatcher -> SUBSET Key]
  BY <1>1, <1>4 DEF TypeInv, ScheduleTypeOK
<1>7. \A e \in Dispatcher : \A k \in batch'[e] : k[2] <= now
  <2> SUFFICES ASSUME NEW e \in Dispatcher, NEW k \in batch'[e] PROVE k[2] <= now
    BY Zenon
  <2>1. CASE e = d
    BY Zenon, <1>4, <1>5, <2>1
  <2>2. CASE e # d
    BY Zenon, <1>5, <2>2 DEF TypeInv
  <2> QED
    BY Zenon, <2>1, <2>2
<1>8. \A e \in Dispatcher : batch'[e] # {} => leaked[e] < PoolSize
  BY Zenon, <1>2, <1>5 DEF TypeInv
<1> QED
  BY Zenon, <1>2, <1>6, <1>7, <1>8 DEF TypeInv, ScheduleTypeOK

\* The end of a transaction, which may lose its connection.
LEMMA TypeRelease ==
    ASSUME TypeInv, NEW d \in Dispatcher, batch' = [batch EXCEPT ![d] = {}],
           \/ leaked' = leaked
           \/ batch[d] # {} /\ leaked' = [leaked EXCEPT ![d] = @ + 1]
           \/ leaked' = [leaked EXCEPT ![d] = 0],
           next_run_at' \in [Schedule -> Instant \cup {0}],
           \A s \in Schedule : state[s] # "none" => next_run_at'[s] # 0,
           \A S \in {fired', refused', passed', clashed'} : S \subseteq Key,
           failures' \in 0..MaxFailures,
           UNCHANGED <<now, state, foreign>>
    PROVE  TypeInv'
<1>0. PoolSize \in Nat \ {0}
  BY Zenon, SchedulesAssumption
<1>1. \A e \in Dispatcher : batch'[e] = IF e = d THEN {} ELSE batch[e]
  BY Zenon DEF TypeInv, ScheduleTypeOK
<1>2. batch' \in [Dispatcher -> SUBSET Key]
  BY Zenon DEF TypeInv, ScheduleTypeOK
<1>3. \A e \in Dispatcher : e # d => leaked'[e] = leaked[e]
  BY Zenon DEF TypeInv, ScheduleTypeOK
<1>4. leaked' \in [Dispatcher -> 0..PoolSize]
  BY <1>0 DEF TypeInv, ScheduleTypeOK
<1>5. /\ \A e \in Dispatcher : batch'[e] # {} => leaked'[e] < PoolSize
      /\ \A e \in Dispatcher : \A k \in batch'[e] : k[2] <= now
  BY <1>1, <1>3 DEF TypeInv
<1> QED
  BY <1>2, <1>4, <1>5 DEF TypeInv, ScheduleTypeOK

LEMMA TypeFire ==
    ASSUME TypeInv, NEW d \in Dispatcher, Fire(d)
    PROVE  TypeInv'
<1>1. PICK paid \in SUBSET batch[d] :
        \/ Commit(d, paid)
        \/ Abort(d, paid \cap (fired \cup foreign))
  BY Zenon DEF Fire
<1>2. batch[d] # {} /\ batch' = [batch EXCEPT ![d] = {}] /\ UNCHANGED <<now, state, foreign, failures>>
  BY Zenon DEF Fire
<1>3. batch[d] \subseteq Key /\ paid \subseteq Key /\ paid \cap (fired \cup foreign) \subseteq Key
  BY Zenon DEF TypeInv, ScheduleTypeOK
<1>4. CASE Abort(d, paid \cap (fired \cup foreign))
  <2>1. /\ UNCHANGED <<next_run_at, fired, refused, passed>>
        /\ leaked' = [leaked EXCEPT ![d] = @ + 1]
        /\ clashed' = clashed \cup (paid \cap (fired \cup foreign))
    BY Zenon, <1>4 DEF Abort
  <2>2. \A S \in {fired', refused', passed', clashed'} : S \subseteq Key
    BY <1>3, <2>1 DEF TypeInv, ScheduleTypeOK
  <2>3. next_run_at' \in [Schedule -> Instant \cup {0}] /\ failures' \in 0..MaxFailures
        /\ \A s \in Schedule : state[s] # "none" => next_run_at'[s] # 0
    BY Zenon, <1>2, <2>1 DEF TypeInv, ScheduleTypeOK
  <2> QED
    BY Zenon, <1>2, <2>1, <2>2, <2>3, TypeRelease
<1>5. CASE Commit(d, paid)
  <2>1. /\ UNCHANGED <<clashed, leaked>> /\ fired' = fired \cup paid
        /\ refused' = refused \cup (batch[d] \ paid) /\ passed' = passed \cup batch[d]
    BY Zenon, <1>5 DEF Commit, Advance
  <2>2. \A S \in {fired', refused', passed', clashed'} : S \subseteq Key
    BY Zenon, <1>3, <2>1 DEF TypeInv, ScheduleTypeOK
  <2>3. ASSUME NEW s \in Schedule
        PROVE  /\ next_run_at'[s] \in Instant \cup {0}
               /\ state[s] # "none" => next_run_at'[s] # 0
    <3>1. next_run_at'[s] = IF \E k \in batch[d] : k[1] = s
                            THEN computeNext((CHOOSE k \in batch[d] : k[1] = s)[2], now)
                            ELSE next_run_at[s]
      BY Zenon, <1>5 DEF Commit, Advance
    <3>2. CASE \E k \in batch[d] : k[1] = s
      <4>1. PICK k \in batch[d] : k = CHOOSE c \in batch[d] : c[1] = s
        BY Zenon, <3>2
      <4>2. k[2] \in Nat /\ k[2] <= now
        BY Zenon, <1>3, InstantMeans DEF TypeInv, Key
      <4>3. now \in 0..MaxTime /\ MaxTime \in Nat
        BY Zenon, SchedulesAssumption DEF TypeInv, ScheduleTypeOK
      <4>4. k[2] \in 0..MaxTime
        BY <4>2, <4>3
      <4>5. next_run_at'[s] \in Instant
        BY Zenon, <3>1, <3>2, <4>1, <4>3, <4>4, NextInstant
      <4> QED
        BY Zenon, <4>5, InstantMeans
    <3>3. CASE ~\E k \in batch[d] : k[1] = s
      BY Zenon, <3>1, <3>3 DEF TypeInv, ScheduleTypeOK
    <3> QED
      BY Zenon, <3>2, <3>3
  <2>4. next_run_at' \in [Schedule -> Instant \cup {0}] /\ failures' \in 0..MaxFailures
    <3>1. next_run_at' = [s \in Schedule |-> next_run_at'[s]]
      BY Zenon, <1>5 DEF Commit, Advance
    <3>2. failures' \in 0..MaxFailures
      BY Zenon, <1>2 DEF TypeInv, ScheduleTypeOK
    <3> QED
      BY Zenon, <2>3, <3>1, <3>2
  <2> QED
    BY Zenon, <1>2, <2>1, <2>2, <2>3, <2>4, TypeRelease
<1> QED
  BY Zenon, <1>1, <1>4, <1>5

LEMMA TypeNext == TypeInv /\ [ScheduleNext]_scheduleVars => TypeInv'
<1> SUFFICES ASSUME TypeInv, [ScheduleNext]_scheduleVars PROVE TypeInv'
  BY Zenon
<1>1. CASE Tick
  <2>1. UNCHANGED <<state, next_run_at, fired, foreign, refused, passed, clashed, batch, leaked, failures>>
    BY Zenon, <1>1 DEF Tick, scheduleRows, jobs, process
  <2>2. now' \in 0..MaxTime /\ now' > now /\ now \in Nat
    BY <1>1, SchedulesAssumption DEF Tick, TypeInv, ScheduleTypeOK
  <2>3. \A d \in Dispatcher : \A k \in batch[d] : k[2] \in Nat /\ k[2] <= now
    BY InstantMeans DEF TypeInv, ScheduleTypeOK, Key
  <2>4. \A d \in Dispatcher : \A k \in batch[d] : k[2] <= now'
    BY <2>2, <2>3
  <2> QED
    BY Zenon, <2>1, <2>2, <2>4 DEF TypeInv, ScheduleTypeOK
<1>2. CASE \E s \in Schedule : \/ CreateSchedule(s) \/ PauseSchedule(s)
                               \/ ResumeSchedule(s) \/ DeleteSchedule(s)
  BY Zenon, <1>2, TypeApi
<1>3. CASE \E k \in Key : CreateJob(k)
  <2>1. /\ foreign' \subseteq Key
        /\ UNCHANGED <<now, state, next_run_at, fired, refused, passed, clashed, batch, leaked, failures>>
    BY Zenon, <1>3 DEF CreateJob, scheduleRows, process, TypeInv, ScheduleTypeOK
  <2> QED
    BY Zenon, <2>1 DEF TypeInv, ScheduleTypeOK
<1>4. ASSUME NEW d \in Dispatcher, Claim(d) \/ Fire(d) PROVE TypeInv'
  BY Zenon, <1>4, TypeClaim, TypeFire
<1>5. ASSUME NEW d \in Dispatcher, FireFails(d) \/ Restart(d) PROVE TypeInv'
  <2>1. /\ batch' = [batch EXCEPT ![d] = {}]
        /\ UNCHANGED <<now, state, next_run_at, fired, foreign, refused, passed, clashed>>
        /\ \/ leaked' = leaked
           \/ batch[d] # {} /\ leaked' = [leaked EXCEPT ![d] = @ + 1]
           \/ leaked' = [leaked EXCEPT ![d] = 0]
    BY Zenon, <1>5 DEF FireFails, Restart, scheduleRows, jobs
  <2>2. failures' \in 0..MaxFailures
    BY <1>5, SchedulesAssumption DEF FireFails, Restart, TypeInv, ScheduleTypeOK
  <2>3. /\ next_run_at' \in [Schedule -> Instant \cup {0}]
        /\ \A s \in Schedule : state[s] # "none" => next_run_at'[s] # 0
        /\ \A S \in {fired', refused', passed', clashed'} : S \subseteq Key
    BY <2>1 DEF TypeInv, ScheduleTypeOK
  <2> QED
    BY Zenon, <2>1, <2>2, <2>3, TypeRelease
<1>6. CASE UNCHANGED scheduleVars
  BY Zenon, <1>6 DEF scheduleVars, scheduleRows, jobs, process, TypeInv, ScheduleTypeOK
<1> QED
  BY Zenon, <1>1, <1>2, <1>3, <1>4, <1>5, <1>6 DEF ScheduleNext

\* ScheduleTypeOK: next_run_at is always an instant of the expression, and the error paths
\* of ClaimAndFire lose no connection that the process does not have.
THEOREM SchedulesTypeCorrect == ScheduleSpec => []ScheduleTypeOK
<1>1. ScheduleInit => TypeInv
  BY SchedulesAssumption DEF ScheduleInit, TypeInv, ScheduleTypeOK
<1>2. TypeInv => ScheduleTypeOK
  BY Zenon DEF TypeInv
<1> QED
  BY <1>1, <1>2, TypeNext, PTL DEF ScheduleSpec

\* SkipsMissedRuns: at every time, and from every next_run_at, the loop of computeNext
\* ends at the first instant of the expression that is neither passed nor over.
THEOREM MissedRunsSkipped == ScheduleSpec => []SkipsMissedRuns
<1>1. ScheduleTypeOK => SkipsMissedRuns
  <2> SUFFICES ASSUME ScheduleTypeOK, NEW t \in 0..MaxTime
               PROVE  LET future == {c \in Instant : c > t /\ c >= now}
                      IN  /\ computeNext(t, now) \in future
                          /\ \A c \in future : computeNext(t, now) <= c
    BY Zenon DEF SkipsMissedRuns
  <2>1. now \in 0..MaxTime /\ now \in Nat /\ t \in Nat
    BY SchedulesAssumption DEF ScheduleTypeOK
  <2>2. computeNext(t, now) \in Instant
    BY Zenon, <2>1, NextInstant
  <2>3. /\ computeNext(t, now) > t /\ computeNext(t, now) >= now
        /\ \A c \in Nat : c % Period = 0 /\ c > t /\ c >= now => computeNext(t, now) <= c
    BY Zenon, <2>1, ComputeNextMeans
  <2>4. \A c \in Instant : c \in Nat /\ c % Period = 0
    BY Zenon, InstantMeans
  <2> QED
    BY Zenon, <2>2, <2>3, <2>4
<1> QED
  BY <1>1, SchedulesTypeCorrect, PTL
=============================================================================
