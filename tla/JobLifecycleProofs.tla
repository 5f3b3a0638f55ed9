------------------------- MODULE JobLifecycleProofs -------------------------
(***************************************************************************)
(* Proofs about JobLifecycle for any number of jobs, workers, slots and    *)
(* retries, and without any assumption on timing.                          *)
(***************************************************************************)
EXTENDS JobLifecycle, TLAPS

-----------------------------------------------------------------------------
(* Type correctness *)

LEMMA TypeGoto ==
    ASSUME RunTypeOK, NEW s \in Slot, NEW l \in PC, l # "idle", pc[s] # "idle",
           Goto(s, l)
    PROVE  RunTypeOK'
BY Zenon DEF Goto, RunTypeOK

LEMMA TypeReturn ==
    ASSUME RunTypeOK, NEW s \in Slot, Return(s)
    PROVE  RunTypeOK'
<1>1. /\ pc' \in [Slot -> PC]
      /\ held' \in [Slot -> Job \cup {NoJob}]
      /\ snapshot' \in [Slot -> Nat]
  BY Zenon DEF Return, RunTypeOK, PC
<1>2. /\ outcome' \in [Slot -> Outcome]
      /\ fenced' \in [Slot -> BOOLEAN]
  BY Zenon DEF Return, RunTypeOK, Outcome
<1>3. \A t \in Slot : pc'[t] = "idle" <=> held'[t] = NoJob
  BY Zenon DEF Return, RunTypeOK
<1> QED BY Zenon, <1>1, <1>2, <1>3 DEF RunTypeOK

\* A goroutine that is not idle holds a job of the table.
LEMMA HeldIsJob ==
    ASSUME RunTypeOK, NEW s \in Slot, pc[s] # "idle"
    PROVE  held[s] \in Job
BY Zenon, JobAssumption DEF RunTypeOK

LEMMA TypeWorkerStep ==
    ASSUME TypeOK, NEW s \in Slot, RunStep(s) \/ UpdateHeartbeat(s) \/ LoseLease(s)
    PROVE  TypeOK'
<1>1. CASE CreateAttempt(s)
  <2>1. held[s] \in Job /\ snapshot[s] + 1 \in Nat
    BY <1>1, HeldIsJob DEF CreateAttempt, TypeOK, RunTypeOK
  <2>2. Append(attempts[held[s]], snapshot[s] + 1) \in Seq(Nat)
    BY <2>1 DEF TypeOK, HistoryTypeOK
  <2>3. attempts' \in [Job -> Seq(Nat)]
    BY Zenon, <1>1, <2>1, <2>2 DEF CreateAttempt, TypeOK, HistoryTypeOK
  <2>4. RunTypeOK'
    BY Zenon, <1>1, TypeGoto, TypeReturn DEF CreateAttempt, TypeOK, PC
  <2> QED
    BY Zenon, <1>1, <2>3, <2>4 DEF CreateAttempt, TypeOK, TableTypeOK, HistoryTypeOK, row, effects
<1>2. CASE CheckCredits(s)
  <2>1. CASE Goto(s, "execute")
    BY Zenon, <1>2, <2>1, TypeGoto
       DEF CheckCredits, TypeOK, TableTypeOK, HistoryTypeOK, row, effects, PC
  <2>2. CASE ~Goto(s, "execute")
    <3>1. /\ pc[s] = "gate" /\ pc' = [pc EXCEPT ![s] = "close"]
          /\ outcome' = [outcome EXCEPT ![s] = "denied"]
          /\ UNCHANGED <<held, snapshot, fenced>>
      BY Zenon, <1>2, <2>2 DEF CheckCredits
    <3>2. RunTypeOK'
      BY <3>1 DEF TypeOK, RunTypeOK, PC, Outcome
    <3> QED
      BY Zenon, <1>2, <3>2 DEF CheckCredits, TypeOK, TableTypeOK, HistoryTypeOK, row, effects
  <2> QED BY Zenon, <2>1, <2>2
<1>3. CASE Execute(s)
  <2>1. RunTypeOK'
    BY <1>3 DEF Execute, TypeOK, RunTypeOK, PC, Outcome
  <2> QED
    BY Zenon, <1>3, <2>1 DEF Execute, TypeOK, TableTypeOK, HistoryTypeOK, row, effects
<1>4. CASE CheckLease(s) \/ CompleteAttempt(s)
  <2>1. RunTypeOK'
    BY Zenon, <1>4, TypeGoto, TypeReturn DEF CheckLease, CompleteAttempt, TypeOK, PC
  <2> QED
    BY Zenon, <1>4, <2>1
       DEF CheckLease, CompleteAttempt, TypeOK, TableTypeOK, HistoryTypeOK, row, effects
<1>5. CASE Deduct(s) \/ AlertJobFailure(s)
  <2>1. RunTypeOK'
    BY Zenon, <1>5, TypeGoto, TypeReturn DEF Deduct, AlertJobFailure, TypeOK, PC
  <2>2. charges' \in [Job -> Nat] /\ alerts' \in [Job -> Nat]
    BY <1>5 DEF Deduct, AlertJobFailure, TypeOK, HistoryTypeOK
  <2> QED
    BY Zenon, <1>5, <2>1, <2>2
       DEF Deduct, AlertJobFailure, TypeOK, TableTypeOK, HistoryTypeOK, row
<1>6. CASE Complete(s) \/ Reschedule(s) \/ Fail(s)
  <2>1. RunTypeOK'
    BY Zenon, <1>6, TypeGoto, TypeReturn DEF Complete, Reschedule, Fail, TypeOK, PC
  <2> DEFINE j == held[s]
  <2>j. j \in Job
    BY Zenon, <1>6, HeldIsJob DEF Complete, Reschedule, Fail, TypeOK
  <2> HIDE DEF j
  <2>2. CASE UNCHANGED <<row, deliveries>>
    BY Zenon, <1>6, <2>1, <2>2
       DEF Complete, Reschedule, Fail, TypeOK, TableTypeOK, HistoryTypeOK, row
  <2>3. ASSUME NEW e \in Event, TerminalWrite(j, e) PROVE TypeOK'
    <3>1. attempts' = attempts /\ charges' = charges /\ alerts' = alerts /\ beats' = beats
      BY Zenon, <1>6 DEF Complete, Reschedule, Fail
    <3>2. TableTypeOK'
      BY Zenon, <2>3, <2>j, <3>1 DEF TerminalWrite, TypeOK, TableTypeOK, Event, Status, Terminal
    <3>3. deliveries' \in [Job -> [Event -> Nat]]
      BY <2>3, <2>j DEF TerminalWrite, Enqueue, TypeOK, HistoryTypeOK
    <3> QED BY Zenon, <2>1, <3>1, <3>2, <3>3 DEF TypeOK, HistoryTypeOK
  <2>4. CASE RequeueWrite(j)
    <3>1. attempts' = attempts /\ charges' = charges /\ alerts' = alerts /\ beats' = beats
      BY Zenon, <1>6 DEF Complete, Reschedule, Fail
    <3>2. TableTypeOK'
      BY <2>4, <2>j, <3>1 DEF RequeueWrite, TypeOK, TableTypeOK, Status
    <3> QED BY Zenon, <2>1, <2>4, <3>1, <3>2 DEF RequeueWrite, TypeOK, HistoryTypeOK
  <2> QED
    BY Zenon, <1>6, <2>2, <2>3, <2>4 DEF Complete, Reschedule, Fail, Event, j
<1>7. CASE UpdateHeartbeat(s)
  <2>1. held[s] \in Job
    BY Zenon, <1>7, HeldIsJob DEF UpdateHeartbeat, Heartbeating, TypeOK
  <2> QED
    BY Zenon, <1>7, <2>1
       DEF UpdateHeartbeat, TypeOK, TableTypeOK, HistoryTypeOK, RunTypeOK, row, run,
           effects
<1>8. CASE LoseLease(s)
  <2>1. RunTypeOK'
    BY Zenon, <1>8 DEF LoseLease, TypeOK, RunTypeOK
  <2> QED
    BY Zenon, <1>8, <2>1 DEF LoseLease, TypeOK, TableTypeOK, HistoryTypeOK, row, effects
<1> QED
  BY Zenon, <1>1, <1>2, <1>3, <1>4, <1>5, <1>6, <1>7, <1>8 DEF RunStep

\* Every variable of the job table, of the sidecar, of the history and of the
\* goroutines keeps its type, whatever stalls, crashes or fails.
THEOREM TypeCorrect == Spec => []TypeOK
<1>1. Init => TypeOK
  BY DEF Init, TypeOK, TableTypeOK, HistoryTypeOK, RunTypeOK, Status, Event, PC, Outcome
<1>2. TypeOK /\ [Next]_vars => TypeOK'
  <2> SUFFICES ASSUME TypeOK, [Next]_vars PROVE TypeOK'
    BY Zenon
  <2> USE DEF TypeOK
  <2>1. ASSUME NEW j \in Job,
               Create(j) \/ Cancel(j) \/ BecomeDue(j) \/ GoStale(j) \/ WriteHeartbeat(j)
        PROVE  TypeOK'
    <3>1. TableTypeOK'
      BY Zenon, <2>1 DEF TableTypeOK, Create, Cancel, BecomeDue, GoStale, WriteHeartbeat,
                  Status, Terminal
    <3>2. HistoryTypeOK' /\ RunTypeOK'
      BY Zenon, <2>1 DEF HistoryTypeOK, RunTypeOK, Create, Cancel, BecomeDue, GoStale,
                  WriteHeartbeat, effects, run
    <3> QED BY Zenon, <3>1, <3>2
  <2>2. ASSUME NEW w \in Worker, Claim(w)
        PROVE  TypeOK'
    <3>1. TableTypeOK' /\ HistoryTypeOK'
      BY <2>2 DEF TableTypeOK, HistoryTypeOK, Claim, Seeded, effects, Status
    <3>2. RunTypeOK'
      BY <2>2, JobAssumption
         DEF TableTypeOK, RunTypeOK, Claim, Assignments, FreeSlots, Claimable, PC
    <3> QED BY Zenon, <3>1, <3>2
  <2>3. ASSUME NEW w \in Worker, Crash(w)
        PROVE  TypeOK'
    <3>1. RunTypeOK'
      BY Zenon, <2>3 DEF RunTypeOK, Crash, PC, Outcome
    <3> QED
      BY Zenon, <2>3, <3>1 DEF TableTypeOK, HistoryTypeOK, Crash, row, effects
  <2>4. CASE RescheduleStale
    <3>1. status' \in [Job -> Status \cup {"absent"}] /\ retry_count' \in [Job -> Nat]
      BY <2>4 DEF RescheduleStale, Retried, TableTypeOK, Status
    <3>2. heartbeat' \in [Job -> {"none", "fresh", "stale"}]
      BY Zenon, <2>4 DEF RescheduleStale, TableTypeOK
    <3> QED
      BY <2>4, <3>1, <3>2 DEF RescheduleStale, TableTypeOK, HistoryTypeOK, RunTypeOK, effects, run
  <2>5. CASE FailStale
    <3>1. status' \in [Job -> Status \cup {"absent"}]
      BY Zenon, <2>5 DEF FailStale, TableTypeOK, Status, Terminal
    <3>2. heartbeat' \in [Job -> {"none", "fresh", "stale"}]
      BY Zenon, <2>5 DEF FailStale, TableTypeOK
    <3> QED
      BY <2>5, <3>1, <3>2 DEF FailStale, TableTypeOK, HistoryTypeOK, RunTypeOK, effects, run
  <2>6. CASE UNCHANGED vars
    BY Zenon, <2>6 DEF vars, TableTypeOK, HistoryTypeOK, RunTypeOK
  <2> QED
    BY Zenon, <2>1, <2>2, <2>3, <2>4, <2>5, <2>6, TypeWorkerStep DEF Next
<1> QED BY <1>1, <1>2, PTL DEF Spec

-----------------------------------------------------------------------------
(* Attempt numbers *)

\* A run's snapshot never exceeds the row's retry_count, and is behind it by
\* the time the job can be claimed again; so are the numbers in the history.
SnapshotsOld ==
    \A s \in Slot, j \in Job : held[s] = j =>
        /\ status[j] # "absent"
        /\ snapshot[s] <= retry_count[j]
        /\ status[j] = "pending" => snapshot[s] < retry_count[j]

NumbersOld ==
    \A j \in Job : \A i \in 1..Len(attempts[j]) :
        /\ status[j] # "absent"
        /\ attempts[j][i] > 0
        /\ attempts[j][i] <= retry_count[j] + 1
        /\ status[j] = "pending" => attempts[j][i] <= retry_count[j]

\* A run that has not opened its attempt yet has a number nobody has used.
NumberFree ==
    \A s \in Slot, j \in Job : held[s] = j /\ pc[s] = "attempt" =>
        \A i \in 1..Len(attempts[j]) : attempts[j][i] # snapshot[s] + 1

NumberingInv ==
    /\ SnapshotsOld
    /\ NumbersOld
    /\ NumberFree
    /\ DistinctAttempts
    /\ AttemptNumUnique

\* What a step other than Claim and CreateAttempt does to the rows and the
\* runs: rows appear, end or are requeued with one retry more; runs end.
RowStep(j) ==
    \/ status'[j] = status[j] /\ retry_count'[j] = retry_count[j]
    \/ status[j] = "absent" /\ status'[j] = "pending" /\ retry_count'[j] = retry_count[j]
    \/ status[j] # "absent" /\ status'[j] \in Terminal /\ retry_count'[j] = retry_count[j]
    \/ status[j] # "absent" /\ status'[j] = "pending" /\ retry_count'[j] = retry_count[j] + 1

RunEnds(s) ==
    \/ held'[s] = NoJob /\ pc'[s] = "idle"
    \/ /\ held'[s] = held[s]
       /\ snapshot'[s] = snapshot[s]
       /\ pc'[s] = "attempt" => pc[s] = "attempt"

OrdinaryStep ==
    /\ attempts' = attempts
    /\ \A j \in Job : RowStep(j)
    /\ \A s \in Slot : RunEnds(s)

LEMMA StepKinds ==
    ASSUME TypeOK, SnapshotsOld, [Next]_vars
    PROVE  \/ OrdinaryStep
           \/ \E w \in Worker : Claim(w)
           \/ \E s \in Slot : CreateAttempt(s)
<1> USE DEF OrdinaryStep
<1>1. ASSUME NEW j \in Job,
             Create(j) \/ Cancel(j) \/ BecomeDue(j) \/ GoStale(j) \/ WriteHeartbeat(j)
      PROVE  OrdinaryStep
  BY Zenon, <1>1 DEF TypeOK, TableTypeOK, RowStep, RunEnds, Create, Cancel, BecomeDue, GoStale,
              WriteHeartbeat, run, Terminal
<1>2. ASSUME NEW w \in Worker, Crash(w)
      PROVE  OrdinaryStep
  BY Zenon, <1>2 DEF TypeOK, RunTypeOK, RowStep, RunEnds, Crash, row
<1>3. ASSUME NEW s \in Slot, Goto(s, "execute") \/ Goto(s, "deduct") \/ Goto(s, "close")
                             \/ Goto(s, "outcome") \/ Goto(s, "alert") \/ Return(s)
      PROVE  \A t \in Slot : RunEnds(t)
  BY <1>3 DEF TypeOK, RunTypeOK, RunEnds, Goto, Return
<1>4. ASSUME NEW s \in Slot,
             \/ CheckCredits(s) \/ Execute(s) \/ CheckLease(s) \/ Deduct(s)
             \/ CompleteAttempt(s) \/ AlertJobFailure(s)
             \/ UpdateHeartbeat(s) \/ LoseLease(s)
      PROVE  OrdinaryStep
  <2>1. UNCHANGED <<status, retry_count, attempts>>
    BY Zenon, <1>4 DEF CheckCredits, Execute, CheckLease, Deduct, CompleteAttempt,
                AlertJobFailure, UpdateHeartbeat, LoseLease, row
  <2>2. \A t \in Slot : RunEnds(t)
    <3>1. CASE CheckLease(s) \/ Deduct(s) \/ CompleteAttempt(s) \/ AlertJobFailure(s)
      BY Zenon, <3>1, <1>3 DEF CheckLease, Deduct, CompleteAttempt, AlertJobFailure
    <3>2. CASE CheckCredits(s)
      BY Zenon, <3>2, <1>3 DEF CheckCredits, TypeOK, RunTypeOK, RunEnds
    <3>3. CASE Execute(s) \/ UpdateHeartbeat(s) \/ LoseLease(s)
      BY Zenon, <3>3 DEF Execute, UpdateHeartbeat, LoseLease, run, TypeOK, RunTypeOK, RunEnds
    <3> QED BY Zenon, <1>4, <3>1, <3>2, <3>3
  <2> QED BY Zenon, <2>1, <2>2 DEF RowStep
<1>5. ASSUME NEW s \in Slot, Complete(s) \/ Reschedule(s) \/ Fail(s)
      PROVE  OrdinaryStep
  <2>1. attempts' = attempts /\ \A t \in Slot : RunEnds(t)
    BY Zenon, <1>5, <1>3 DEF Complete, Reschedule, Fail
  <2>2. held[s] \in Job /\ status[held[s]] # "absent"
    BY Zenon, <1>5, HeldIsJob DEF Complete, Reschedule, Fail, TypeOK, SnapshotsOld
  <2>3. ASSUME NEW e \in Event, TerminalWrite(held[s], e)
        PROVE  \A j \in Job : RowStep(j)
    BY Zenon, <2>2, <2>3 DEF TerminalWrite, TypeOK, TableTypeOK, RowStep, Event, Terminal
  <2>4. CASE RequeueWrite(held[s])
    BY ZenonT(30), <2>1, <2>2, <2>4 DEF RequeueWrite, TypeOK, TableTypeOK, RowStep
  <2>5. CASE UNCHANGED <<row, deliveries>>
    BY Zenon, <2>1, <2>5 DEF row, RowStep
  <2> QED
    BY Zenon, <1>5, <2>1, <2>3, <2>4, <2>5 DEF Complete, Reschedule, Fail, Event
<1>6. CASE RescheduleStale
  BY <1>6 DEF RescheduleStale, Retried, Stale, TypeOK, TableTypeOK, RowStep, RunEnds, run
<1>7. CASE FailStale
  BY <1>7 DEF FailStale, Stale, TypeOK, TableTypeOK, RowStep, RunEnds, run, Terminal
<1>8. CASE UNCHANGED vars
  BY Zenon, <1>8 DEF vars, RowStep, RunEnds
<1> QED
  BY Zenon, <1>1, <1>2, <1>4, <1>5, <1>6, <1>7, <1>8 DEF Next, RunStep

LEMMA NumberingOrdinary ==
    ASSUME TypeOK, NumberingInv, OrdinaryStep
    PROVE  NumberingInv'
<1>1. SnapshotsOld'
  <2> SUFFICES ASSUME NEW s \in Slot, NEW j \in Job, held'[s] = j
               PROVE  /\ status'[j] # "absent"
                      /\ snapshot'[s] <= retry_count'[j]
                      /\ status'[j] = "pending" => snapshot'[s] < retry_count'[j]
    BY Zenon DEF SnapshotsOld
  <2>1. held[s] = j /\ snapshot'[s] = snapshot[s]
    BY Zenon, JobAssumption DEF OrdinaryStep, RunEnds
  <2>2. snapshot[s] \in Nat /\ retry_count[j] \in Nat
    BY Zenon DEF TypeOK, TableTypeOK, RunTypeOK
  <2>3. /\ status[j] # "absent"
        /\ snapshot[s] <= retry_count[j]
        /\ status[j] = "pending" => snapshot[s] < retry_count[j]
    BY Zenon, <2>1 DEF NumberingInv, SnapshotsOld
  <2>4. RowStep(j)
    BY Zenon DEF OrdinaryStep
  <2> QED BY <2>1, <2>2, <2>3, <2>4 DEF RowStep, Terminal
<1>2. NumbersOld'
  <2> SUFFICES ASSUME NEW j \in Job, NEW i \in 1..Len(attempts[j])
               PROVE  /\ status'[j] # "absent"
                      /\ attempts[j][i] > 0
                      /\ attempts[j][i] <= retry_count'[j] + 1
                      /\ status'[j] = "pending" => attempts[j][i] <= retry_count'[j]
    BY Zenon DEF NumbersOld, OrdinaryStep
  <2>1. attempts[j][i] \in Nat /\ retry_count[j] \in Nat
    BY DEF TypeOK, TableTypeOK, HistoryTypeOK
  <2>2. /\ status[j] # "absent"
        /\ attempts[j][i] > 0
        /\ attempts[j][i] <= retry_count[j] + 1
        /\ status[j] = "pending" => attempts[j][i] <= retry_count[j]
    BY Zenon DEF NumberingInv, NumbersOld
  <2>3. RowStep(j)
    BY Zenon DEF OrdinaryStep
  <2>4. attempts[j][i] <= retry_count[j] + 1 + 1
    BY <2>1, <2>2
  <2> QED BY Zenon, <2>2, <2>3, <2>4 DEF RowStep, Terminal
<1>3. NumberFree'
  <2> SUFFICES ASSUME NEW s \in Slot, NEW j \in Job, held'[s] = j, pc'[s] = "attempt",
                      NEW i \in 1..Len(attempts[j])
               PROVE  attempts[j][i] # snapshot'[s] + 1
    BY Zenon DEF NumberFree, OrdinaryStep
  <2>1. held[s] = j /\ pc[s] = "attempt" /\ snapshot'[s] = snapshot[s]
    BY Zenon, JobAssumption DEF OrdinaryStep, RunEnds
  <2> QED BY Zenon, <2>1 DEF NumberingInv, NumberFree
<1>4. DistinctAttempts'
  BY DEF NumberingInv, DistinctAttempts, OrdinaryStep, RunEnds
<1>5. AttemptNumUnique'
  BY ZenonT(30) DEF NumberingInv, AttemptNumUnique, OrdinaryStep
<1> QED BY Zenon, <1>1, <1>2, <1>3, <1>4, <1>5 DEF NumberingInv

\* The jobs of batch turn running, and the goroutines in started take them on.
Claimed(batch, started) ==
    /\ \A j \in batch : status[j] = "pending" /\ status'[j] = "running"
    /\ \A j \in Job \ batch : status'[j] = status[j]
    /\ \A s \in started : /\ pc[s] = "idle" /\ pc'[s] = "attempt"
                         /\ held'[s] \in batch
                         /\ snapshot'[s] = retry_count[held'[s]]
    /\ \A s, t \in started : held'[s] = held'[t] => s = t
    /\ \A s \in Slot \ started : /\ pc'[s] = pc[s] /\ held'[s] = held[s]
                                /\ snapshot'[s] = snapshot[s]
    /\ retry_count' = retry_count
    /\ attempts' = attempts

\* What Claim does to the goroutines, in terms of the batch.
LEMMA ClaimEffect ==
    ASSUME TypeOK, NEW w \in Worker, Claim(w)
    PROVE  \E batch \in SUBSET Job, started \in SUBSET Slot : Claimed(batch, started)
<1>1. PICK batch \in SUBSET Claimable :
         /\ status' = [j \in Job |-> IF j \in batch THEN "running" ELSE status[j]]
         /\ \E f \in Assignments(w, batch) :
              LET Started(s) == s \in FreeSlots(w) /\ f[s] # NoJob
              IN  /\ pc' = [s \in Slot |-> IF Started(s) THEN "attempt" ELSE pc[s]]
                  /\ held' = [s \in Slot |-> IF Started(s) THEN f[s] ELSE held[s]]
                  /\ snapshot' = [s \in Slot |-> IF Started(s) THEN retry_count[f[s]]
                                                             ELSE snapshot[s]]
         /\ retry_count' = retry_count /\ attempts' = attempts
  BY Zenon DEF Claim
<1>2. PICK f \in Assignments(w, batch) :
         /\ pc' = [s \in Slot |-> IF s \in FreeSlots(w) /\ f[s] # NoJob
                                   THEN "attempt" ELSE pc[s]]
         /\ held' = [s \in Slot |-> IF s \in FreeSlots(w) /\ f[s] # NoJob
                                     THEN f[s] ELSE held[s]]
         /\ snapshot' = [s \in Slot |-> IF s \in FreeSlots(w) /\ f[s] # NoJob
                                         THEN retry_count[f[s]] ELSE snapshot[s]]
  BY Zenon, <1>1
<1> DEFINE started == {s \in Slot : s \in FreeSlots(w) /\ f[s] # NoJob}
<1>3. batch \in SUBSET Job /\ \A j \in batch : status[j] = "pending" /\ status'[j] = "running"
  BY Zenon, <1>1 DEF Claimable
<1>4. \A j \in Job \ batch : status'[j] = status[j]
  BY Zenon, <1>1
<1>5. \A s \in started : /\ pc[s] = "idle" /\ pc'[s] = "attempt"
                         /\ held'[s] = f[s] /\ f[s] \in batch
                         /\ snapshot'[s] = retry_count[held'[s]]
  BY Zenon, <1>2 DEF Assignments, FreeSlots
<1>6. \A s, t \in started : held'[s] = held'[t] => s = t
  BY <1>5 DEF Assignments
<1>7. \A s \in Slot \ started : /\ pc'[s] = pc[s] /\ held'[s] = held[s]
                                /\ snapshot'[s] = snapshot[s]
  BY Zenon, <1>2
<1> HIDE DEF started
<1> batch \in SUBSET Job /\ started \in SUBSET Slot
  BY Zenon, <1>3 DEF started
<1> WITNESS batch \in SUBSET Job, started \in SUBSET Slot
<1> QED BY Zenon, <1>1, <1>3, <1>4, <1>5, <1>6, <1>7 DEF Claimed

LEMMA NumberingClaim ==
    ASSUME TypeOK, NumberingInv, NEW w \in Worker, Claim(w)
    PROVE  NumberingInv'
<1>0. PICK batch \in SUBSET Job, started \in SUBSET Slot : Claimed(batch, started)
  BY Zenon, ClaimEffect
<1>1. /\ \A j \in batch : status[j] = "pending" /\ status'[j] = "running"
      /\ \A j \in Job \ batch : status'[j] = status[j]
      /\ \A s \in started : /\ pc[s] = "idle" /\ pc'[s] = "attempt"
                           /\ held'[s] \in batch
                           /\ snapshot'[s] = retry_count[held'[s]]
      /\ \A s, t \in started : held'[s] = held'[t] => s = t
      /\ \A s \in Slot \ started : /\ pc'[s] = pc[s] /\ held'[s] = held[s]
                                  /\ snapshot'[s] = snapshot[s]
      /\ retry_count' = retry_count
      /\ attempts' = attempts
  BY Zenon, <1>0 DEF Claimed
<1>2. SnapshotsOld'
  <2> SUFFICES ASSUME NEW s \in Slot, NEW j \in Job, held'[s] = j
               PROVE  /\ status'[j] # "absent"
                      /\ snapshot'[s] <= retry_count'[j]
                      /\ status'[j] = "pending" => snapshot'[s] < retry_count'[j]
    BY Zenon DEF SnapshotsOld
  <2>1. retry_count[j] \in Nat
    BY Zenon DEF TypeOK, TableTypeOK
  <2>2. CASE s \in started
    BY <1>1, <2>1, <2>2
  <2>3. CASE s \notin started
    BY <1>1, <2>1, <2>3 DEF NumberingInv, SnapshotsOld
  <2> QED BY Zenon, <2>2, <2>3
<1>3. NumbersOld'
  BY <1>1 DEF NumberingInv, NumbersOld
<1>4. NumberFree'
  <2> SUFFICES ASSUME NEW s \in Slot, NEW j \in Job, held'[s] = j, pc'[s] = "attempt",
                      NEW i \in 1..Len(attempts[j])
               PROVE  attempts[j][i] # snapshot'[s] + 1
    BY <1>1 DEF NumberFree
  <2>1. CASE s \in started
    <3>1. attempts[j][i] \in Nat /\ retry_count[j] \in Nat
      BY DEF TypeOK, TableTypeOK, HistoryTypeOK
    <3>2. attempts[j][i] <= retry_count[j] /\ snapshot'[s] = retry_count[j]
      BY <1>1, <2>1 DEF NumberingInv, NumbersOld
    <3> QED BY <3>1, <3>2
  <2>2. CASE s \notin started
    BY <1>1, <2>2 DEF NumberingInv, NumberFree
  <2> QED BY Zenon, <2>1, <2>2
<1>5. DistinctAttempts'
  <2> SUFFICES ASSUME NEW s \in Slot, NEW t \in Slot, s # t, held'[s] # NoJob,
                      held'[s] = held'[t]
               PROVE  snapshot'[s] # snapshot'[t]
    BY Zenon DEF DistinctAttempts
  <2>1. \A u, v \in Slot : u \in started /\ v \notin started /\ held'[u] = held'[v]
                            => snapshot'[u] # snapshot'[v]
    <3> SUFFICES ASSUME NEW u \in started, NEW v \in Slot \ started, held'[u] = held'[v]
                 PROVE  snapshot'[u] # snapshot'[v]
      BY Zenon
    <3>1. /\ held'[u] \in Job /\ held[v] = held'[u] /\ status[held'[u]] = "pending"
          /\ snapshot'[u] = retry_count[held'[u]] /\ snapshot'[v] = snapshot[v]
      BY Zenon, <1>1
    <3>2. snapshot[v] < retry_count[held'[u]]
      BY Zenon, <3>1 DEF NumberingInv, SnapshotsOld
    <3>3. snapshot[v] \in Nat /\ retry_count[held'[u]] \in Nat
      BY Zenon, <3>1 DEF TypeOK, TableTypeOK, RunTypeOK
    <3> QED BY <3>1, <3>2, <3>3
  <2>2. CASE s \in started /\ t \in started
    BY <1>1, <2>2
  <2>3. CASE s \notin started /\ t \notin started
    BY <1>1, <2>3 DEF NumberingInv, DistinctAttempts
  <2> QED BY Zenon, <2>1, <2>2, <2>3
<1>6. AttemptNumUnique'
  BY <1>1 DEF NumberingInv, AttemptNumUnique
<1> QED BY Zenon, <1>2, <1>3, <1>4, <1>5, <1>6 DEF NumberingInv

LEMMA NumberingCreateAttempt ==
    ASSUME TypeOK, NumberingInv, NEW s \in Slot, CreateAttempt(s)
    PROVE  NumberingInv'
<1> DEFINE j == held[s]
           n == snapshot[s] + 1
           L == Len(attempts[j])
<1>1. /\ j \in Job /\ n \in Nat /\ L \in Nat
      /\ pc[s] = "attempt"
      /\ attempts[j] \in Seq(Nat)
  BY HeldIsJob DEF CreateAttempt, TypeOK, RunTypeOK, HistoryTypeOK
<1>2. UNCHANGED <<status, retry_count>>
  BY Zenon DEF CreateAttempt, row
<1>3. \A t \in Slot : RunEnds(t) /\ (t = s => pc'[t] # "attempt")
  BY DEF CreateAttempt, Goto, Return, RunEnds, TypeOK, RunTypeOK
<1>4. CASE attempts' = attempts
  <2>1. OrdinaryStep
    BY Zenon, <1>2, <1>3, <1>4 DEF OrdinaryStep, RowStep
  <2> QED BY Zenon, <2>1, NumberingOrdinary
<1>5. CASE attempts' = [attempts EXCEPT ![j] = Append(attempts[j], n)]
  <2>1. \A k \in Job : k # j => attempts'[k] = attempts[k]
    BY Zenon, <1>5 DEF TypeOK, HistoryTypeOK
  <2>2. attempts'[j] = Append(attempts[j], n)
    BY ZenonT(30), <1>1, <1>5 DEF TypeOK, HistoryTypeOK
  <2>3. /\ Len(attempts'[j]) = L + 1
        /\ attempts'[j][L + 1] = n
        /\ \A i \in 1..L : attempts'[j][i] = attempts[j][i]
    BY <1>1, <2>2
  <2>4. \A i \in 1..L : attempts[j][i] # n
    BY Zenon, <1>1 DEF NumberingInv, NumberFree
  <2>5. /\ status[j] # "absent"
        /\ n > 0
        /\ n <= retry_count[j] + 1
        /\ status[j] = "pending" => n <= retry_count[j]
    <3>1. snapshot[s] \in Nat /\ retry_count[j] \in Nat
      BY Zenon, <1>1 DEF TypeOK, TableTypeOK, RunTypeOK
    <3>2. /\ status[j] # "absent"
          /\ snapshot[s] <= retry_count[j]
          /\ status[j] = "pending" => snapshot[s] < retry_count[j]
      BY Zenon, <1>1 DEF NumberingInv, SnapshotsOld
    <3> QED BY <3>1, <3>2
  <2>6. \A t \in Slot : t # s /\ held[t] = j => snapshot[t] + 1 # n
    <3> SUFFICES ASSUME NEW t \in Slot, t # s, held[t] = j PROVE snapshot[t] + 1 # n
      BY Zenon
    <3>1. snapshot[t] # snapshot[s]
      BY Zenon, <1>1, JobAssumption DEF NumberingInv, DistinctAttempts
    <3> QED BY SMTT(30), <3>1 DEF TypeOK, RunTypeOK
  <2>7. SnapshotsOld'
    BY <1>2, <1>3, JobAssumption DEF NumberingInv, SnapshotsOld, RunEnds
  <2> HIDE DEF j, n, L
  <2>8. NumbersOld'
    <3> SUFFICES ASSUME NEW k \in Job, NEW i \in 1..Len(attempts'[k])
                 PROVE  /\ status[k] # "absent"
                        /\ attempts'[k][i] > 0
                        /\ attempts'[k][i] <= retry_count[k] + 1
                        /\ status[k] = "pending" => attempts'[k][i] <= retry_count[k]
      BY Zenon, <1>2 DEF NumbersOld
    <3>1. CASE k # j
      BY Zenon, <2>1, <3>1 DEF NumberingInv, NumbersOld
    <3>2. CASE k = j /\ i \in 1..L
      BY Zenon, <2>3, <3>2 DEF NumberingInv, NumbersOld, L
    <3>3. CASE k = j /\ i = L + 1
      BY ZenonT(30), <2>3, <2>5, <3>3
    <3> QED BY <1>1, <2>3, <3>1, <3>2, <3>3
  <2>9. NumberFree'
    <3> SUFFICES ASSUME NEW t \in Slot, NEW k \in Job, held'[t] = k, pc'[t] = "attempt",
                        NEW i \in 1..Len(attempts'[k])
                 PROVE  attempts'[k][i] # snapshot'[t] + 1
      BY Zenon DEF NumberFree
    <3>1. t # s /\ pc[t] = "attempt" /\ held[t] = k /\ snapshot'[t] = snapshot[t]
      BY Zenon, <1>3, JobAssumption DEF RunEnds
    <3>2. CASE k # j
      BY <2>1, <3>1, <3>2 DEF NumberingInv, NumberFree
    <3>3. CASE k = j /\ i \in 1..L
      BY <2>3, <3>1, <3>3 DEF NumberingInv, NumberFree, L
    <3>4. CASE k = j /\ i = L + 1
      BY Zenon, <2>3, <2>6, <3>1, <3>4
    <3> QED BY <1>1, <2>3, <3>2, <3>3, <3>4
  <2>10. DistinctAttempts'
    BY <1>3 DEF NumberingInv, DistinctAttempts, RunEnds
  <2>11. AttemptNumUnique'
    <3> SUFFICES ASSUME NEW k \in Job, NEW a \in 1..Len(attempts'[k]),
                        NEW b \in 1..Len(attempts'[k]), attempts'[k][a] = attempts'[k][b]
                 PROVE  a = b
      BY Zenon DEF AttemptNumUnique
    <3>1. CASE k # j
      BY Zenon, <2>1, <3>1 DEF NumberingInv, AttemptNumUnique
    <3>2. CASE k = j /\ a \in 1..L /\ b \in 1..L
      BY Zenon, <2>3, <3>2 DEF NumberingInv, AttemptNumUnique, L
    <3>3. CASE k = j /\ (a = L + 1 \/ b = L + 1)
      BY <1>1, <2>3, <2>4, <3>3
    <3> QED BY <1>1, <2>3, <3>1, <3>2, <3>3
  <2> QED BY Zenon, <2>7, <2>8, <2>9, <2>10, <2>11 DEF NumberingInv
<1> QED BY Zenon, <1>4, <1>5 DEF CreateAttempt

THEOREM NumberingInvariant == Spec => []NumberingInv
<1>1. Init => NumberingInv
  BY JobAssumption DEF Init, NumberingInv, SnapshotsOld, NumbersOld, NumberFree,
         DistinctAttempts, AttemptNumUnique
<1>2. TypeOK /\ NumberingInv /\ [Next]_vars => NumberingInv'
  BY Zenon, StepKinds, NumberingOrdinary, NumberingClaim, NumberingCreateAttempt
     DEF NumberingInv
<1> QED BY <1>1, <1>2, TypeCorrect, PTL DEF Spec

\* No attempt number is ever used twice, however workers stall and overlap: the
\* property the dropped UNIQUE(job_id, attempt_num) used to enforce.
THEOREM AttemptNumbersUnique == Spec => []AttemptNumUnique
<1>1. NumberingInv => AttemptNumUnique
  BY Zenon DEF NumberingInv
<1> QED BY <1>1, NumberingInvariant, PTL

\* No two goroutines ever run the same attempt of a job.
THEOREM RunsAreDistinct == Spec => []DistinctAttempts
<1>1. NumberingInv => DistinctAttempts
  BY Zenon DEF NumberingInv
<1> QED BY <1>1, NumberingInvariant, PTL

-----------------------------------------------------------------------------
(* The heartbeat sidecar and the outbox *)

\* A step gives a job a heartbeat row, keeps the one it has, or finds the job
\* not running afterwards; and it completes no job without queueing its event.
SidecarStep(j) ==
    \/ heartbeat'[j] # "none"
    \/ status'[j] # "running"
    \/ heartbeat'[j] = heartbeat[j] /\ status'[j] = status[j]

OutboxStep(j) ==
    /\ deliveries'[j]["completed"] >= deliveries[j]["completed"]
    /\ \/ status'[j] # "completed"
       \/ status'[j] = status[j]
       \/ deliveries'[j]["completed"] > 0

LEMMA StepsKeepRecords ==
    ASSUME TypeOK, [Next]_vars, NEW j \in WebhookJobs
    PROVE  OutboxStep(j)
<1>1. j \in Job
  BY Zenon, JobAssumption
<1>2. deliveries[j]["completed"] \in Nat
  BY Zenon, <1>1 DEF TypeOK, HistoryTypeOK, Event
<1>3. ASSUME deliveries' = deliveries, status'[j] \in {status[j], "pending", "running", "failed", "cancelled"}
      PROVE  OutboxStep(j)
  BY <1>2, <1>3 DEF OutboxStep
<1>4. ASSUME NEW k \in Job,
             Create(k) \/ Cancel(k) \/ BecomeDue(k) \/ GoStale(k) \/ WriteHeartbeat(k)
      PROVE  OutboxStep(j)
  BY Zenon, <1>1, <1>3, <1>4 DEF TypeOK, TableTypeOK, Create, Cancel, BecomeDue, GoStale,
                          WriteHeartbeat, effects
<1>5. ASSUME NEW w \in Worker, Claim(w) \/ Crash(w)
      PROVE  OutboxStep(j)
  BY Zenon, <1>1, <1>3, <1>5 DEF Claim, Crash, effects, row
<1>6. ASSUME NEW s \in Slot,
             \/ CreateAttempt(s) \/ CheckCredits(s) \/ Execute(s) \/ CheckLease(s)
             \/ Deduct(s) \/ CompleteAttempt(s) \/ AlertJobFailure(s)
             \/ UpdateHeartbeat(s) \/ LoseLease(s)
      PROVE  OutboxStep(j)
  BY Zenon, <1>3, <1>6 DEF CreateAttempt, CheckCredits, Execute, CheckLease, Deduct,
                    CompleteAttempt, AlertJobFailure, UpdateHeartbeat, LoseLease,
                    effects, row
<1>7. ASSUME NEW s \in Slot, Complete(s) \/ Reschedule(s) \/ Fail(s)
      PROVE  OutboxStep(j)
  <2>1. CASE UNCHANGED <<row, deliveries>>
    BY Zenon, <1>3, <2>1 DEF row
  <2>2. CASE RequeueWrite(held[s])
    BY Zenon, <1>1, <1>3, <2>2 DEF RequeueWrite, TypeOK, TableTypeOK
  <2>3. ASSUME NEW e \in Event, TerminalWrite(held[s], e)
        PROVE  OutboxStep(j)
    <3>1. CASE held[s] # j
      <4>1. status'[j] = status[j]
        BY Zenon, <1>1, <2>3, <3>1 DEF TerminalWrite, TypeOK, TableTypeOK
      <4>2. deliveries'[j] = deliveries[j]
        BY Zenon, <1>1, <2>3, <3>1 DEF TerminalWrite, Enqueue, TypeOK, HistoryTypeOK
      <4> QED BY <1>2, <4>1, <4>2 DEF OutboxStep
    <3>2. CASE held[s] = j
      <4>1. deliveries' = [deliveries EXCEPT ![j][e] = deliveries[j][e] + 1]
        BY Zenon, <2>3, <3>2 DEF TerminalWrite, Enqueue
      <4>2. status'[j] = e
        BY Zenon, <1>1, <2>3, <3>2 DEF TerminalWrite, TypeOK, TableTypeOK
      <4>3. deliveries[j] \in [Event -> Nat]
        BY Zenon, <1>1 DEF TypeOK, HistoryTypeOK
      <4>4. deliveries'[j] = [deliveries[j] EXCEPT ![e] = deliveries[j][e] + 1]
        BY Zenon, <1>1, <4>1 DEF TypeOK, HistoryTypeOK
      <4> QED BY <1>2, <4>2, <4>3, <4>4 DEF OutboxStep, Event
    <3> QED BY Zenon, <3>1, <3>2
  <2> QED
    BY Zenon, <1>7, <2>1, <2>2, <2>3 DEF Complete, Reschedule, Fail, Event
<1>8. CASE RescheduleStale \/ FailStale
  BY Zenon, <1>1, <1>3, <1>8 DEF RescheduleStale, FailStale, effects
<1>9. CASE UNCHANGED vars
  BY Zenon, <1>3, <1>9 DEF vars
<1> QED
  BY Zenon, <1>4, <1>5, <1>6, <1>7, <1>8, <1>9 DEF Next, RunStep

LEMMA StepsKeepSidecar ==
    ASSUME TypeOK, [Next]_vars, NEW j \in Job
    PROVE  SidecarStep(j)
<1>1. ASSUME NEW k \in Job,
             Create(k) \/ Cancel(k) \/ BecomeDue(k) \/ GoStale(k) \/ WriteHeartbeat(k)
      PROVE  SidecarStep(j)
  BY ZenonT(30), <1>1 DEF SidecarStep, TypeOK, TableTypeOK, Create, Cancel, BecomeDue, GoStale,
              WriteHeartbeat
<1>2. ASSUME NEW w \in Worker, Claim(w) \/ Crash(w)
      PROVE  SidecarStep(j)
  BY Zenon, <1>2 DEF SidecarStep, Claim, Seeded, Crash, row
<1>3. ASSUME NEW s \in Slot,
             \/ CreateAttempt(s) \/ CheckCredits(s) \/ Execute(s) \/ CheckLease(s)
             \/ Deduct(s) \/ CompleteAttempt(s) \/ AlertJobFailure(s)
             \/ UpdateHeartbeat(s) \/ LoseLease(s)
      PROVE  SidecarStep(j)
  BY Zenon, <1>3 DEF CreateAttempt, CheckCredits, Execute, CheckLease, Deduct,
              CompleteAttempt, AlertJobFailure, UpdateHeartbeat, LoseLease,
              SidecarStep, row
<1>4. ASSUME NEW s \in Slot, Complete(s) \/ Reschedule(s) \/ Fail(s)
      PROVE  SidecarStep(j)
  <2>1. CASE UNCHANGED <<row, deliveries>>
    BY Zenon, <2>1 DEF row, SidecarStep
  <2>2. CASE RequeueWrite(held[s])
    BY Zenon, <2>2 DEF RequeueWrite, SidecarStep, TypeOK, TableTypeOK
  <2>3. ASSUME NEW e \in Event, TerminalWrite(held[s], e)
        PROVE  SidecarStep(j)
    BY Zenon, <2>3 DEF TerminalWrite, SidecarStep, TypeOK, TableTypeOK, Event
  <2> QED
    BY Zenon, <1>4, <2>1, <2>2, <2>3 DEF Complete, Reschedule, Fail, Event
<1>5. CASE RescheduleStale \/ FailStale
  BY Zenon, <1>5 DEF RescheduleStale, FailStale, SidecarStep
<1>6. CASE UNCHANGED vars
  BY Zenon, <1>6 DEF vars, SidecarStep
<1> QED
  BY Zenon, <1>1, <1>2, <1>3, <1>4, <1>5, <1>6 DEF Next, RunStep

\* A running job always has the heartbeat row by which the reaper finds it,
\* although outcome writes of earlier owners delete rows by job id alone.
THEOREM RunningJobsHaveHeartbeats == Spec => []RunningHasHeartbeat
<1>1. Init => RunningHasHeartbeat
  BY Zenon DEF Init, RunningHasHeartbeat
<1>2. TypeOK /\ RunningHasHeartbeat /\ [Next]_vars => RunningHasHeartbeat'
  BY Zenon, StepsKeepSidecar DEF RunningHasHeartbeat, SidecarStep
<1> QED BY <1>1, <1>2, TypeCorrect, PTL DEF Spec

\* A completed job with a webhook has its event in the outbox.
THEOREM CompletedJobsHaveDeliveries == Spec => []CompletedHasDelivery
<1>1. Init => CompletedHasDelivery
  BY ZenonT(30), JobAssumption DEF Init, CompletedHasDelivery
<1>2. TypeOK /\ TypeOK' /\ CompletedHasDelivery /\ [Next]_vars => CompletedHasDelivery'
  <2> SUFFICES ASSUME TypeOK, TypeOK', CompletedHasDelivery, [Next]_vars, NEW j \in WebhookJobs,
                      status'[j] = "completed"
               PROVE  deliveries'[j]["completed"] > 0
    BY Zenon DEF CompletedHasDelivery
  <2>1. OutboxStep(j)
    BY Zenon, StepsKeepRecords
  <2>2. deliveries[j]["completed"] \in Nat /\ deliveries'[j]["completed"] \in Nat
    BY JobAssumption DEF TypeOK, HistoryTypeOK, Event
  <2> QED
    BY <2>1, <2>2 DEF OutboxStep, CompletedHasDelivery
<1> QED BY <1>1, <1>2, TypeCorrect, PTL DEF Spec

-----------------------------------------------------------------------------
(* Who may still count a retry, and who may still charge or tell the user *)

\* The snapshots below MaxRetries in the hands of some goroutine: each of them
\* entitles its holder to one more Reschedule.
Entitled(j) ==
    {n \in 0..(MaxRetries - 1) : \E s \in Slot : held[s] = j /\ snapshot[s] = n}

\* Past MaxRetries only a worker's own Reschedule increments the count.
LEMMA LateIncrement ==
    ASSUME TypeOK, [Next]_vars, NEW j \in Job, retry_count[j] >= MaxRetries
    PROVE  \/ retry_count'[j] = retry_count[j]
           \/ /\ retry_count'[j] = retry_count[j] + 1
              /\ \E s \in Slot : Reschedule(s) /\ held[s] = j
<1>1. ASSUME NEW k \in Job,
             Create(k) \/ Cancel(k) \/ BecomeDue(k) \/ GoStale(k) \/ WriteHeartbeat(k)
      PROVE  retry_count' = retry_count
  BY Zenon, <1>1 DEF Create, Cancel, BecomeDue, GoStale, WriteHeartbeat
<1>2. ASSUME NEW w \in Worker, Claim(w) \/ Crash(w)
      PROVE  retry_count' = retry_count
  BY Zenon, <1>2 DEF Claim, Crash, row
<1>3. ASSUME NEW s \in Slot,
             \/ CreateAttempt(s) \/ CheckCredits(s) \/ Execute(s) \/ CheckLease(s)
             \/ Deduct(s) \/ CompleteAttempt(s) \/ AlertJobFailure(s)
             \/ UpdateHeartbeat(s) \/ LoseLease(s)
      PROVE  retry_count' = retry_count
  BY Zenon, <1>3 DEF CreateAttempt, CheckCredits, Execute, CheckLease, Deduct,
              CompleteAttempt, AlertJobFailure, UpdateHeartbeat, LoseLease, row
<1>4. ASSUME NEW s \in Slot, Complete(s) \/ Fail(s)
      PROVE  retry_count' = retry_count
  BY Zenon, <1>4 DEF Complete, Fail, TerminalWrite, row
<1>5. ASSUME NEW s \in Slot, Reschedule(s)
      PROVE  \/ retry_count'[j] = retry_count[j]
             \/ retry_count'[j] = retry_count[j] + 1 /\ held[s] = j
  BY <1>5 DEF Reschedule, RequeueWrite, row, TypeOK, TableTypeOK
<1>6. CASE RescheduleStale
  <2>1. PICK S \in SUBSET {k \in Job : Stale(k) /\ retry_count[k] < MaxRetries} :
           retry_count' = Retried(S)
    BY Zenon, <1>6 DEF RescheduleStale
  <2>2. j \notin S
    BY SMTT(30), <2>1, RetriesAssumption DEF TypeOK, TableTypeOK
  <2> QED BY Zenon, <2>1, <2>2 DEF Retried
<1>7. CASE FailStale \/ UNCHANGED vars
  BY Zenon, <1>7 DEF FailStale, vars
<1> QED
  BY Zenon, <1>1, <1>2, <1>3, <1>4, <1>5, <1>6, <1>7 DEF Next, RunStep

\* Past MaxRetries no goroutine becomes entitled to another Reschedule.
LEMMA NoNewEntitlement ==
    ASSUME TypeOK, SnapshotsOld, [Next]_vars, NEW j \in Job,
           retry_count[j] >= MaxRetries
    PROVE  Entitled(j)' \subseteq Entitled(j)
<1> SUFFICES ASSUME NEW n \in 0..(MaxRetries - 1), NEW s \in Slot, held'[s] = j,
                    snapshot'[s] = n
             PROVE  held[s] = j /\ snapshot[s] = n
  BY Zenon DEF Entitled
<1>1. CASE OrdinaryStep
  BY Zenon, <1>1, JobAssumption DEF OrdinaryStep, RunEnds
<1>2. ASSUME NEW t \in Slot, CreateAttempt(t)
      PROVE  held[s] = j /\ snapshot[s] = n
  BY ZenonT(30), <1>2, JobAssumption DEF CreateAttempt, Goto, Return, TypeOK, RunTypeOK
<1>3. ASSUME NEW w \in Worker, Claim(w)
      PROVE  held[s] = j /\ snapshot[s] = n
  <2>1. PICK batch \in SUBSET Job, started \in SUBSET Slot : Claimed(batch, started)
    BY Zenon, <1>3, ClaimEffect
  <2>2. s \in started => snapshot'[s] = retry_count[j]
    BY Zenon, <2>1 DEF Claimed
  <2>3. retry_count[j] \in Nat
    BY Zenon DEF TypeOK, TableTypeOK
  <2>4. s \notin started
    BY <2>2, <2>3, RetriesAssumption
  <2> QED BY Zenon, <2>1, <2>4 DEF Claimed
<1> QED BY Zenon, <1>1, <1>2, <1>3, StepKinds

\* The calls between the opening of an attempt and something that is done once for
\* it.  Whichever call comes last, a run gets to it past the earlier ones only.
Phase(L) ==
    /\ "idle" \notin L /\ "attempt" \notin L
    /\ "alert" \in L => "outcome" \in L
    /\ "outcome" \in L => "close" \in L
    /\ "close" \in L => "deduct" \in L
    /\ "deduct" \in L => "lease" \in L
    /\ "lease" \in L => "execute" \in L
    /\ "execute" \in L => "gate" \in L
    /\ "close" \in L => "gate" \in L

ToCharge == {"gate", "execute", "lease", "deduct"}
ToWrite == ToCharge \cup {"close", "outcome"}
ToAlert == ToWrite \cup {"alert"}

LEMMA Phases == Phase(ToCharge) /\ Phase(ToWrite) /\ Phase(ToAlert)
  BY Zenon DEF Phase, ToCharge, ToWrite, ToAlert

\* The attempts of j that are open and for which it may still be done.
Owing(L, j) ==
    {n \in Nat : \E s \in Slot : held[s] = j /\ snapshot[s] = n /\ pc[s] \in L}

\* A run has no more to do than before.
NoNewDebt(L, t) ==
    pc'[t] \in L => pc[t] \in L /\ held'[t] = held[t] /\ snapshot'[t] = snapshot[t]

LEMMA DebtShrinks ==
    ASSUME NEW L, NEW j \in Job, \A t \in Slot : NoNewDebt(L, t)
    PROVE  Owing(L, j)' \subseteq Owing(L, j)
  BY Zenon DEF Owing, NoNewDebt

LEMMA ReturnEndsDebt ==
    ASSUME TypeOK, NEW L, Phase(L), NEW s \in Slot, Return(s)
    PROVE  \A t \in Slot : NoNewDebt(L, t)
  BY Zenon DEF TypeOK, RunTypeOK, Return, NoNewDebt, Phase

LEMMA GotoKeepsDebt ==
    ASSUME TypeOK, NEW L, NEW s \in Slot, NEW l, pc' = [pc EXCEPT ![s] = l],
           UNCHANGED <<held, snapshot>>, l \in L => pc[s] \in L
    PROVE  \A t \in Slot : NoNewDebt(L, t)
  BY Zenon DEF TypeOK, RunTypeOK, NoNewDebt

\* Only the opening of an attempt gives a run something to do for it.
LEMMA DebtSteps ==
    ASSUME TypeOK, [Next]_vars, NEW L, Phase(L)
    PROVE  \/ \E s \in Slot : CreateAttempt(s)
           \/ attempts' = attempts /\ \A t \in Slot : NoNewDebt(L, t)
<1> DEFINE Quiet == attempts' = attempts /\ \A t \in Slot : NoNewDebt(L, t)
<1>1. ASSUME attempts' = attempts, UNCHANGED <<pc, held, snapshot>> PROVE Quiet
  BY Zenon, <1>1 DEF NoNewDebt
<1>2. ASSUME NEW j \in Job,
             Create(j) \/ Cancel(j) \/ BecomeDue(j) \/ GoStale(j) \/ WriteHeartbeat(j)
      PROVE  Quiet
  <2>1. attempts' = attempts /\ UNCHANGED <<pc, held, snapshot>>
    BY Zenon, <1>2 DEF Create, Cancel, BecomeDue, GoStale, WriteHeartbeat, run
  <2> QED BY Zenon, <1>1, <2>1
<1>3. ASSUME NEW w \in Worker, Claim(w) PROVE Quiet
  <2>1. PICK batch \in SUBSET Job, started \in SUBSET Slot : Claimed(batch, started)
    BY Zenon, <1>3, ClaimEffect
  <2>2. ASSUME NEW t \in Slot PROVE NoNewDebt(L, t)
    <3>1. CASE t \in started
      BY Zenon, <2>1, <3>1 DEF Claimed, NoNewDebt, Phase
    <3>2. CASE t \notin started
      BY Zenon, <2>1, <3>2 DEF Claimed, NoNewDebt
    <3> QED BY Zenon, <3>1, <3>2
  <2> QED BY Zenon, <2>1, <2>2 DEF Claimed
<1>4. ASSUME NEW w \in Worker, Crash(w) PROVE Quiet
  <2>1. attempts' = attempts
    BY Zenon, <1>4 DEF Crash
  <2>2. ASSUME NEW t \in Slot PROVE NoNewDebt(L, t)
    BY Zenon, <1>4 DEF Crash, NoNewDebt, Phase
  <2> QED BY Zenon, <2>1, <2>2
<1>5. ASSUME NEW s \in Slot,
             CheckCredits(s) \/ Execute(s) \/ Deduct(s) \/ CompleteAttempt(s) \/ Fail(s)
      PROVE  Quiet
  <2>1. attempts' = attempts
    BY Zenon, <1>5 DEF CheckCredits, Execute, Deduct, CompleteAttempt, Fail
  <2>2. /\ UNCHANGED <<held, snapshot>>
        /\ \E l \in PC : pc' = [pc EXCEPT ![s] = l] /\ (l \in L => pc[s] \in L)
    BY Zenon, <1>5 DEF CheckCredits, Execute, Deduct, CompleteAttempt, Fail, Goto, Phase, PC
  <2> QED BY Zenon, <2>1, <2>2, GotoKeepsDebt
<1>6. ASSUME NEW s \in Slot,
             CheckLease(s) \/ Complete(s) \/ Reschedule(s) \/ AlertJobFailure(s)
      PROVE  Quiet
  <2>1. attempts' = attempts
    BY Zenon, <1>6 DEF CheckLease, Complete, Reschedule, AlertJobFailure
  <2>2. CASE Return(s)
    BY Zenon, <2>1, <2>2, ReturnEndsDebt
  <2>3. CASE ~Return(s)
    <3>1. pc[s] = "lease" /\ Goto(s, "deduct")
      BY Zenon, <1>6, <2>3 DEF CheckLease, Complete, Reschedule, AlertJobFailure
    <3>2. "deduct" \in L => pc[s] \in L
      BY Zenon, <3>1 DEF Phase
    <3> QED BY Zenon, <2>1, <3>1, <3>2, GotoKeepsDebt DEF Goto
  <2> QED BY Zenon, <2>2, <2>3
<1>7. ASSUME NEW s \in Slot, UpdateHeartbeat(s) \/ LoseLease(s) PROVE Quiet
  <2>1. attempts' = attempts /\ UNCHANGED <<pc, held, snapshot>>
    BY Zenon, <1>7 DEF UpdateHeartbeat, LoseLease, run
  <2> QED BY Zenon, <1>1, <2>1
<1>8. CASE RescheduleStale \/ FailStale \/ UNCHANGED vars
  <2>1. attempts' = attempts /\ UNCHANGED <<pc, held, snapshot>>
    BY Zenon, <1>8 DEF RescheduleStale, FailStale, vars, run
  <2> QED BY Zenon, <1>1, <2>1
<1> QED
  BY Zenon, <1>2, <1>3, <1>4, <1>5, <1>6, <1>7, <1>8 DEF Next, RunStep

\* Webhook deliveries of a job, of either event.
Told(j) == deliveries[j]["completed"] + deliveries[j]["failed"]

\* What was done c times for j has been done d times after the step: as often, or
\* once more by a run that had it to do and has not any longer.
Done(L, j, c, d) ==
    \/ d = c
    \/ /\ d = c + 1 /\ attempts' = attempts
       /\ \E s \in Slot : held[s] = j /\ pc[s] \in L /\ pc'[s] \notin L

\* Charges, deliveries and alerts: a step makes one more of a kind at most.
LEMMA EffectSteps ==
    ASSUME TypeOK, [Next]_vars, NEW j \in Job
    PROVE  /\ Done(ToCharge, j, charges[j], charges'[j])
           /\ Done(ToWrite, j, Told(j), Told(j)')
           /\ Done(ToAlert, j, alerts[j], alerts'[j])
<1> DEFINE Goal == /\ Done(ToCharge, j, charges[j], charges'[j])
                   /\ Done(ToWrite, j, Told(j), Told(j)')
                   /\ Done(ToAlert, j, alerts[j], alerts'[j])
<1>1. ASSUME UNCHANGED effects PROVE Goal
  BY Zenon, <1>1 DEF Done, Told, effects
<1>2. ASSUME NEW k \in Job,
             Create(k) \/ Cancel(k) \/ BecomeDue(k) \/ GoStale(k) \/ WriteHeartbeat(k)
      PROVE  UNCHANGED effects
  BY Zenon, <1>2 DEF Create, Cancel, BecomeDue, GoStale, WriteHeartbeat
<1>3. ASSUME NEW w \in Worker, Claim(w) \/ Crash(w) PROVE UNCHANGED effects
  BY Zenon, <1>3 DEF Claim, Crash
<1>4. ASSUME NEW s \in Slot,
             \/ CreateAttempt(s) \/ CheckCredits(s) \/ Execute(s) \/ CheckLease(s)
             \/ CompleteAttempt(s) \/ UpdateHeartbeat(s) \/ LoseLease(s)
      PROVE  UNCHANGED effects
  BY Zenon, <1>4 DEF CreateAttempt, CheckCredits, Execute, CheckLease, CompleteAttempt,
                     UpdateHeartbeat, LoseLease
<1>5. ASSUME NEW s \in Slot, Deduct(s) PROVE Goal
  <2>1. UNCHANGED <<deliveries, alerts, attempts>> /\ pc[s] = "deduct" /\ Goto(s, "close")
    BY Zenon, <1>5 DEF Deduct
  <2>2. pc[s] \in ToCharge /\ pc'[s] \notin ToCharge
    BY Zenon, <2>1 DEF Goto, ToCharge, TypeOK, RunTypeOK
  <2>3. charges'[j] = charges[j] \/ (held[s] = j /\ charges'[j] = charges[j] + 1)
    BY Zenon, <1>5 DEF Deduct, TypeOK, HistoryTypeOK
  <2>4. Done(ToCharge, j, charges[j], charges'[j])
    BY Zenon, <2>1, <2>2, <2>3 DEF Done
  <2> QED BY Zenon, <2>1, <2>4 DEF Done, Told
<1>6. ASSUME NEW s \in Slot, AlertJobFailure(s) PROVE Goal
  <2>1. UNCHANGED <<deliveries, charges, attempts>> /\ pc[s] = "alert" /\ Return(s)
    BY Zenon, <1>6 DEF AlertJobFailure
  <2>2. pc[s] \in ToAlert /\ pc'[s] \notin ToAlert
    BY Zenon, <2>1 DEF Return, ToAlert, ToWrite, ToCharge, TypeOK, RunTypeOK
  <2>3. alerts'[j] = alerts[j] \/ (held[s] = j /\ alerts'[j] = alerts[j] + 1)
    BY Zenon, <1>6 DEF AlertJobFailure, TypeOK, HistoryTypeOK
  <2>4. Done(ToAlert, j, alerts[j], alerts'[j])
    BY Zenon, <2>1, <2>2, <2>3 DEF Done
  <2> QED BY Zenon, <2>1, <2>4 DEF Done, Told
<1>7. ASSUME NEW s \in Slot, Complete(s) \/ Reschedule(s) \/ Fail(s) PROVE Goal
  <2>1. UNCHANGED <<charges, alerts, attempts>> /\ pc[s] = "outcome" /\ (Return(s) \/ Goto(s, "alert"))
    BY Zenon, <1>7 DEF Complete, Reschedule, Fail
  <2>2. pc[s] \in ToWrite /\ pc'[s] \notin ToWrite
    BY Zenon, <2>1 DEF Return, Goto, ToWrite, ToCharge, TypeOK, RunTypeOK
  <2>3. Told(j)' = Told(j) \/ (held[s] = j /\ Told(j)' = Told(j) + 1)
    <3>1. deliveries' = deliveries \/ \E e \in Event : Enqueue(held[s], e)
      BY Zenon, <1>7 DEF Complete, Reschedule, Fail, TerminalWrite, RequeueWrite, Event
    <3>2. CASE deliveries' = deliveries
      BY Zenon, <3>2 DEF Told
    <3>3. ASSUME NEW e \in Event, deliveries' = [deliveries EXCEPT ![held[s]][e] = @ + 1]
          PROVE  Told(j)' = Told(j) \/ (held[s] = j /\ Told(j)' = Told(j) + 1)
      <4>1. CASE held[s] # j
        BY Zenon, <3>3, <4>1 DEF Told, TypeOK, HistoryTypeOK
      <4>2. CASE held[s] = j
        <5>1. deliveries'[j] = [deliveries[j] EXCEPT ![e] = @ + 1] /\ deliveries[j] \in [Event -> Nat]
          BY Zenon, <3>3, <4>2 DEF TypeOK, HistoryTypeOK
        <5> QED BY <4>2, <5>1 DEF Told, Event
      <4> QED BY Zenon, <4>1, <4>2
    <3> QED BY Zenon, <3>1, <3>2, <3>3 DEF Enqueue
  <2>4. Done(ToWrite, j, Told(j), Told(j)')
    BY Zenon, <2>1, <2>2, <2>3 DEF Done
  <2> QED BY Zenon, <2>1, <2>4 DEF Done
<1>8. CASE RescheduleStale \/ FailStale \/ UNCHANGED vars
  BY Zenon, <1>1, <1>8 DEF RescheduleStale, FailStale, vars, effects
<1> QED
  BY Zenon, <1>1, <1>2, <1>3, <1>4, <1>5, <1>6, <1>7, <1>8 DEF Next, RunStep
=============================================================================
