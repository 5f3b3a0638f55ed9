------------------------ MODULE JobRefinementProofs -------------------------
(***************************************************************************)
(* What the lease buys: while heartbeats are in time, a job is in the      *)
(* hands of one goroutine at most, and everything that happens to it is a  *)
(* step of JobContract.  For any numbers of jobs, workers, slots, retries. *)
(***************************************************************************)
EXTENDS JobRefinement, JobLifecycleProofs

\* Nobody else holds the job of a goroutine, whose row is running with a fresh
\* heartbeat until the goroutine has failed it, and whose retry_count is the one
\* it was claimed with.  An attempt is opened after every claim at most, and no
\* delivery is queued before the job ends.
LeaseInv(j) ==
    /\ \A s, t \in Slot : held[s] = j /\ held[t] = j => s = t
    /\ \A s \in Slot : held[s] = j =>
        /\ snapshot[s] = retry_count[j]
        /\ \/ status[j] = "running" /\ heartbeat[j] = "fresh"
           \/ status[j] = "failed" /\ pc[s] = "alert"
        /\ IF pc[s] = "attempt" THEN Len(attempts[j]) <= retry_count[j]
                                ELSE Len(attempts[j]) > 0
    /\ Len(attempts[j]) <= retry_count[j] + 1
    /\ status[j] \in {"absent", "pending"} => Len(attempts[j]) <= retry_count[j]
    /\ status[j] \notin Terminal => deliveries[j] = [e \in Event |-> 0]

LeasesInv == \A j \in Job : LeaseInv(j)

-----------------------------------------------------------------------------
(* What a step of the system is for one job *)

\* The goroutines that hold j after the step held it before.
RunsKept(j) ==
    \A s \in Slot : held'[s] = j => held[s] = j /\ snapshot'[s] = snapshot[s]

Nothing(j) ==
    /\ status'[j] = status[j] /\ retry_count'[j] = retry_count[j]
    /\ attempts'[j] = attempts[j] /\ deliveries'[j] = deliveries[j]
    /\ RunsKept(j)
    /\ \A s \in Slot : held'[s] = j =>
        /\ heartbeat[j] = "fresh" => heartbeat'[j] = "fresh"
        /\ pc'[s] = "attempt" <=> pc[s] = "attempt"
        /\ pc[s] = "alert" => pc'[s] = "alert"

Opened(j) ==
    /\ status[j] = "running" /\ status' = status /\ retry_count' = retry_count
    /\ deliveries' = deliveries /\ heartbeat' = heartbeat
    /\ Len(attempts'[j]) = Len(attempts[j]) + 1
    /\ Len(attempts[j]) <= retry_count[j]
    /\ RunsKept(j)
    /\ \A s \in Slot : held'[s] = j => pc'[s] # "attempt"

Submitted(j) ==
    /\ status[j] = "absent" /\ status'[j] = "pending"
    /\ retry_count' = retry_count /\ attempts' = attempts /\ deliveries' = deliveries
    /\ \A s \in Slot : held'[s] # j

Cancelled(j) ==
    /\ status[j] = "pending" /\ status'[j] = "cancelled"
    /\ retry_count' = retry_count /\ attempts' = attempts /\ deliveries' = deliveries
    /\ \A s \in Slot : held'[s] # j

Started(j) ==
    /\ status[j] = "pending" /\ status'[j] = "running" /\ heartbeat'[j] = "fresh"
    /\ retry_count' = retry_count /\ attempts' = attempts /\ deliveries' = deliveries
    /\ \A s, t \in Slot : held'[s] = j /\ held'[t] = j => s = t
    /\ \A s \in Slot : held'[s] = j => pc'[s] = "attempt" /\ snapshot'[s] = retry_count[j]

Requeued(j) ==
    /\ status[j] = "running" /\ status'[j] = "pending"
    /\ retry_count[j] < MaxRetries /\ retry_count'[j] = retry_count[j] + 1
    /\ attempts' = attempts /\ deliveries' = deliveries
    /\ \A s \in Slot : held'[s] # j

Completed(j) ==
    /\ status[j] = "running" /\ status'[j] = "completed"
    /\ Len(attempts[j]) > 0
    /\ retry_count' = retry_count /\ attempts' = attempts
    /\ deliveries'[j] = [completed |-> IF j \in WebhookJobs THEN 1 ELSE 0, failed |-> 0]
    /\ \A s \in Slot : held'[s] # j

Failed(j) ==
    /\ status[j] = "running" /\ status'[j] = "failed"
    /\ retry_count' = retry_count /\ attempts' = attempts
    /\ \/ j \in WebhookJobs /\ deliveries'[j] = [completed |-> 0, failed |-> 1]
       \/ deliveries'[j] = deliveries[j]
    /\ RunsKept(j)
    /\ \A s \in Slot : held'[s] = j => pc[s] # "attempt" /\ pc'[s] = "alert"

JobStep(j) ==
    \/ Nothing(j) \/ Opened(j) \/ Submitted(j) \/ Cancelled(j) \/ Started(j)
    \/ Requeued(j) \/ Completed(j) \/ Failed(j)

-----------------------------------------------------------------------------
(* Every step is one of these *)

\* Only a running or a failed job is held, and a failed one only for its alert.
LEMMA HeldMeansRunning ==
    ASSUME LeasesInv, NEW j \in Job, NEW s \in Slot, held[s] = j
    PROVE  /\ status[j] \in {"running", "failed"}
           /\ pc[s] # "alert" => status[j] = "running" /\ heartbeat[j] = "fresh"
           /\ \A t \in Slot : held[t] = j => t = s
           /\ snapshot[s] = retry_count[j]
  BY DEF LeasesInv, LeaseInv

LEMMA StepCreateCancel ==
    ASSUME TypeOK, LeasesInv, NEW k \in Job, Create(k) \/ Cancel(k), NEW j \in Job
    PROVE  JobStep(j)
<1>1. /\ UNCHANGED <<retry_count, attempts, deliveries, heartbeat, pc, held, snapshot>>
      /\ \A i \in Job : i # k => status'[i] = status[i]
  BY Zenon DEF Create, Cancel, effects, run, TypeOK, TableTypeOK
<1>2. CASE j # k
  BY Zenon, <1>1, <1>2 DEF JobStep, Nothing, RunsKept
<1>3. CASE j = k /\ Create(k)
  <2>1. status[j] = "absent" /\ status'[j] = "pending"
    BY Zenon, <1>3 DEF Create, TypeOK, TableTypeOK
  <2>2. \A s \in Slot : held[s] # j
    BY Zenon, <2>1, HeldMeansRunning
  <2> QED BY Zenon, <1>1, <2>1, <2>2 DEF JobStep, Submitted
<1>4. CASE j = k /\ Cancel(k)
  <2>1. status[j] = "pending" /\ status'[j] = "cancelled"
    BY Zenon, <1>4 DEF Cancel, TypeOK, TableTypeOK
  <2>2. \A s \in Slot : held[s] # j
    BY Zenon, <2>1, HeldMeansRunning
  <2> QED BY Zenon, <1>1, <2>1, <2>2 DEF JobStep, Cancelled
<1> QED BY Zenon, <1>2, <1>3, <1>4

\* A goroutine returns without writing anything.
LEMMA StepReturn ==
    ASSUME TypeOK, UNCHANGED <<status, retry_count, attempts, deliveries, heartbeat>>,
           NEW s \in Slot, Return(s), NEW j \in Job
    PROVE  JobStep(j)
  BY Zenon, JobAssumption DEF TypeOK, RunTypeOK, Return, JobStep, Nothing, RunsKept

LEMMA StepClaim ==
    ASSUME TypeOK, LeasesInv, NEW w \in Worker, Claim(w), NEW j \in Job
    PROVE  JobStep(j)
<1>0. PICK batch \in SUBSET Job, started \in SUBSET Slot : Claimed(batch, started)
  BY Zenon, ClaimEffect
<1>1. UNCHANGED <<retry_count, attempts, deliveries>>
  BY Zenon DEF Claim, effects
<1>2. /\ heartbeat'[j] \in {heartbeat[j], "fresh"}
      /\ status'[j] # status[j] => heartbeat'[j] = "fresh"
  BY ZenonT(30) DEF Claim, Seeded
<1>3. CASE j \in batch
  <2>1. status[j] = "pending" /\ status'[j] = "running"
    BY Zenon, <1>0, <1>3 DEF Claimed
  <2>2. \A s \in Slot : held[s] # j
    BY Zenon, <2>1, HeldMeansRunning
  <2>3. \A s \in Slot : held'[s] = j => s \in started
    BY Zenon, <1>0, <2>2 DEF Claimed
  <2>4. \A s, t \in Slot : held'[s] = j /\ held'[t] = j => s = t
    BY <1>0, <2>3 DEF Claimed
  <2>5. \A s \in Slot : held'[s] = j => pc'[s] = "attempt" /\ snapshot'[s] = retry_count[j]
    BY <1>0, <2>3 DEF Claimed
  <2> QED BY Zenon, <1>1, <1>2, <2>1, <2>4, <2>5 DEF JobStep, Started
<1>4. CASE j \notin batch
  <2>1. status'[j] = status[j]
    BY Zenon, <1>0, <1>4 DEF Claimed
  <2>2. \A s \in Slot : held'[s] = j => s \notin started
    BY <1>0, <1>4 DEF Claimed
  <2>3. \A s \in Slot : held'[s] = j => held[s] = j /\ snapshot'[s] = snapshot[s] /\ pc'[s] = pc[s]
    BY Zenon, <1>0, <2>2 DEF Claimed
  <2>4. Nothing(j)
    BY Zenon, <1>1, <1>2, <2>1, <2>3 DEF Nothing, RunsKept
  <2> QED BY Zenon, <2>4 DEF JobStep
<1> QED BY Zenon, <1>3, <1>4

LEMMA StepCreateAttempt ==
    ASSUME TypeOK, LeasesInv, NEW s \in Slot, CreateAttempt(s), NEW j \in Job
    PROVE  JobStep(j)
<1>1. /\ UNCHANGED <<status, retry_count, heartbeat, deliveries>>
      /\ pc[s] = "attempt" /\ held[s] \in Job /\ (Return(s) \/ Goto(s, "gate"))
  BY Zenon, HeldIsJob DEF CreateAttempt, TypeOK, row, effects
<1>2. /\ RunsKept(j)
      /\ pc'[s] # "attempt"
      /\ \A t \in Slot : held'[t] = j /\ t # s => pc'[t] = pc[t]
  BY <1>1, JobAssumption DEF TypeOK, RunTypeOK, Return, Goto, RunsKept
<1>3. CASE held[s] # j
  <2>1. attempts'[j] = attempts[j]
    BY Zenon, <1>1, <1>3 DEF CreateAttempt, TypeOK, HistoryTypeOK
  <2>2. \A t \in Slot : held'[t] = j => t # s
    BY Zenon, <1>2, <1>3 DEF RunsKept
  <2>3. Nothing(j)
    BY Zenon, <1>1, <1>2, <2>1, <2>2 DEF Nothing
  <2> QED BY Zenon, <2>3 DEF JobStep
<1>4. CASE held[s] = j /\ attempts' = attempts
  <2>1. CASE Return(s)
    BY Zenon, <1>1, <1>4, <2>1, StepReturn
  <2>2. CASE ~Return(s)
    <3>1. attempts' = [attempts EXCEPT ![held[s]] = Append(attempts[held[s]], snapshot[s] + 1)]
      BY Zenon, <2>2 DEF CreateAttempt
    <3>2. Len(attempts'[j]) = Len(attempts[j]) + 1 /\ Len(attempts[j]) \in Nat
      BY <1>4, <3>1 DEF TypeOK, HistoryTypeOK
    <3> QED BY <1>4, <3>2
  <2> QED BY Zenon, <2>1, <2>2
<1>5. CASE held[s] = j /\ attempts' # attempts
  <2>1. attempts' = [attempts EXCEPT ![j] = Append(attempts[j], snapshot[s] + 1)]
    BY Zenon, <1>5 DEF CreateAttempt
  <2>2. Len(attempts'[j]) = Len(attempts[j]) + 1
    BY <2>1 DEF TypeOK, HistoryTypeOK
  <2>3. status[j] = "running" /\ Len(attempts[j]) <= retry_count[j]
    BY <1>1, <1>5 DEF LeasesInv, LeaseInv
  <2>4. \A t \in Slot : held'[t] = j => t = s
    BY <1>2, <1>5, HeldMeansRunning DEF RunsKept
  <2>5. Opened(j)
    BY Zenon, <1>1, <1>2, <2>2, <2>3, <2>4 DEF Opened
  <2> QED BY Zenon, <2>5 DEF JobStep
<1> QED BY Zenon, <1>3, <1>4, <1>5

\* The outcome of a run, as its goroutine writes it.
LEMMA StepOutcome ==
    ASSUME TypeOK, LeasesInv, NEW s \in Slot, Complete(s) \/ Reschedule(s) \/ Fail(s),
           NEW j \in Job
    PROVE  JobStep(j)
<1>1. /\ attempts' = attempts /\ pc[s] = "outcome" /\ held[s] \in Job
      /\ Return(s) \/ Goto(s, "alert")
  BY Zenon, HeldIsJob DEF Complete, Reschedule, Fail, TypeOK
<1>2. /\ RunsKept(j)
      /\ \A t \in Slot : held'[t] = j /\ t # s => pc'[t] = pc[t]
      /\ held'[s] = j => pc'[s] = "alert"
  BY <1>1, JobAssumption DEF TypeOK, RunTypeOK, Return, Goto, RunsKept
<1>3. CASE UNCHANGED <<row, deliveries>>
  <2>1. Nothing(j)
    BY Zenon, <1>1, <1>2, <1>3 DEF Nothing, row
  <2> QED BY Zenon, <2>1 DEF JobStep
<1>4. CASE held[s] # j
  <2>1. /\ status'[j] = status[j] /\ retry_count'[j] = retry_count[j]
        /\ heartbeat'[j] = heartbeat[j] /\ deliveries'[j] = deliveries[j]
    <3>1. \/ \E e \in Event : TerminalWrite(held[s], e)
          \/ RequeueWrite(held[s])
          \/ UNCHANGED <<row, deliveries>>
      BY Zenon DEF Complete, Reschedule, Fail, Event
    <3>2. ASSUME NEW e \in Event, TerminalWrite(held[s], e)
          PROVE  /\ status'[j] = status[j] /\ retry_count'[j] = retry_count[j]
                 /\ heartbeat'[j] = heartbeat[j] /\ deliveries'[j] = deliveries[j]
      BY Zenon, <1>4, <3>2 DEF TerminalWrite, Enqueue, TypeOK, TableTypeOK, HistoryTypeOK
    <3>3. CASE RequeueWrite(held[s])
      BY Zenon, <1>4, <3>3 DEF RequeueWrite, TypeOK, TableTypeOK
    <3>4. CASE UNCHANGED <<row, deliveries>>
      BY Zenon, <3>4 DEF row
    <3> QED BY Zenon, <3>1, <3>2, <3>3, <3>4
  <2>2. \A t \in Slot : held'[t] = j => t # s
    BY Zenon, <1>2, <1>4 DEF RunsKept
  <2>3. Nothing(j)
    BY Zenon, <1>1, <1>2, <2>1, <2>2 DEF Nothing
  <2> QED BY Zenon, <2>3 DEF JobStep
<1>5. CASE held[s] = j /\ ~UNCHANGED <<row, deliveries>>
  <2>1. status[j] = "running" /\ Len(attempts[j]) > 0 /\ snapshot[s] = retry_count[j]
    BY Zenon, <1>1, <1>5 DEF LeasesInv, LeaseInv
  <2>2. \A t \in Slot : held'[t] = j => t = s
    BY <1>2, <1>5, HeldMeansRunning DEF RunsKept
  <2>3. deliveries[j] = [e \in Event |-> 0]
    BY Zenon, <2>1 DEF LeasesInv, LeaseInv, Terminal
  <2>4. CASE Complete(s)
    <3>1. TerminalWrite(j, "completed") /\ Return(s)
      BY ZenonT(30), <1>5, <2>4 DEF Complete
    <3>2. status'[j] = "completed" /\ retry_count' = retry_count
      BY Zenon, <3>1 DEF TerminalWrite, TypeOK, TableTypeOK
    <3>3. deliveries'[j] = [completed |-> IF j \in WebhookJobs THEN 1 ELSE 0, failed |-> 0]
      BY <2>3, <3>1 DEF TerminalWrite, Enqueue, Event, TypeOK, HistoryTypeOK
    <3>4. \A t \in Slot : held'[t] # j
      BY ZenonT(30), <2>2, <3>1, JobAssumption DEF Return, TypeOK, RunTypeOK
    <3> QED BY Zenon, <1>1, <2>1, <3>2, <3>3, <3>4 DEF JobStep, Completed
  <2>5. CASE Reschedule(s)
    <3>1. RequeueWrite(j) /\ Return(s) /\ snapshot[s] < MaxRetries
      BY Zenon, <1>5, <2>5 DEF Reschedule, RetriesLeft
    <3>2. status'[j] = "pending" /\ retry_count'[j] = retry_count[j] + 1 /\ deliveries' = deliveries
      BY Zenon, <3>1 DEF RequeueWrite, TypeOK, TableTypeOK
    <3>4. \A t \in Slot : held'[t] # j
      BY Zenon, <2>2, <3>1, JobAssumption DEF Return, TypeOK, RunTypeOK
    <3> QED BY Zenon, <1>1, <2>1, <3>1, <3>2, <3>4 DEF JobStep, Requeued
  <2>6. CASE Fail(s)
    <3>1. TerminalWrite(j, "failed")
      BY Zenon, <1>5, <2>6 DEF Fail
    <3>2. status'[j] = "failed" /\ retry_count' = retry_count
      BY Zenon, <3>1 DEF TerminalWrite, TypeOK, TableTypeOK
    <3>3. \/ j \in WebhookJobs /\ deliveries'[j] = [completed |-> 0, failed |-> 1]
          \/ deliveries'[j] = deliveries[j]
      BY <2>3, <3>1 DEF TerminalWrite, Enqueue, Event, TypeOK, HistoryTypeOK
    <3>4. \A t \in Slot : held'[t] = j => pc[t] # "attempt" /\ pc'[t] = "alert"
      BY Zenon, <1>1, <1>2, <2>2
    <3> QED BY ZenonT(30), <1>1, <1>2, <2>1, <3>2, <3>3, <3>4 DEF JobStep, Failed
  <2> QED BY Zenon, <2>4, <2>5, <2>6
<1> QED BY Zenon, <1>3, <1>4, <1>5

\* The reaper takes a job whose heartbeat row is not fresh, so nobody holds it.
LEMMA StepReaper ==
    ASSUME TypeOK, LeasesInv, RescheduleStale \/ FailStale, NEW j \in Job
    PROVE  JobStep(j)
<1>1. UNCHANGED <<attempts, deliveries, pc, held, snapshot>>
  BY Zenon DEF RescheduleStale, FailStale, effects, run
<1>2. CASE RescheduleStale
  <2>1. PICK S \in SUBSET {k \in Job : Stale(k) /\ retry_count[k] < MaxRetries} :
           /\ status' = [k \in Job |-> IF k \in S THEN "pending" ELSE status[k]]
           /\ retry_count' = Retried(S)
           /\ heartbeat' = [k \in Job |-> IF k \in S THEN "none" ELSE heartbeat[k]]
    BY Zenon, <1>2 DEF RescheduleStale
  <2>2. CASE j \in S
    <3>1. status[j] = "running" /\ heartbeat[j] # "fresh" /\ retry_count[j] < MaxRetries
      BY Zenon, <2>2 DEF Stale
    <3>2. status'[j] = "pending" /\ retry_count'[j] = retry_count[j] + 1
      BY Zenon, <2>1, <2>2 DEF Retried
    <3>3. \A s \in Slot : held[s] # j
      BY Zenon, <3>1 DEF LeasesInv, LeaseInv
    <3> QED BY Zenon, <1>1, <3>1, <3>2, <3>3 DEF JobStep, Requeued
  <2>3. CASE j \notin S
    BY Zenon, <1>1, <2>1, <2>3 DEF Retried, JobStep, Nothing, RunsKept
  <2> QED BY Zenon, <2>2, <2>3
<1>3. CASE FailStale
  <2>1. PICK S \in SUBSET {k \in Job : Stale(k) /\ Exhausted(k)} :
           /\ status' = [k \in Job |-> IF k \in S THEN "failed" ELSE status[k]]
           /\ heartbeat' = [k \in Job |-> IF k \in S THEN "none" ELSE heartbeat[k]]
           /\ retry_count' = retry_count
    BY Zenon, <1>3 DEF FailStale
  <2>2. CASE j \in S
    <3>1. status[j] = "running" /\ heartbeat[j] # "fresh"
      BY Zenon, <2>2 DEF Stale
    <3>2. status'[j] = "failed"
      BY Zenon, <2>1, <2>2
    <3>3. \A s \in Slot : held[s] # j
      BY Zenon, <3>1 DEF LeasesInv, LeaseInv
    <3> QED BY Zenon, <1>1, <2>1, <3>1, <3>2, <3>3 DEF JobStep, Failed, RunsKept
  <2>3. CASE j \notin S
    BY ZenonT(30), <1>1, <2>1, <2>3 DEF JobStep, Nothing, RunsKept
  <2> QED BY Zenon, <2>2, <2>3
<1> QED BY Zenon, <1>2, <1>3

LEMMA EveryStep ==
    ASSUME LeasesHonoured, TypeOK, LeasesInv, [Next]_vars, NEW j \in Job
    PROVE  JobStep(j)
<1>1. ASSUME NEW k \in Job, BecomeDue(k) \/ WriteHeartbeat(k) PROVE JobStep(j)
  <2>1. /\ UNCHANGED <<status, retry_count, attempts, deliveries, held, snapshot, pc>>
        /\ heartbeat[j] = "fresh" => heartbeat'[j] = "fresh"
    BY Zenon, <1>1 DEF BecomeDue, WriteHeartbeat, effects, run, TypeOK, TableTypeOK
  <2>2. Nothing(j)
    BY Zenon, <2>1 DEF Nothing, RunsKept
  <2> QED BY Zenon, <2>2 DEF JobStep
<1>2. ASSUME NEW k \in Job, GoStale(k) PROVE JobStep(j)
  <2>1. /\ UNCHANGED <<status, retry_count, attempts, deliveries, held, snapshot, pc>>
        /\ j # k => heartbeat'[j] = heartbeat[j]
        /\ j = k => \A s \in Slot : held[s] # j
    BY Zenon, <1>2 DEF GoStale, effects, run, TypeOK, TableTypeOK
  <2>2. Nothing(j)
    BY Zenon, <2>1 DEF Nothing, RunsKept
  <2> QED BY Zenon, <2>2 DEF JobStep
<1>3. ASSUME NEW w \in Worker, Crash(w) PROVE JobStep(j)
  <2>1. UNCHANGED <<status, retry_count, attempts, deliveries, heartbeat>>
    BY Zenon, <1>3 DEF Crash, row, effects
  <2>2. \A s \in Slot : held'[s] = j => held[s] = j /\ snapshot'[s] = snapshot[s] /\ pc'[s] = pc[s]
    BY Zenon, <1>3, JobAssumption DEF Crash
  <2>3. Nothing(j)
    BY Zenon, <2>1, <2>2 DEF Nothing, RunsKept
  <2> QED BY Zenon, <2>3 DEF JobStep
<1>4. ASSUME NEW s \in Slot, CheckCredits(s) \/ Execute(s) \/ CompleteAttempt(s) \/ Deduct(s)
      PROVE  JobStep(j)
  <2>1. UNCHANGED <<status, retry_count, attempts, deliveries, held, snapshot, heartbeat>>
    BY Zenon, <1>4 DEF CheckCredits, Execute, CompleteAttempt, Deduct, Goto, row, effects
  <2>2. PICK l \in {"execute", "close", "lease", "outcome"} :
          pc' = [pc EXCEPT ![s] = l] /\ pc[s] \in {"gate", "execute", "close", "deduct"}
    BY Zenon, <1>4 DEF CheckCredits, Execute, CompleteAttempt, Deduct, Goto
  <2>3. \A t \in Slot : pc'[t] = pc[t] \/ (pc'[t] # "attempt" /\ pc[t] \notin {"attempt", "alert"})
    BY Zenon, <2>2 DEF TypeOK, RunTypeOK
  <2>4. Nothing(j)
    BY Zenon, <2>1, <2>3 DEF Nothing, RunsKept
  <2> QED BY Zenon, <2>4 DEF JobStep
<1>5. ASSUME NEW s \in Slot, CheckLease(s) \/ AlertJobFailure(s) PROVE JobStep(j)
  <2>1. UNCHANGED <<status, retry_count, attempts, deliveries, heartbeat>>
    BY Zenon, <1>5 DEF CheckLease, AlertJobFailure, row, effects
  <2>2. CASE Return(s)
    BY Zenon, <2>1, <2>2, StepReturn
  <2>3. CASE ~Return(s)
    <3>1. pc[s] = "lease" /\ Goto(s, "deduct")
      BY Zenon, <1>5, <2>3 DEF CheckLease, AlertJobFailure
    <3>2. UNCHANGED <<held, snapshot>>
      BY Zenon, <3>1 DEF Goto
    <3>3. \A t \in Slot : pc'[t] = pc[t] \/ (pc'[t] # "attempt" /\ pc[t] \notin {"attempt", "alert"})
      BY Zenon, <3>1 DEF Goto, TypeOK, RunTypeOK
    <3>4. Nothing(j)
      BY ZenonT(30), <2>1, <3>2, <3>3 DEF Nothing, RunsKept
    <3> QED BY Zenon, <3>4 DEF JobStep
  <2> QED BY Zenon, <2>2, <2>3
<1>6. ASSUME NEW s \in Slot, UpdateHeartbeat(s) \/ LoseLease(s) PROVE JobStep(j)
  <2>1. UNCHANGED <<status, retry_count, attempts, deliveries, held, snapshot, heartbeat, pc>>
    BY Zenon, <1>6 DEF UpdateHeartbeat, LoseLease, row, effects, run
  <2>2. Nothing(j)
    BY Zenon, <2>1 DEF Nothing, RunsKept
  <2> QED BY Zenon, <2>2 DEF JobStep
<1>7. CASE UNCHANGED vars
  <2>1. UNCHANGED <<status, retry_count, attempts, deliveries, held, snapshot, heartbeat, pc>>
    BY Zenon, <1>7 DEF vars
  <2>2. Nothing(j)
    BY Zenon, <2>1 DEF Nothing, RunsKept
  <2> QED BY Zenon, <2>2 DEF JobStep
<1> QED
  BY ZenonT(30), <1>1, <1>2, <1>3, <1>4, <1>5, <1>6, <1>7, StepCreateCancel, StepClaim,
     StepCreateAttempt, StepOutcome, StepReaper DEF Next, RunStep

-----------------------------------------------------------------------------
(* The invariant, and the refinement *)

LEMMA InvKept ==
    ASSUME TypeOK, NEW j \in Job, LeaseInv(j), JobStep(j)
    PROVE  LeaseInv(j)'
<1>1. retry_count[j] \in Nat /\ Len(attempts[j]) \in Nat
  BY DEF TypeOK, TableTypeOK, HistoryTypeOK
<1>2. CASE Nothing(j)
  BY <1>1, <1>2 DEF Nothing, RunsKept, LeaseInv
<1>3. CASE Opened(j)
  <2>1. /\ status'[j] = "running" /\ status[j] = "running" /\ retry_count'[j] = retry_count[j]
        /\ deliveries'[j] = deliveries[j] /\ heartbeat'[j] = heartbeat[j]
        /\ Len(attempts'[j]) = Len(attempts[j]) + 1 /\ Len(attempts[j]) <= retry_count[j]
    BY Zenon, <1>3 DEF Opened
  <2>2. Len(attempts'[j]) > 0 /\ Len(attempts'[j]) <= retry_count'[j] + 1
    BY <1>1, <2>1
  <2>3. \A s \in Slot : held'[s] = j =>
           held[s] = j /\ snapshot'[s] = snapshot[s] /\ pc'[s] # "attempt"
    BY Zenon, <1>3 DEF Opened, RunsKept
  <2> QED BY ZenonT(30), <2>1, <2>2, <2>3 DEF LeaseInv, Terminal
<1>4. CASE Submitted(j) \/ Cancelled(j)
  BY Zenon, <1>1, <1>4 DEF Submitted, Cancelled, LeaseInv, Terminal
<1>5. CASE Started(j)
  BY ZenonT(30), <1>1, <1>5 DEF Started, LeaseInv, Terminal
<1>6. CASE Requeued(j) \/ Completed(j)
  BY <1>1, <1>6 DEF Requeued, Completed, LeaseInv, Terminal
<1>7. CASE Failed(j)
  BY Zenon, <1>1, <1>7 DEF Failed, RunsKept, LeaseInv, Terminal
<1> QED BY ZenonT(30), <1>2, <1>3, <1>4, <1>5, <1>6, <1>7 DEF JobStep

LEMMA LeasesInvariant == ASSUME LeasesHonoured PROVE Spec => []LeasesInv
<1>1. Init => LeasesInv
  BY JobAssumption DEF Init, LeasesInv, LeaseInv
<1>2. TypeOK /\ LeasesInv /\ [Next]_vars => LeasesInv'
  BY Zenon, EveryStep, InvKept DEF LeasesInv
<1> QED BY <1>1, <1>2, TypeCorrect, PTL DEF Spec

\* SingleRunner: while leases are honoured, no job is ever in the hands of two
\* goroutines, of one process or of several.
THEOREM OneRunnerPerJob == ASSUME LeasesHonoured PROVE Spec => []SingleRunner
<1>1. TypeOK /\ LeasesInv => SingleRunner
  BY DEF TypeOK, RunTypeOK, LeasesInv, LeaseInv, SingleRunner
<1> QED BY <1>1, TypeCorrect, LeasesInvariant, PTL

\* RetryWithinMax: while leases are honoured retry_count is not over-incremented,
\* as the comment of Reschedule says: worker and reaper never both count a run.
THEOREM RetriesWithinMax == ASSUME LeasesHonoured PROVE Spec => []RetryWithinMax
<1>1. Init => RetryWithinMax
  BY RetriesAssumption DEF Init, RetryWithinMax
<1>2. TypeOK /\ LeasesInv /\ RetryWithinMax /\ [Next]_vars => RetryWithinMax'
  <2> SUFFICES ASSUME TypeOK, LeasesInv, RetryWithinMax, [Next]_vars, NEW j \in Job
               PROVE  retry_count'[j] <= MaxRetries
    BY Zenon DEF RetryWithinMax
  <2>1. \/ retry_count'[j] = retry_count[j]
        \/ retry_count[j] < MaxRetries /\ retry_count'[j] = retry_count[j] + 1
    BY Zenon, EveryStep DEF JobStep, Nothing, Opened, Submitted, Cancelled, Started, Requeued,
                     Completed, Failed
  <2>2. retry_count[j] \in Nat /\ retry_count[j] <= MaxRetries /\ MaxRetries \in Nat
    BY Zenon, RetriesAssumption DEF TypeOK, TableTypeOK, RetryWithinMax
  <2> QED BY <2>1, <2>2
<1> QED BY <1>1, <1>2, TypeCorrect, LeasesInvariant, PTL DEF Spec

LEMMA StepRefines ==
    ASSUME TypeOK, NEW j \in Job, LeaseInv(j), JobStep(j)
    PROVE  [Contract(j)!Next]_(Contract(j)!contract)
<1>1. CASE Nothing(j)
  BY Zenon, <1>1 DEF Nothing, Contract!contract
<1>2. CASE Opened(j)
  <2>1. /\ status[j] = "running" /\ status'[j] = status[j] /\ retry_count'[j] = retry_count[j]
        /\ deliveries'[j] = deliveries[j] /\ Len(attempts[j]) <= retry_count[j]
        /\ Len(attempts'[j]) = Len(attempts[j]) + 1
    BY Zenon, <1>2 DEF Opened
  <2>2. Contract(j)!Execute
    BY Zenon, <2>1 DEF Contract!Execute
  <2> QED BY Zenon, <2>2 DEF Contract!Next
<1>3. CASE Submitted(j) \/ Cancelled(j)
  BY Zenon, <1>3 DEF Submitted, Cancelled, Contract!Next, Contract!Submit, Contract!Cancel, Contract!Move
<1>4. CASE Started(j) \/ Requeued(j)
  BY Zenon, <1>4 DEF Started, Requeued, Contract!Next, Contract!Start, Contract!Retry, Contract!Move
<1>5. CASE Completed(j)
  BY <1>5 DEF Completed, Contract!Next, Contract!Complete, Contract!Move, LeaseInv, Terminal, Event
<1>6. CASE Failed(j)
  BY <1>6 DEF Failed, Contract!Next, Contract!Fail, Contract!Move, LeaseInv, Terminal, Event
<1> QED BY ZenonT(30), <1>1, <1>2, <1>3, <1>4, <1>5, <1>6 DEF JobStep

LEMMA InitRefines == Init => \A j \in Job : Contract(j)!Init
<1> SUFFICES ASSUME Init, NEW j \in Job PROVE Contract(j)!Init
  BY Zenon
<1>1. deliveries[j] = [completed |-> 0, failed |-> 0]
  BY Zenon DEF Init, Event
<1>2. status[j] = "absent" /\ retry_count[j] = 0 /\ Len(attempts[j]) = 0
  BY Zenon DEF Init
<1> QED BY Zenon, <1>1, <1>2 DEF Contract!Init

\* ImplementsContract: while leases are honoured, the row, the history and the
\* outbox of every job follow JobContract; claims, heartbeats, crashes and the
\* reaper are steps of it or invisible.
THEOREM ContractImplemented == ASSUME LeasesHonoured PROVE Spec => ImplementsContract
<1>1. TypeOK /\ LeasesInv /\ [Next]_vars => [\A j \in Job : [Contract(j)!Next]_(Contract(j)!contract)]_vars
  BY Zenon, EveryStep, StepRefines DEF LeasesInv
<1> QED BY <1>1, InitRefines, TypeCorrect, LeasesInvariant, PTL DEF Spec, ImplementsContract

-----------------------------------------------------------------------------
(* What the contract comes to *)

\* A step of the contract keeps its promise, whatever the state it starts from.
LEMMA PromiseStep ==
    ASSUME TypeOK, NEW j \in Job, Contract(j)!Promise,
           [Contract(j)!Next]_(Contract(j)!contract)
    PROVE  Contract(j)!Promise'
<1> DEFINE tries == retry_count[j]
           executions == Len(attempts[j])
<1>1. /\ tries \in Nat /\ executions \in Nat /\ MaxRetries \in Nat
      /\ deliveries[j] \in [Event -> Nat]
  BY RetriesAssumption DEF TypeOK, TableTypeOK, HistoryTypeOK
<1>2. /\ tries <= MaxRetries /\ executions <= tries + 1
      /\ status[j] = "completed" => executions > 0
      /\ deliveries[j]["completed"] = IF status[j] = "completed" /\ j \in WebhookJobs THEN 1 ELSE 0
      /\ deliveries[j]["failed"] \in IF status[j] = "failed" /\ j \in WebhookJobs THEN {0, 1} ELSE {0}
  BY Zenon DEF Contract!Promise
<1>3. CASE UNCHANGED Contract(j)!contract
  BY Zenon, <1>2, <1>3 DEF Contract!contract, Contract!Promise
<1>4. CASE Contract(j)!Submit \/ Contract(j)!Cancel \/ Contract(j)!Start
  BY Zenon, <1>2, <1>4 DEF Contract!Submit, Contract!Cancel, Contract!Start, Contract!Move, Contract!Promise
<1>5. CASE Contract(j)!Execute
  <2>1. /\ status'[j] = "running" /\ status[j] = "running" /\ executions <= tries
        /\ Len(attempts'[j]) = executions + 1
        /\ retry_count'[j] = tries /\ deliveries'[j] = deliveries[j]
    BY Zenon, <1>5 DEF Contract!Execute
  <2>2. Len(attempts'[j]) <= retry_count'[j] + 1
    BY <1>1, <2>1
  <2> QED BY Zenon, <1>2, <2>1, <2>2 DEF Contract!Promise
<1>6. CASE Contract(j)!Retry
  <2>1. /\ status'[j] = "pending" /\ status[j] = "running" /\ tries < MaxRetries
        /\ retry_count'[j] = tries + 1
        /\ Len(attempts'[j]) = executions /\ deliveries'[j] = deliveries[j]
    BY Zenon, <1>6 DEF Contract!Retry, Contract!Move
  <2>2. retry_count'[j] <= MaxRetries /\ Len(attempts'[j]) <= retry_count'[j] + 1
    BY <1>1, <1>2, <2>1
  <2> QED BY Zenon, <1>2, <2>1, <2>2 DEF Contract!Promise
<1>7. CASE Contract(j)!Complete
  <2>1. /\ status'[j] = "completed" /\ status[j] = "running" /\ executions > 0
        /\ deliveries'[j] = [deliveries[j] EXCEPT !["completed"] = IF j \in WebhookJobs THEN 1 ELSE 0]
        /\ retry_count'[j] = tries /\ Len(attempts'[j]) = executions
    BY Zenon, <1>7 DEF Contract!Complete, Contract!Move
  <2>2. /\ deliveries'[j]["completed"] = IF j \in WebhookJobs THEN 1 ELSE 0
        /\ deliveries'[j]["failed"] = deliveries[j]["failed"]
    BY Zenon, <1>1, <2>1 DEF Event
  <2> QED BY Zenon, <1>2, <2>1, <2>2 DEF Contract!Promise
<1>8. CASE Contract(j)!Fail
  <2>1. /\ status'[j] = "failed" /\ status[j] = "running"
        /\ \/ j \in WebhookJobs /\ deliveries'[j] = [deliveries[j] EXCEPT !["failed"] = 1]
           \/ deliveries'[j] = deliveries[j]
        /\ retry_count'[j] = tries /\ Len(attempts'[j]) = executions
    BY Zenon, <1>8 DEF Contract!Fail, Contract!Move
  <2>2. /\ deliveries'[j]["completed"] = deliveries[j]["completed"]
        /\ \/ deliveries'[j]["failed"] = deliveries[j]["failed"]
           \/ j \in WebhookJobs /\ deliveries'[j]["failed"] = 1
    BY Zenon, <1>1, <2>1 DEF Event
  <2> QED BY Zenon, <1>2, <2>1, <2>2 DEF Contract!Promise
<1> QED
  BY Zenon, <1>3, <1>4, <1>5, <1>6, <1>7, <1>8 DEF Contract!Next

\* PromiseKept: while leases are honoured, every user gets at most MaxRetries
\* retries and one execution per try, no completion that was not executed, and
\* for a job with a webhook exactly one notification of its completion.
THEOREM EveryPromiseKept == ASSUME LeasesHonoured PROVE Spec => []PromiseKept
<1>1. Init => PromiseKept
  <2> SUFFICES ASSUME Init, NEW j \in Job PROVE Contract(j)!Promise
    BY Zenon DEF PromiseKept
  <2>1. /\ status[j] = "absent" /\ retry_count[j] = 0 /\ Len(attempts[j]) = 0
        /\ deliveries[j]["completed"] = 0 /\ deliveries[j]["failed"] = 0
    BY Zenon DEF Init, Event
  <2> QED BY <2>1, RetriesAssumption DEF Contract!Promise
<1>2. TypeOK /\ PromiseKept /\ [\A j \in Job : [Contract(j)!Next]_(Contract(j)!contract)]_vars
        => PromiseKept'
  <2> SUFFICES ASSUME TypeOK, PromiseKept, NEW j \in Job,
                      [\A k \in Job : [Contract(k)!Next]_(Contract(k)!contract)]_vars
               PROVE  Contract(j)!Promise'
    BY Zenon DEF PromiseKept
  <2>1. CASE UNCHANGED vars
    BY Zenon, <2>1 DEF vars, PromiseKept, Contract!Promise
  <2>2. CASE [Contract(j)!Next]_(Contract(j)!contract)
    BY Zenon, <2>2, PromiseStep DEF PromiseKept
  <2> QED BY Zenon, <2>1, <2>2
<1> QED BY <1>1, <1>2, TypeCorrect, ContractImplemented, PTL DEF Spec, ImplementsContract

\* OutcomeFinal: while leases are honoured, a job that has completed, failed or
\* been cancelled is never touched again, by no late write of any goroutine.
THEOREM OutcomesAreFinal == ASSUME LeasesHonoured PROVE Spec => OutcomeFinal
<1>1. [\A j \in Job : [Contract(j)!Next]_(Contract(j)!contract)]_vars
        => [\A j \in Job : status[j] \in Terminal => UNCHANGED Contract(j)!contract]_vars
  <2> SUFFICES ASSUME NEW j \in Job, status[j] \in Terminal,
                      [Contract(j)!Next]_(Contract(j)!contract)
               PROVE  UNCHANGED Contract(j)!contract
    BY Zenon
  <2> QED
    BY Zenon DEF Terminal, Contract!Next, Contract!Submit, Contract!Cancel, Contract!Start,
       Contract!Execute, Contract!Retry, Contract!Complete, Contract!Fail, Contract!Move
<1> QED BY <1>1, ContractImplemented, PTL DEF ImplementsContract, OutcomeFinal
=============================================================================
