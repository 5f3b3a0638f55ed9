------------------------------ MODULE JobLease ------------------------------
(***************************************************************************)
(* The heartbeat lease of one run of a job, with clocks: Worker.heartbeat  *)
(* in internal/scheduler/worker.go against the reaper's cutoff.  It asks   *)
(* under which latencies the timing assumption of JobLifecycle             *)
(* (LeasesHonoured) is justified while the job is being executed.          *)
(*                                                                         *)
(* Times are whole units.  Ages count up from the event they are named     *)
(* for; nextTick counts down.                                              *)
(***************************************************************************)
EXTENDS Naturals

CONSTANTS
    HeartbeatInterval,  \* heartbeatInterval
    LeaseTimeout,       \* heartbeatLeaseTimeout
    StaleCutoff,        \* the reaper's stale cutoff
    StartDelay,         \* most time from the claim's NOW() to the heartbeat goroutine
    MaxLatency          \* most time an UpdateHeartbeat call takes

ASSUME LeaseAssumption ==
    /\ HeartbeatInterval \in Nat \ {0}
    /\ LeaseTimeout \in Nat \ {0}
    /\ StaleCutoff \in Nat
    /\ StartDelay \in Nat
    /\ MaxLatency \in Nat

VARIABLES
    phase,      \* of the run: see Phase
    rowAge,     \* time since job_heartbeats.heartbeat_at
    leaseAge,   \* time since lastSuccess
    nextTick,   \* time until the ticker fires
    ticks,      \* ticks buffered in ticker.C
    call,       \* the UpdateHeartbeat call: see Call
    callAge,    \* how long it has been under way
    job         \* "held" by this run, or "requeued" by the reaper

vars == <<phase, rowAge, leaseAge, nextTick, ticks, call, callAge, job>>
loop == <<leaseAge, nextTick, ticks>>

\* Claimed but not heartbeating yet; making the HTTP call; ended without an
\* outcome (fenced or crashed); ended with one.
Phase == {"starting", "executing", "relinquished", "finished"}

\* No call; under way; under way with its statement executed.
Call == {"none", "sent", "written"}

Init ==
    /\ phase = "starting"
    /\ rowAge = 0 /\ leaseAge = 0
    /\ nextTick = HeartbeatInterval /\ ticks = 0
    /\ call = "none" /\ callAge = 0
    /\ job = "held"

\* CreateAttempt and HasCredits are done: go w.heartbeat(...), executor.Run(...).
StartHeartbeat ==
    /\ phase = "starting"
    /\ phase' = "executing"
    /\ leaseAge' = 0 /\ nextTick' = HeartbeatInterval /\ ticks' = 0
    /\ UNCHANGED <<rowAge, call, callAge, job>>

\* The ticker buffers one tick and drops those that find the buffer full.
AdvanceTicker ==
    /\ ticks' = IF nextTick = 1 THEN 1 ELSE ticks
    /\ nextTick' = IF nextTick = 1 THEN HeartbeatInterval ELSE nextTick - 1

\* One unit of time passes.  The loop takes a buffered tick without delay.
Pass ==
    /\ job = "held" /\ phase # "finished"
    /\ phase = "starting" => rowAge < StartDelay
    /\ phase = "relinquished" => rowAge <= StaleCutoff
    /\ phase = "executing" => (call # "none" \/ ticks = 0)
    /\ call # "none" => callAge < MaxLatency
    /\ rowAge' = rowAge + 1
    /\ IF phase = "executing"
       THEN leaseAge' = leaseAge + 1 /\ AdvanceTicker
       ELSE UNCHANGED loop
    /\ callAge' = IF call # "none" THEN callAge + 1 ELSE callAge
    /\ UNCHANGED <<phase, call, job>>

BeginUpdate ==
    /\ phase = "executing" /\ ticks = 1 /\ call = "none"
    /\ ticks' = 0
    /\ call' = "sent" /\ callAge' = 0
    /\ UNCHANGED <<phase, rowAge, leaseAge, nextTick, job>>

WriteRow ==
    /\ call = "sent"
    /\ call' = "written" /\ rowAge' = 0
    /\ UNCHANGED <<phase, loop, callAge, job>>

EndCall == call' = "none" /\ callAge' = 0

\* lastSuccess = time.Now(), taken when the reply is in.
UpdateOK ==
    /\ call = "written"
    /\ leaseAge' = 0
    /\ EndCall
    /\ UNCHANGED <<phase, rowAge, nextTick, ticks, job>>

\* Bug: an error counts as a sign of life.
FaultyUpdateError ==
    /\ call # "none"
    /\ leaseAge' = 0
    /\ EndCall
    /\ UNCHANGED <<phase, rowAge, nextTick, ticks, job>>

\* The call fails, before or after its statement took effect.  The lease is
\* looked at only here; losing it cancels the HTTP call.
UpdateError ==
    /\ call # "none"
    /\ phase' = IF leaseAge >= LeaseTimeout THEN "relinquished" ELSE phase
    /\ EndCall
    /\ UNCHANGED <<rowAge, loop, job>>

\* Bug: the heartbeat goroutine outlives the run.
FaultyLeave ==
    /\ phase \in {"starting", "executing"}
    /\ phase' = "relinquished"
    /\ UNCHANGED <<rowAge, loop, call, callAge, job>>

\* The HTTP call returns, or the process dies.  Either ends the heartbeats.
Leave ==
    /\ phase \in {"starting", "executing"}
    /\ phase' \in {"relinquished"} \cup (IF phase = "executing" THEN {"finished"} ELSE {})
    /\ EndCall
    /\ UNCHANGED <<rowAge, loop, job>>

\* The reaper requeues the job for another worker: heartbeat_at < NOW() - cutoff.
Reap ==
    /\ job = "held" /\ phase # "finished"
    /\ rowAge > StaleCutoff
    /\ job' = "requeued"
    /\ UNCHANGED <<phase, rowAge, loop, call, callAge>>

Next == StartHeartbeat \/ Pass \/ BeginUpdate \/ WriteRow \/ UpdateOK
        \/ UpdateError \/ Leave \/ Reap

Spec == Init /\ [][Next]_vars
-----------------------------------------------------------------------------
\* Every variable keeps its type, and a call is under way only in an execution.
TypeOK ==
    /\ phase \in Phase
    /\ rowAge \in Nat /\ leaseAge \in Nat /\ callAge \in Nat
    /\ nextTick \in 1..HeartbeatInterval
    /\ ticks \in 0..1
    /\ call \in Call
    /\ job \in {"held", "requeued"}
    /\ call # "none" => phase = "executing"

\* "The current owner relinquishes the job BEFORE the reaper hands it to another
\* worker" (comment of heartbeatLeaseTimeout): when the reaper takes the job, its
\* HTTP call is over, so the endpoint never sees two deliveries at once.
ExclusiveDelivery == job = "requeued" => phase \in {"relinquished", "finished"}
=============================================================================
