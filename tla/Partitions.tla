----------------------------- MODULE Partitions -----------------------------
(***************************************************************************)
(* The monthly partitions of job_attempts and the maintainers, one in each *)
(* scheduler process, that provide and prune them.                         *)
(* internal/scheduler/partition.go over                                    *)
(* internal/infrastructure/postgres/partition_repo.go.                     *)
(*                                                                         *)
(* Months are numbered.  An attempt whose month has no partition goes to   *)
(* the DEFAULT partition, and Postgres refuses a partition for a month     *)
(* that DEFAULT has rows of.  Every statement is one step and may fail.    *)
(***************************************************************************)
EXTENDS Integers

CONSTANTS
    Maintainer,      \* scheduler processes
    MonthsAhead,     \* PARTITION_MONTHS_AHEAD
    Retention,       \* JOB_ATTEMPT_RETENTION_MONTHS; 0 for none
    Provided,        \* the last month that the migration made a partition for
    LastMonth        \* bound on the calendar

ASSUME PartitionAssumption == MonthsAhead \in Nat /\ Retention \in Nat /\ Provided \in Nat

VARIABLES
    month,       \* the current month
    partitions,  \* months with a partition
    default,     \* months with rows in DEFAULT
    began,       \* the month in which each maintainer's pass began
    offset,      \* the loop counter of EnsureMonthlyPartitions; -1 when idle
    covered,     \* the last month that the passes so far, or the migration, covered
    lapsed       \* "yes" once a month began that they had not

partitionVars == <<month, partitions, default, began, offset, covered, lapsed>>

PartitionInit ==
    /\ month = 0
    /\ partitions = 0..Provided
    /\ default = {}
    /\ began = [m \in Maintainer |-> 0]
    /\ offset = [m \in Maintainer |-> -1]
    /\ covered = Provided
    /\ lapsed = "no"

NextMonth ==
    /\ month < LastMonth
    /\ month' = month + 1
    /\ lapsed' = IF month + 1 > covered THEN "yes" ELSE lapsed
    /\ UNCHANGED <<partitions, default, began, offset, covered>>

CreateAttempt ==
    /\ month \notin partitions
    /\ default' = default \cup {month}
    /\ UNCHANGED <<month, partitions, began, offset, covered, lapsed>>

-----------------------------------------------------------------------------
(* PartitionMaintainer.maintain *)

Maintain(m) ==
    /\ offset[m] = -1
    /\ began' = [began EXCEPT ![m] = month]
    /\ offset' = [offset EXCEPT ![m] = 0]
    /\ UNCHANGED <<month, partitions, default, covered, lapsed>>

\* Bug: the last month ahead is left out.
FaultyInLoop(m) == offset[m] \in 0..(MonthsAhead - 1)
InLoop(m) == offset[m] \in 0..MonthsAhead

\* CREATE TABLE IF NOT EXISTS for the month at hand.
EnsurePartition(m) ==
    LET wanted == began[m] + offset[m]
    IN  /\ InLoop(m)
        /\ wanted \in partitions \/ wanted \notin default
        /\ partitions' = partitions \cup {wanted}
        /\ offset' = [offset EXCEPT ![m] = @ + 1]
        /\ UNCHANGED <<month, default, began, covered, lapsed>>

\* Months that are over at the cutoff.  From the 29th on AddDate may end up in
\* the month after the one it went back to.
Expired(m, overflow) ==
    IF Retention = 0 THEN {} ELSE {p \in partitions : p < began[m] - Retention + overflow}

\* DropPartitionsBefore drops one after the other until one fails.
Drop(m) ==
    /\ \E overflow \in {0, 1} : \E gone \in SUBSET Expired(m, overflow) :
        partitions' = partitions \ gone
    /\ offset' = [offset EXCEPT ![m] = -1]

\* The loop is through; then expired months are dropped.
EndPass(m) ==
    /\ offset[m] >= 0 /\ ~InLoop(m)
    /\ covered' = IF began[m] + MonthsAhead > covered THEN began[m] + MonthsAhead ELSE covered
    /\ Drop(m)
    /\ UNCHANGED <<month, default, began, lapsed>>

\* A statement of the loop fails, as CREATE does for a month in DEFAULT: the rest
\* of the loop is left out and expired months are dropped all the same.
FailPass(m) ==
    /\ InLoop(m)
    /\ Drop(m)
    /\ UNCHANGED <<month, default, began, covered, lapsed>>

PartitionNext ==
    \/ NextMonth \/ CreateAttempt
    \/ \E m \in Maintainer : Maintain(m) \/ EnsurePartition(m) \/ EndPass(m) \/ FailPass(m)

PartitionSpec == PartitionInit /\ [][PartitionNext]_partitionVars

-----------------------------------------------------------------------------
(* Correctness property *)

\* "so the DEFAULT partition stays empty": as long as every month is reached by
\* some pass that went through, or by the migration, no attempt goes to DEFAULT,
\* however passes overlap, fail, stall or prune.
DefaultStaysEmpty == lapsed = "no" => default = {}
=============================================================================
