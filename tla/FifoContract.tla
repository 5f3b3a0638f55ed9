---------------------------- MODULE FifoContract ----------------------------
(***************************************************************************)
(* What a buffer promises its user: the items are delivered in the order   *)
(* they were pushed, one at a time, and an item's successor is not touched *)
(* before the item is settled.  A delivery may be repeated.                *)
(***************************************************************************)
EXTENDS Naturals

CONSTANT MaxItems
VARIABLE status

Item == 1..MaxItems
Waiting == {"pending", "running"}

Init == status = [i \in Item |-> "none"]

\* Items fill the queue from the front.
Push(i) ==
    /\ status[i] = "none"
    /\ \A j \in 1..(i - 1) : status[j] # "none"
    /\ status' = [status EXCEPT ![i] = "pending"]

\* Only the head of the queue is delivered.
Deliver(i) ==
    /\ status[i] = "pending"
    /\ \A j \in 1..(i - 1) : status[j] \notin Waiting
    /\ status' = [status EXCEPT ![i] = "running"]

\* The delivery is to be repeated, or it is over, one way or the other.
Conclude(i) ==
    /\ status[i] = "running"
    /\ \E s \in {"pending", "completed", "failed"} :
        status' = [status EXCEPT ![i] = s]

\* The buffer is deleted with everything in it.
Discard ==
    status' = [i \in Item |-> IF status[i] = "none" THEN "none" ELSE "deleted"]

Next == Discard \/ \E i \in Item : Push(i) \/ Deliver(i) \/ Conclude(i)
Spec == Init /\ [][Next]_status

\* What this comes to for the user: the queue has no gaps, and when an item is with
\* the target, or has been, no earlier one is still to be delivered.
InOrder ==
    \A i, j \in Item : i < j =>
        /\ status[j] # "none" => status[i] # "none"
        /\ status[j] \in {"running", "completed", "failed"} => status[i] \notin Waiting
=============================================================================
