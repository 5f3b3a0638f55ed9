-------------------------- MODULE BufferRefinement --------------------------
(* BufferDelivery implements FifoContract, while claims and heartbeats are orderly. *)
EXTENDS BufferDelivery

Fifo == INSTANCE FifoContract

\* Drainers that share a buffer look like one that works off a queue: with
\* ordered claims and honoured leases, no crash, retry, 429, rescue or replay
\* lets an item overtake another or run beside it.
ImplementsFifo == Fifo!Spec
=============================================================================
