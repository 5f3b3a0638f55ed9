-------------------------- MODULE MCBufferDelivery --------------------------
(* Instances of BufferDelivery for TLC. *)
EXTENDS BufferRefinement, TLC

\* Drainer goroutines are interchangeable (safety runs only).
DrainerSymmetry == Permutations(Drainer)
=============================================================================
