----------------------------- MODULE MCJobLease -----------------------------
(* Instances of JobLease for TLC, in seconds. *)
EXTENDS JobLease
=============================================================================
