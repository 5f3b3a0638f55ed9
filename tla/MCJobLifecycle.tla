--------------------------- MODULE MCJobLifecycle ---------------------------
(* Instances of JobLifecycle and its refinement for TLC. *)
EXTENDS JobRefinement, TLC

\* Scheduler processes are interchangeable (safety runs only).
WorkerSymmetry == Permutations(Worker)
=============================================================================
