----------------------------- MODULE MCJobQueue -----------------------------
(* JobQueue for TLC: jobs of each kind, two workers and a few faults.       *)
EXTENDS JobQueue
=============================================================================
