------------------------------- MODULE MCSync -------------------------------
(* Instances of Sync for TLC: workers that share mutexes and conditions. *)
EXTENDS Sync, TLC

\* The workers are interchangeable; the boot thread is not.
WorkerSymmetry == Permutations(Thread \ {Main})
=============================================================================
