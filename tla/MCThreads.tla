----------------------------- MODULE MCThreads -----------------------------
(* An instance of Threads for TLC: the boot thread and its workers. *)
EXTENDS Threads
=============================================================================
