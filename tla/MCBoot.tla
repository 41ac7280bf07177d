------------------------------- MODULE MCBoot -------------------------------
(* Instances of Boot for TLC. *)
EXTENDS Boot

\* Every remainder by every size of page, and more than is mapped.
Sizes == 1 .. MAX_PMEM_SIZE + 2
=============================================================================
