------------------------------ MODULE MCRbTree ------------------------------
(* An instance of RbTree for TLC. *)
EXTENDS RbTree
=============================================================================
