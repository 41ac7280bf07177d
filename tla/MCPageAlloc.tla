---------------------------- MODULE MCPageAlloc ----------------------------
(* Instances of PageAlloc for TLC. *)
EXTENDS PageAlloc, TLC

\* With pages of 4 bytes: a zone of pages 0 and 1, a range too small for a
\* page, and a zone of pages 4 to 8, which ends inside a block of two.
TwoZones == <<<<0, 9>>, <<10, 14>>, <<15, 38>>>>

\* All of it is free, and page 0 is left out.
AllFree == <<<<0, 8>>, <<16, 36>>>>

OneZone == <<<<0, 32>>>>

\* Pages 2 and 4 to 7 are free; 0, 1 and 3 are reserved.
SomeReserved == <<<<5, 12>>, <<16, 32>>>>

CallerSymmetry == Permutations(Caller)
=============================================================================
