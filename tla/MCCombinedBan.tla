--------------------------- MODULE MCCombinedBan ---------------------------
(* The combined ban on small instances for TLC. *)
EXTENDS CombinedBan, TLC

\* Jobs are interchangeable (safety runs only).
JobSymmetry == Permutations(Job)
=============================================================================
