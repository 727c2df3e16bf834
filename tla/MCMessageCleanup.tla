-------------------------- MODULE MCMessageCleanup --------------------------
(* Message cleanup on small instances for TLC. *)
EXTENDS MessageCleanup, TLC

\* Messages are interchangeable, and so are executors (safety runs only).
CleanupSymmetry == Permutations(Message) \cup Permutations(Executor)
=============================================================================
