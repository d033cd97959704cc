---------------------------- MODULE MCMemoryJobs ----------------------------
(* MemoryJobs on a small instance for TLC. *)
EXTENDS MemoryJobs, TLC

MCSymmetry == Permutations(Threads) \cup Permutations(Workers)
=============================================================================
