--------------------------- MODULE MCRolloutWriter ---------------------------
(* RolloutWriter on a small instance for TLC. *)
EXTENDS RolloutWriter
=============================================================================
