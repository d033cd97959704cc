-------------------------- MODULE MCTurnLifecycle --------------------------
(* Instances of TurnLifecycle for TLC. *)
EXTENDS TurnLifecycle

CONSTANTS i1, i2, m1
=============================================================================
