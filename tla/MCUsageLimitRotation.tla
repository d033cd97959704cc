------------------------ MODULE MCUsageLimitRotation ------------------------
(* Instances of UsageLimitRotation for TLC. *)
EXTENDS UsageLimitRotation

CONSTANTS A, B, C

Registries == {<<>>, <<A>>, <<A, B>>, <<B, A, C>>}
=============================================================================
