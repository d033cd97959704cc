--------------------------- MODULE MCAgentRegistry ---------------------------
(* AgentRegistry on a small instance for TLC. *)
EXTENDS AgentRegistry, TLC

MCSymmetry == Permutations(Agents) \cup Permutations(Tasks)
=============================================================================
