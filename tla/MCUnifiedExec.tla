---------------------------- MODULE MCUnifiedExec ----------------------------
(* UnifiedExec on a small instance for TLC. *)
EXTENDS UnifiedExec

MCCalls == Execs \cup Shells

\* Long-lived commands; requests beside one-shot calls.
MCScenarios == {Execs, Requests \cup Shells}
=============================================================================
