----------------------------- MODULE MCAgentSync ----------------------------
(* Small instances of AgentSync for TLC. *)
EXTENDS AgentSync
=============================================================================
