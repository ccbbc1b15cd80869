------------------------------- MODULE MCAgents -------------------------------
(* Agents, for TLC. *)
EXTENDS AgentsProperties
=============================================================================
