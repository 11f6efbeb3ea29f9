---------------------------- MODULE MCAgentFleet ----------------------------
(* The instance of AgentFleet for TLC.                                       *)
EXTENDS AgentFleet

CONSTANTS t1, t2
=============================================================================
