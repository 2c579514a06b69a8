---------------------------- MODULE MCAgentWake ----------------------------
(* Instances of AgentWake for TLC.                                         *)
EXTENDS AgentWake, TLC
=============================================================================
