---------------------------- MODULE MCAgentRunner ----------------------------
(* Small instances of AgentRunner.                                          *)
EXTENDS AgentRunner
=============================================================================
