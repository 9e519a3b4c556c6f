---------------------------- MODULE MCAgentRunner ----------------------------
(* Small instances of AgentRunner for TLC; a unit of time is a quarter of  *)
(* an hour in stomped.cfg.                                                 *)
EXTENDS AgentRunner

CONSTANTS research, remediate, s1, s2, r1, r2, r3

TwoHandlers == <<research, remediate>>
=============================================================================
