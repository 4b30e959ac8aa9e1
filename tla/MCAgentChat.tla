---------------------------- MODULE MCAgentChat ----------------------------
(* A conversation of a few turns: the first is asked back about, the second *)
(* planned, the others revise, confirm or begin again.                      *)
EXTENDS AgentChat
=============================================================================
