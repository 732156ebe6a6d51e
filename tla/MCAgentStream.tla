--------------------------- MODULE MCAgentStream ---------------------------
(* Two streams of one agent, as while a server reconnects.                 *)
EXTENDS AgentStream

CONSTANTS s1, s2
=============================================================================
