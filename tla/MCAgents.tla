------------------------------ MODULE MCAgents ------------------------------
(* A small instance of the connections to the agents.                      *)
EXTENDS AgentConnections, TLC

CONSTANTS n1, a2, i1, i2, i3

\* One node, named after its address as some clusters do, whose pod moves
\* between that address and another one.
OneNode == n1 :> n1 @@ a2 :> n1

\* Two goroutines for the node and one for localhost.
MCGoKey == i1 :> n1 @@ i2 :> n1 @@ i3 :> LocalHost
=============================================================================
