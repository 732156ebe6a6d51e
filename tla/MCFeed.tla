------------------------------- MODULE MCFeed -------------------------------
(* Small instances of the live feed.  A stream is named after its node.    *)
EXTENDS WebSocketFeed, TLC

MCNodeOf == [s \in Streams |-> s]
ClientSymmetry == Permutations(Clients)
=============================================================================
