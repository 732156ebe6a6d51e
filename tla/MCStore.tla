------------------------------- MODULE MCStore -------------------------------
(* Small instances of the in-memory store.                                 *)
EXTENDS MemoryStore, TLC

CONSTANTS g1, g2, n1

OnOneNode == g1 :> n1 @@ g2 :> n1
\* Two GPUs of one vendor.
OneVendor == g1 :> 0 @@ g2 :> 1
\* A GPU of each of two vendors, whose collectors both count from 0.
TwoVendors == g1 :> 0 @@ g2 :> 0

\* What a snapshot of the node lists: both GPUs, or only one was read.
MCBatches == {<<g1, g2>>, <<g2>>}
MCTimes == {1, 2}
=============================================================================
