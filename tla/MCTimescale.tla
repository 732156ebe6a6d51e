----------------------------- MODULE MCTimescale -----------------------------
(* A small instance of the TimescaleDB store.                              *)
EXTENDS TimescaleStore, TLC

CONSTANTS g1, g2, n1

OnOneNode == g1 :> n1 @@ g2 :> n1
OneVendor == g1 :> 0 @@ g2 :> 1
MCBatches == {<<g1, g2>>, <<g2>>}
MCTimes == {1, 2}
=============================================================================
