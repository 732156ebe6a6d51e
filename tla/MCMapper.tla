------------------------------ MODULE MCMapper ------------------------------
(* A small cluster.  Node n1 has two GPUs of one vendor and runs three     *)
(* pods that use it, one of which asks for no GPUs; n2 runs a pod for a    *)
(* GPU of another vendor, which no agent reports.                          *)
EXTENDS PodMapper, TLC

CONSTANTS n1, n2, g1, g2, p1, p2, p3, p4, va, vb

MCGpuNode == [g \in Gpus |-> n1]
MCGpuIndex == g1 :> 0 @@ g2 :> 1
MCGpuVendor == [g \in Gpus |-> va]
MCClaimNode == [c \in Claims |-> IF c = p3 THEN n2 ELSE n1]
MCClaimVendor == [c \in Claims |-> IF c = p3 THEN vb ELSE va]
MCClaimCount == [c \in Claims |-> IF c = p4 THEN 0 ELSE 1]
MCListOrder == p1 :> 0 @@ p2 :> 2 @@ p3 :> 3 @@ p4 :> 1
=============================================================================
