---------------------------- MODULE MCCollectors ----------------------------
(* Nodes with GPUs of one to three vendors.                                *)
EXTENDS Collectors

MCVendorOf == [g \in Gpus |-> CASE g \in {1, 2} -> "nvidia" [] g \in {3, 4} -> "amd" [] OTHER -> "intel"]
=============================================================================
