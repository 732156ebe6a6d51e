----------------------------- MODULE MCDashboard -----------------------------
(* A page that shows a node with a GPU of each of two vendors.  The second  *)
(* has a UUID of its own or, as may be where no UUID is read, the first's.  *)
EXTENDS Dashboard

CONSTANT n1

MCGpuNode == [g \in Gpus |-> n1]
MCGpuVendor == [g \in Gpus |-> IF g = 1 THEN "nvidia" ELSE "amd"]
MCObjects ==
  {o \in [gpu : Gpus, uuid : Uuids, index : Indices, pod : {Idle}] :
     o.index = o.gpu /\ o.uuid \in {1, o.gpu}}
=============================================================================
