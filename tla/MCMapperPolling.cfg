\* Pods come and go while the mapper polls; they may stop doing so.
SPECIFICATION FairSpec
CONSTANTS
  n1 = n1
  n2 = n2
  g1 = g1
  g2 = g2
  p1 = p1
  p2 = p2
  p3 = p3
  p4 = p4
  va = va
  vb = vb
  none = none
  absent = absent
  Nodes = {n1, n2}
  Agents = {n1}
  Gpus = {g1, g2}
  GpuNode <- MCGpuNode
  GpuIndex <- MCGpuIndex
  GpuVendor <- MCGpuVendor
  Claims = {p1, p2, p3, p4}
  ClaimNode <- MCClaimNode
  ClaimVendor <- MCClaimVendor
  ClaimCount <- MCClaimCount
  ListOrder <- MCListOrder
  NoClaim = none
  NotShown = absent
INVARIANTS
  TypeOK
  MadeFromOneListing
PROPERTIES
  AssignmentConverges
\* A panic ends the process.
CHECK_DEADLOCK FALSE
