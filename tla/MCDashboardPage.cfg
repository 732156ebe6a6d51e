\* A node that comes and goes, with two GPUs that do; two ranges.
SPECIFICATION FairSpec
CONSTANTS
  Sockets = {"a"}
  n1 = n1
  Nodes = {n1}
  Gpus = {1, 2}
  Uuids = {1, 2}
  Indices = {1, 2}
  Pods = {}
  Vendors = {"nvidia", "amd"}
  GpuNode <- MCGpuNode
  GpuVendor <- MCGpuVendor
  Objects <- MCObjects
  Idle = "idle"
  All = "all"
  Ranges = {1, 2}
  NoGpu = NoGpu
  MaxRequests = 2
INVARIANTS
  TypeOK
  OneLink
  GridShowsMatches
  ChartsAreThePanels
PROPERTIES
  Reconnects
