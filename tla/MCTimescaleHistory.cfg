\* Two streams and a request share a pool of two connections.
SPECIFICATION FairSpec
CONSTANTS
  g1 = g1
  g2 = g2
  n1 = n1
  w1 = w1
  w2 = w2
  r1 = r1
  Gpus = {g1, g2}
  NodeOf <- OnOneNode
  IndexOf <- OneVendor
  Batches <- MCBatches
  Times <- MCTimes
  Writers = {w1, w2}
  Readers = {r1}
  PoolSize = 2
  MaxBatches = 3
INVARIANTS
  TypeOK
  ConnectionsReturned
PROPERTIES
  ImplementsHistoryLog
  WritesReturn
  CloseEnds
