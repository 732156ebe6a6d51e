\* Two streams write the GPUs of a node, one request at a time reads.
SPECIFICATION FairSpec
CONSTANTS
  g1 = g1
  g2 = g2
  n1 = n1
  w1 = w1
  w2 = w2
  r1 = r1
  none = none
  Gpus = {g1, g2}
  NodeOf <- OnOneNode
  IndexOf <- OneVendor
  Batches <- MCBatches
  Times <- MCTimes
  Writers = {w1, w2}
  Readers = {r1}
  NoWriter = none
  RingSize = 2
  MaxBatches = 3
INVARIANTS
  TypeOK
  RingsHoldNewest
  AnswersAreOfTheGpu
PROPERTIES
  ImplementsHistoryLog
  AnswersFromCommitted
  WritesReturn
