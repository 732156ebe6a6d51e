\* A node with GPUs of two vendors: they share an index.
SPECIFICATION Spec
CONSTANTS
  g1 = g1
  g2 = g2
  n1 = n1
  w1 = w1
  w2 = w2
  r1 = r1
  none = none
  Gpus = {g1, g2}
  NodeOf <- OnOneNode
  IndexOf <- TwoVendors
  Batches <- MCBatches
  Times <- MCTimes
  Writers = {w1, w2}
  Readers = {r1}
  NoWriter = none
  RingSize = 2
  MaxBatches = 3
INVARIANT AnswersAreOfTheGpu
