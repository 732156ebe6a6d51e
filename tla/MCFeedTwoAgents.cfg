\* Two agents, one browser: broadcasts of different streams overlap.
SPECIFICATION FairSpec
CONSTANTS
  n1 = n1
  n2 = n2
  c1 = c1
  none = none
  Nodes = {n1, n2}
  Streams = {n1, n2}
  NodeOf <- MCNodeOf
  Clients = {c1}
  NoClient = none
  ChanCap = 1
  MaxVersion = 1
INVARIANTS
  NoUpdateSkipped
PROPERTIES
  StreamsNeverBlock
  GoneClientIsUnregistered
  ConnectedClientConverges
