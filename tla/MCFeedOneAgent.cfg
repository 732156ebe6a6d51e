\* One agent, two browsers.
SPECIFICATION Spec
CONSTANTS
  n1 = n1
  c1 = c1
  c2 = c2
  none = none
  Nodes = {n1}
  Streams = {n1}
  NodeOf <- MCNodeOf
  Clients = {c1, c2}
  NoClient = none
  ChanCap = 1
  MaxVersion = 2
INVARIANTS
  TypeOK
  NoSendOnClosedChannel
  NoLeakedSubscription
  DrainedClientIsCurrent
SYMMETRY ClientSymmetry
