\* The pod of one node moves between two addresses; NODE_IPS lists the first or is not set.
SPECIFICATION FairSpec
CONSTANTS
  n1 = n1
  a2 = a2
  i1 = i1
  i2 = i2
  i3 = i3
  local = local
  none = none
  nobody = nobody
  Nodes = {n1}
  Addrs = {n1, a2}
  AddrNode <- OneNode
  LocalHost = local
  NodeIPLists = {{}, {n1}}
  NoPod = none
  Gos = {i1, i2, i3}
  GoKey <- MCGoKey
  NoGo = nobody
INVARIANTS
  TypeOK
  ConnectionsAreLive
  NoOrphanConnection
PROPERTIES
  DoneEnds
  FollowsThePod
