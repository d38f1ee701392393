SPECIFICATION Spec
CONSTANTS
  Vertex = {v1, v2, v3}
  NoVertex = NoVertex
  Self = Self
  n1 = n1
  n2 = n2
  w1 = w1
  w2 = w2
  w3 = w3
  Handler = {h1}
  Subscriber = sub
  Peer = {n1}
  Trustable = {n1}
  Address = {Self, n1, n2, w1, w2, w3}
  TrxId = {"genesis", "a", "b"}
  Trx <- JoinPeer
  CreatedAt <- NoCreatedAt
  MaxArraySize = 2
  MaxRepeats = 0
  InitialThroughput = 2
  TruncateDiff = 1
  Truncate = 10
  ChainLength = 0
  FirstCut = 0
  MaxPeerLeaves = 3
  MaxThroughput = 5
INVARIANTS
  TrxIndexed
  EdgesAreParents
CHECK_DEADLOCK FALSE
