SPECIFICATION Spec
CONSTANTS
  Vertex = {v1, v2, v3, v4}
  NoVertex = NoVertex
  Self = Self
  n1 = n1
  n2 = n2
  w1 = w1
  w2 = w2
  w3 = w3
  Handler = {h1, h2}
  Subscriber = sub
  Peer = {n1}
  Trustable = {}
  Address = {Self, n1, n2, w1, w2, w3}
  TrxId = {"genesis", "a", "b", "c"}
  Trx <- SpendTwiceAndGoOn
  CreatedAt <- NoCreatedAt
  MaxArraySize = 1
  MaxRepeats = 0
  InitialThroughput = 1
  TruncateDiff = 1
  Truncate = 10
  ChainLength = 0
  FirstCut = 0
  MaxPeerLeaves = 2
  MaxThroughput = 6
SYMMETRY Handlers
INVARIANTS
  TypeOK
  TrxIndexed
  ReferencedAreFunded
  LoadedHasLeaf
PROPERTY ImplementsLedger
CHECK_DEADLOCK FALSE
