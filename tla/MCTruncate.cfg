SPECIFICATION FairChainSpec
CONSTANTS
  Vertex = {1, 2, 3, 4, 5, 6, 7, 8, 9, 10, 11}
  NoVertex = NoVertex
  Self = Self
  n1 = n1
  n2 = n2
  w1 = w1
  w2 = w2
  w3 = w3
  Handler = {h1}
  Subscriber = sub
  Peer = {n1}
  Trustable = {}
  Address = {Self, n1, n2, w1, w2, w3}
  TrxId = {1, 2, 3, 4, 5, 6, 7, 8, 9, 10, 11}
  Trx <- ChainThenTransfers
  CreatedAt <- NoCreatedAt
  MaxArraySize = 1
  MaxRepeats = 0
  InitialThroughput = 1
  TruncateDiff = 1
  Truncate = 2
  ChainLength = 7
  FirstCut = 4
  MaxPeerLeaves = 2
  MaxThroughput = 5
INVARIANTS
  StoredOnce
  StorageIsClosed
PROPERTIES
  StepsOfLedger
  TruncationKeepsFunds
  RequestsFinish
CHECK_DEADLOCK FALSE
