SPECIFICATION Spec
CONSTANTS
  Node = {g, a, b}
  GenesisNode = g
  Vertex = {v0, v1, v2}
  GenesisVertex = v0
  NoVertex = NoVertex
  Trx = {t1, t2}
  MaxWork = 3
SYMMETRY Symmetry
INVARIANTS
  MeshComplete
  NoCircularWait
  NothingElseMissed
  GossipersHold
CHECK_DEADLOCK FALSE
