CONSTANTS
  Node = {n1, n2}
  NoNode = NoNode
  Group = {g1}
  Kinds = {"grant","release","heartbeat","checkpoint","leave"}
  MaxInc = 1
  MaxBatch = 2
  MaxFaults = 1
SYMMETRY NodeSymmetry
SPECIFICATION Spec
INVARIANTS FoldsAgree ChainOrder OneWriterPerEpoch
CHECK_DEADLOCK FALSE
