CONSTANTS
  Node = {n1}
  NoNode = NoNode
  Group = {g1}
  Kinds = {"grant", "join"}
  MaxInc = 2
  MaxBatch = 2
  MaxFaults = 1
SPECIFICATION FairSpec
INVARIANTS IndInv ReturnedLanded IncarnationFence
PROPERTIES IsSharedLog AppendReturns
CHECK_DEADLOCK FALSE
