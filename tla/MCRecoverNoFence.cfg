CONSTANTS
  Group = {g1}
  Depth = 2
  CapBytes = 4
  FlushSize = 1
  DeliverCap = 1
  QueueCap = 1
  Acks = {"strict"}
  MaxRun = 1
  MaxFrames = 2
  MaxFaults = 0
  Rivals = {}
  MaxInc = 2
  Outcomes = {"lateCommit"}
SPECIFICATION RecSpec
INVARIANTS AckedCommitted
CHECK_DEADLOCK FALSE
