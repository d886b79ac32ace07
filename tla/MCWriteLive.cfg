CONSTANTS
  Group = {g1}
  Depth = 1
  CapBytes = 1
  FlushSize = 2
  DeliverCap = 1
  QueueCap = 1
  Acks = {"relaxed", "strict", "aof"}
  MaxRun = 1
  MaxFrames = 2
  MaxFaults = 1
  Rivals = {}
SPECIFICATION FairSpec
PROPERTIES FramesCommit WaitersWake LagClears CloseReturns
CHECK_DEADLOCK FALSE
