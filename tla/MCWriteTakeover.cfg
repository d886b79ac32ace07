CONSTANTS
  Group = {g1}
  Depth = 1
  CapBytes = 2
  FlushSize = 1
  DeliverCap = 1
  QueueCap = 1
  Acks = {"strict"}
  MaxRun = 1
  MaxFrames = 1
  MaxFaults = 0
  Rivals = {g1}
SPECIFICATION Spec
INVARIANT FencedSilent
CHECK_DEADLOCK FALSE
