CONSTANTS
  Group = {g1}
  Depth = 3
  CapBytes = 2
  FlushSize = 2
  DeliverCap = 1
  QueueCap = 2
  Acks = {"strict"}
  MaxRun = 1
  MaxFrames = 3
  MaxFaults = 1
  Rivals = {g1}
SPECIFICATION Spec
INVARIANTS AcksDurable CommitsDense NoStrandedWaiter CloseDrains
CHECK_DEADLOCK FALSE
