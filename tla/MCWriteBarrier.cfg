CONSTANTS
  Group = {g1, g2}
  Depth = 2
  CapBytes = 1
  FlushSize = 2
  DeliverCap = 1
  QueueCap = 1
  Acks = {"relaxed", "aof"}
  MaxRun = 2
  MaxFrames = 2
  MaxFaults = 0
  Rivals = {}
SPECIFICATION Spec
SYMMETRY GroupSymmetry
INVARIANTS TypeOK AcksDurable NoStrandedWaiter CapOvershoot
CHECK_DEADLOCK FALSE
