CONSTANTS
  NSeg = 2
  SegSlots = 4
  Key = {k1}
  Loss <- Killed
  MaxOp = 2
  MaxCkpt = 1
  MaxWork = 4
  MaxSeal = 1
  MaxCrash = 2
SPECIFICATION Spec
INVARIANT AckedSurvive
CHECK_DEADLOCK FALSE
