CONSTANTS
  NSeg = 2
  SegSlots = 4
  Key = {k1}
  Loss <- AnyOrder
  MaxOp = 2
  MaxCkpt = 1
  MaxWork = 4
  MaxSeal = 0
  MaxCrash = 2
SPECIFICATION Spec
INVARIANT Reopens
CHECK_DEADLOCK FALSE
