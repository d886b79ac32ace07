CONSTANTS
  NSeg = 2
  SegSlots = 3
  Key = {k1}
  Loss <- InOrder
  MaxOp = 3
  MaxCkpt = 1
  MaxWork = 4
  MaxSeal = 0
  MaxCrash = 2
SPECIFICATION Spec
INVARIANT CrashesKept
CHECK_DEADLOCK FALSE
