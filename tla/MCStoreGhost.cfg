CONSTANTS
  NSeg = 2
  SegSlots = 4
  Key = {k1, k2}
  Loss <- InOrder
  MaxOp = 2
  MaxCkpt = 0
  MaxWork = 4
  MaxSeal = 0
  MaxCrash = 2
SPECIFICATION Spec
INVARIANT NoGhost
CHECK_DEADLOCK FALSE
