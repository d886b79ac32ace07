CONSTANTS
  NSeg = 3
  SegSlots = 3
  Key = {k1}
  Loss <- InOrder
  MaxOp = 3
  MaxCkpt = 2
  MaxWork = 4
  MaxSeal = 1
  MaxCrash = 2
SPECIFICATION Spec
INVARIANTS TypeOK RootInv SyncedReplayed Reopens AckedKept
PROPERTY RootSurvives
CHECK_DEADLOCK FALSE
