CONSTANTS
  Key = {"a"}
  Shard = {1, 2}
  Conn = {1, 2}
  ShardOf <- Owners
  Program <- Cut
SPECIFICATION Spec
INVARIANT AfterPoint
CHECK_DEADLOCK FALSE
