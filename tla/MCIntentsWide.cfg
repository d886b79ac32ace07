CONSTANTS
  Key = {"a", "b", "c"}
  Shard = {1, 2}
  Conn = {1, 2, 3}
  ShardOf <- Owners
  Program <- Wide
SPECIFICATION Spec
PROPERTY Exclusive
CHECK_DEADLOCK FALSE
