CONSTANTS
  Key = {"a"}
  Shard = {1, 2}
  Conn = {1, 2, 3}
  ShardOf <- Owners
  Program <- Crowd
SPECIFICATION Spec
PROPERTY Exclusive
CHECK_DEADLOCK FALSE
