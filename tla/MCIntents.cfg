CONSTANTS
  Key = {"a", "b", "c"}
  Shard = {1, 2}
  Conn = {1, 2}
  ShardOf <- Owners
  Program <- Pair
SPECIFICATION FairSpec
INVARIANTS TypeOK LockedAtHead AfterTxn
PROPERTIES Exclusive LosesToSmaller Completes
CHECK_DEADLOCK FALSE
