CONSTANTS
  Shards = {0, 1}
  NoShard = NoShard
  SplitOf <- MCSplitOf
  NumSplits = 2
  Slots = {k1}
  MaxRetries = 1
  RetainLocal = FALSE
  Finalizers = {f1}
  Modes = {"estimate"}
  MaxAttempts = 5
  MaxFaults = 1
  MaxDamaged = 2
  Owners = {0, 1}
  World = 2
  NumShards = 2
SPECIFICATION SFairSpec
PROPERTIES
  RunIsPublished
CHECK_DEADLOCK FALSE
