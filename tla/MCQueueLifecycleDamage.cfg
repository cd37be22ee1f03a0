CONSTANTS
  Shards = {0, 1}
  NoShard = NoShard
  SplitOf <- MCSplitOf
  NumSplits = 2
  Slots = {k1}
  MaxRetries = 0
  RetainLocal = FALSE
  Finalizers = {f1}
  Modes = {"estimate"}
  MaxAttempts = 3
  MaxFaults = 0
  MaxDamaged = 1
  Owners = {o1}
  NoOwner = NoOwner
SPECIFICATION QFairSpec
PROPERTIES
  RunIsPublished
CHECK_DEADLOCK FALSE
