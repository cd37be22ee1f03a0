CONSTANTS
  Shards = {0, 1}
  NoShard = NoShard
  SplitOf <- MCSplitOf
  NumSplits = 2
  Slots = {k1}
  MaxRetries = 0
  RetainLocal = FALSE
  Finalizers = {f1, f2}
  Modes = {"estimate"}
  MaxAttempts = 4
  MaxFaults = 1
  MaxDamaged = 0
  Owners = {o1, o2}
  NoOwner = NoOwner
SPECIFICATION QFairSpec
INVARIANTS
  PublishedIsOneRender
PROPERTIES
  RunIsPublished
CHECK_DEADLOCK FALSE
