CONSTANTS
  f1 = f1
  f2 = f2
  Shards = {1, 2}
  NoShard = NoShard
  SplitOf <- MCSplitOf
  NumSplits = 2
  Finalizers = {f1, f2}
  Modes = {"exact"}
  MaxAttempts = 3
  MaxReadErrors = 1
  MaxFaults = 0
SPECIFICATION Spec
INVARIANTS
  CompleteIsOneSelection
