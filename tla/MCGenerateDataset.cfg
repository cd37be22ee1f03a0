CONSTANTS
  Shards = {s1, s2}
  Owners = {o1, o2}
  Slots = {k1, k2}
  NoShard = NoShard
  NoOwner = NoOwner
  MaxAttempts = 5
  MaxRetries = 0
  RetainLocal = FALSE
  MaxFaults = 1
SPECIFICATION Spec
SYMMETRY Symmetry
INVARIANTS
  DoneImpliesStaged
  OneAttemptPerClaim
  LeavesNothingAvailable
PROPERTIES
  SuccessIsReported
