CONSTANTS
  Shards = {s1, s2}
  Owners = {o1}
  Slots = {k1, k2}
  NoShard = NoShard
  NoOwner = NoOwner
  MaxAttempts = 3
  MaxRetries = 0
  RetainLocal = FALSE
  MaxFaults = 1
SPECIFICATION Spec
INVARIANTS
  OwnInput
