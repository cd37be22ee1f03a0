CONSTANTS
  Shards = {0, 1, 2}
  NumShards = 3
  Owners = {0, 1}
  World = 2
  Slots = {k1, k2}
  NoShard = NoShard
  MaxAttempts = 6
  MaxRetries = 1
  RetainLocal = TRUE
  MaxFaults = 1
SPECIFICATION MCSpec
SYMMETRY Symmetry
INVARIANTS
  NoSharedShard
  AttemptIsOneRender
  AllOkMeansStaged
