SPECIFICATION Spec
CONSTANTS
  Shards = {s1, s2}
  Owners = {w1, w2}
  NoOwner = NoOwner
  NoShard = NoShard
  Lease = 1
  MaxHeld = 2
  MaxClock = 4
INVARIANTS
  ClaimedByOne
PROPERTIES
  DoneByCurrentClaim
  NoLiveTakeover
  ImplementsQueue
CHECK_DEADLOCK FALSE
