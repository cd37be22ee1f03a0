CONSTANTS
  Capacity = 3
  NumExtra = 2
  MaxTries = 1
  Materializers = {m1}
  NoHolder = NoHolder
  Ranks = {0, 1}
  NoRecord = NoRecord
  NoCheckpoint = NoCheckpoint
  MaxLocalFaults = 1
SPECIFICATION LocalFairSpec
PROPERTIES
  CatchesUp
CHECK_DEADLOCK FALSE
