CONSTANTS
  DatasetBatches <- RaggedBatches
  Pool = {u1, u2}
  EvalSettings <- ThreeSettings
  NoWav = NoWav
  NoScores = NoScores
  MaxEvals = 1
SPECIFICATION PredictSpec
INVARIANTS
  OneRowPerSample
CHECK_DEADLOCK FALSE
