CONSTANTS
  Capacity = 3
  NumExtra = 2
  MaxTries = 3
  Workers = {w1}
  NoWorker = NoWorker
  NoRequest = NoRequest
  MaxGen = 4
  MaxFaults = 2
  Materializers = {m1, m2}
  NoHolder = NoHolder
  Ranks <- TwoRanks
  NoRecord = NoRecord
  NoCheckpoint = NoCheckpoint
  MaxLocalFaults = 2
  Hydrators = {j1, j2}
  Requests <- TwoRequests
  NumSplits = 2
  MaxSourceVersion = 2
  NoDataset = NoDataset
  NoRoot = NoRoot
  Bundles = {b1, b2}
  Foreign = Foreign
  NoBundle = NoBundle
  NoPublication = NoPublication
  Publishers = {p1}
  Installers = {i1}
  Consumers = {c1}
  AliasReads = 1
  Helpers = {d1}
  Escapees = {x1}
  MaxChunks = 2
  PipeRoom = 1
  Exporters = {y1, y2}
  Outputs = {o1}
  NoPointer = NoPointer
  NoOutput = NoOutput
  MaxSource = 4
  MaxOutput = 5
  m2 = m2
  h1 = h1
  e1 = e1
  e2 = e2
  a1 = a1
  a2 = a2
  Embeddings = {e1, e2}
  CoResident = {e1}
  Indexable = {e1}
  EnoughRows = 2
  Artifacts = {a1, a2}
  JobRequests <- FourJobs
  NumBatches = 2
  NoColumn = NoColumn
  NoCache = NoCache
  NoIdentity = NoIdentity
  NoJob = NoJob
  MaxCommits = 4
  LaunchRanks = {r1, r2}
  Hosts = {h1, h2}
  NoSave = NoSave
  NoFit = NoFit
  MaxAttempts = 2
  MaxFits = 3
  MaxSteps = 2
  v2 = v2
  Releases = {v1, v2}
  Built = Built
  Partial = Partial
  NoContent = NoContent
  NoSeal = NoSeal
  Managers = {g1}
  Renderers = {n1}
  StudiorackAttempts = 2
  k1 = k1
  z1 = z1
  Evaluators = {k1, k2}
  Checkpoints = {z1, z2}
  Torn = Torn
  NoFile = NoFile
  Downloads = 2
  ShardJobs <- ThreeShards
  BatchRows = 2
  RowAttempts = 2
  MaxRenders = 2
  NoDir = NoDir
  TornDir = TornDir
  NoTally = NoTally
  TornTally = TornTally
  GrowthBounds = {q1, q2}
  NoBranch = NoBranch
  NoContract = NoContract
  MaxTrain = 2
  MaxGrown = 2
  DatasetBatches <- RaggedBatches
  Pool = {u1}
  EvalSettings <- ThreeSettings
  NoWav = NoWav
  NoScores = NoScores
  MaxEvals = 2
  NoProbe = NoProbe
  MaxValidations = 3
  TrainHosts = {h1, h2}
  RunIds = {t1}
  OverrideUri = OverrideUri
  NoModel = NoModel
  NoUri = NoUri
  MaxTrainings = 2
  MaxTrained = 2
  MaxScore = 2
SPECIFICATION Spec
INVARIANTS
  ComponentTypes
  ReadyIsWhole
  RequestAccounted
  ActiveIsReadySnapshot
  TrainsOnOneSnapshot
  TrainsOnWhatItResolved
  AliasSound
  PointsToACompleteOutput
  ColumnsAreOneArtifact
  LeavesWhatItReports
  ProgressIsKept
  BundlesAreSealed
  CheckpointIsTheOneAsked
  RendersItsShard
  ReadyHasItsContract
  EveryRowScoredOnce
  ProbesKeepApart
  ModelIsTheOneDescribed
PROPERTIES
  ImplementsGrowth
  GrowingCompletes
  StreamReturns
CHECK_DEADLOCK FALSE
