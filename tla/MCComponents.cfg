SPECIFICATION PartsSpec
CONSTANTS
  j1 = j1 s1 = s1 a1 = a1 a2 = a2 b1 = b1 b2 = b2 i1 = i1 i2 = i2 r1 = r1
  None = None
  Jobs = {j1} Subjects = {s1} Clients = {a1, a2} Flushers = {b1, b2}
  Reports = {"waiting", "accepted"} MaxCalls = 2 MaxFaults = 1
  CatalogEvents = {a1, a2} CatalogWorkers = {"worker"} CatalogTries = 1 CatalogFaults = 1
  Kinds <- RunKinds RunAttempts = 2 LearnerFaults = 2
  Monitored = {a1, a2} Episodes = {b1, b2} Active = 1 Cpus = 2 MonitoringFaults = 1
  Entries = {a1} ArchiveAttempts = 2 MaxClosures = 2
  Importers = {"import"} PlaybackReaders = {"read"} MaxRunners = 3 MaxCommands = 2
  PlaybackFaults = 1
  Chunks = 2 OperatorCalls = 2 ReleaseFaults = 2
  Recorders = {a1, a2} StoreReaders = {"reader"} StoreFaults = 2
  Downloads = {"download"} RecordingReaders = {"read"} Buffer = 2 MaxSteps = 2
  RecordingFaults = 1
  Metrics = {1} IdleMetrics <- TwoLives Results = {r1}
  Deliveries = {"wandb", "mlflow", "local_only"} SegmentLimit = 2 MaxRestarts = 1
  JournalFaults = 1
  Requests = {"job"} RequestBatch <- TwoCheckpoints WorkerVerdicts = {"accepted"}
  EvaluationAttempts = 1 MaxUpsets = 1
SYMMETRY Interchangeable
INVARIANTS TypeOK OneAdvancer NoStaleRunning LeavesNoWork EndedJobsAreSettled
  PartsTypeOK FactsHaveAnOwner WorkersAreBounded
  VerdictsAreDurable LatestIsRestorable
  ReadsSeeOneSession NoRunnerIsLeft PublishedOnce PublicIsComplete
  EpisodesAreKept ReadersSeeCommits DownloadsAreExact
  NothingSealedIsLost DrainIsComplete ReadableUnlessNumbersAreSpent
  SuccessIsBacked ProjectionAwaitsTraining
PROPERTIES CatalogOnlyGrows VerdictAfterLearner
CHECK_DEADLOCK FALSE
