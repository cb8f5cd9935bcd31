SPECIFICATION Spec
CONSTANTS
  Checkpoints <- OneCheckpoint
  WorkerVerdicts = {"accepted", "rejected"}
  MayCancel = FALSE
  MaxRetries = 0
  MaxFaults = 0
  None = None
CHECK_DEADLOCK FALSE
INVARIANT FinishedEvaluationCounts
