SPECIFICATION Spec
CONSTANTS
  Checkpoints <- TwoCheckpoints
  WorkerVerdicts = {"accepted"}
  MayCancel = TRUE
  MaxRetries = 1
  MaxFaults = 1
  None = None
CHECK_DEADLOCK FALSE
INVARIANT TypeOK
PROPERTIES AttemptsAreSequential OnlyStragglersCost AcceptanceClosesAdmission
  SubmittedMayFinish ImplementsRecord
CONSTRAINT UpsetsAreFew
