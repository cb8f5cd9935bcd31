SPECIFICATION RetriedSpec
CONSTANTS
  Kinds <- RequiredRuns MaxAttempts = 2 MaxFaults = 1
PROPERTY SuccessIsRecorded
CHECK_DEADLOCK FALSE
