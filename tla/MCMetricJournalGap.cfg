SPECIFICATION Spec
CONSTANTS
  i1 = i1 i2 = i2 r1 = r1
  Metrics = {1} Results = {r1} IdleMetrics <- TwoLives
  Deliveries = {"mlflow"} Limit = 2 MaxRestarts = 1 MaxFaults = 0
INVARIANT CompleteJournalIsReadable
CHECK_DEADLOCK FALSE
