SPECIFICATION Spec
CONSTANTS
  i1 = i1 i2 = i2 r1 = r1
  Metrics = {1, 2} Results = {} IdleMetrics <- TwoLives
  Deliveries = {"wandb"} Limit = 2 MaxRestarts = 1 MaxFaults = 0
INVARIANT NoPointIsDropped
CHECK_DEADLOCK FALSE
