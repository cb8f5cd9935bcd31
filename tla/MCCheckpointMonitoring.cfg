SPECIFICATION FairSpec
CONSTANTS
  Checkpoints = {checkpoint}
  Episodes = {episode1, episode2}
  Active = 1
  Cpus = 2
  MaxFaults = 2
  Nothing = Nothing
PROPERTIES UnfinishedWorkIsRetried
CHECK_DEADLOCK FALSE
