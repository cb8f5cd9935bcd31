SPECIFICATION Spec
CONSTANTS
  s1 = s1
  s2 = s2
  t1 = t1
  Supervisors = {s1, s2}
  Tools = {t1}
  Ttl = 3
  RenewEvery = 1
  MissLimit = 2
  Ahead <- NoneAhead
  MaxClock = 5
  NoLease = NoLease
INVARIANTS ExclusiveWriter
CHECK_DEADLOCK FALSE
