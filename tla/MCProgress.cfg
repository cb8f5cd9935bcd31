SPECIFICATION PartsSpec
CONSTANTS
  j1 = j1 j2 = j2 s1 = s1 c1 = c1 f1 = f1 f2 = f2
  i1 = i1 i2 = i2 r1 = r1 None = None
  Jobs = {j1, j2} Subjects = {s1} Clients = {c1} Flushers = {f1, f2}
  Reports = {"waiting"} MaxCalls = 2 MaxFaults = 0
PROPERTIES WorkIsServed WorkersLeave StopIsAnswered MonitoringSettles JobsAndDrainsEnd
CHECK_DEADLOCK FALSE
