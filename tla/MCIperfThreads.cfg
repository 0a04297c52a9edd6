SPECIFICATION Spec
CONSTANTS
  t1 = t1
  t2 = t2
  None = None
  Traffic <- MCTraffic
  Parallels <- OneOrTwo
  Modes = {"client", "server"}
  Counts = {0, 1}
  MaxFaults = 1
  MaxSignals = 1
  MaxReports = 1
INVARIANTS
  ThreadsSound
  EndJobServed
  ChainAlive
CHECK_DEADLOCK FALSE
