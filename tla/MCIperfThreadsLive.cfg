SPECIFICATION FairSpec
CONSTANTS
  t1 = t1
  t2 = t2
  None = None
  Traffic <- MCTraffic
  Parallels <- OneOrTwo
  Modes = {"client", "server"}
  Counts = {0}
  MaxFaults = 0
  MaxSignals = 1
  MaxReports = 1
PROPERTIES
  ClientEnds
  InterruptEnds
CHECK_DEADLOCK FALSE
