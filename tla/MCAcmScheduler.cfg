SPECIFICATION AcmSpec
CONSTANTS
  Entries <- TwoEntries
  Forward = 40
  Return = 20
  QoS = TRUE
  Jobs = {j1, j2}
  MaxTicks = 5
INVARIANTS
  RatesOfCurrent
  RatesFromList
CHECK_DEADLOCK FALSE
