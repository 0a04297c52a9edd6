SPECIFICATION Spec
CONSTANTS
  Configs <- JitteryWithQoS
  QoSValues = {TRUE, FALSE}
  KernelBugged = FALSE
  MaxRuns = 2
  MaxFaults = 1
INVARIANTS
  LinkState
PROPERTIES
  FirstConfigurationWins
  ShapedInOneStep
CHECK_DEADLOCK FALSE
