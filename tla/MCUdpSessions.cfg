SPECIFICATION Spec
CONSTANTS
  Clients = {c1, c2}
  c1 = c1
  c2 = c2
  Traffics <- Longer
  RetryCount = 1
  TryCount = 2
  Counts <- NoneOrOne
  MaxSessions = 3
INVARIANTS AliveOnce FlowAccounted
CHECK_DEADLOCK FALSE
