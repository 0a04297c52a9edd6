SPECIFICATION FairSpec
CONSTANTS
  MaxCount = 3
  NPackets = 6
INVARIANTS
  Undisturbed
  DoneMeansDelivered
PROPERTIES
  ImplementsChannel
  EndJobReturns
CHECK_DEADLOCK FALSE
