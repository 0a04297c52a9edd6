SPECIFICATION LookupSpec
CONSTANTS
  Names = {"eth0", "eth1"}
  Addresses = {"10.1.1.254", "10.2.2.254"}
  NoIPv4 = "<nil>"
  MaxAddresses = 3
CHECK_DEADLOCK FALSE
INVARIANTS
  DevicesAsConfigured
