CONSTANTS
  ip1 = ip1
  ip2 = ip2
  NoIp = NoIp
  Ips <- MCIps
  InitialConfs <- ShippedConfs
  MaxCalls = 5
  MaxFailures = 0
SPECIFICATION Spec
INVARIANTS MasterAfterPromotion
CHECK_DEADLOCK FALSE
