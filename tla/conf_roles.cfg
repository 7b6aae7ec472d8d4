CONSTANTS
  ip1 = ip1
  ip2 = ip2
  NoIp = NoIp
  Ips <- MCIps
  InitialConfs <- ReplicaConfs
  MaxCalls = 5
  MaxFailures = 1
SPECIFICATION Spec
INVARIANTS TypeOK MasterAfterPromotion ReplicaAfterDemotion ReplicaKeepsBinding
CHECK_DEADLOCK FALSE
