CONSTANTS
  k1 = k1
  k2 = k2
  k3 = k3
  k4 = k4
  k5 = k5
  NoKey = NoKey
  Keys <- MCKeys
  BucketOf <- MCBucketOf
  Buckets = 4
  Probe = 2
  RingSize = 3
  MaxFailures = 2
SPECIFICATION FairSpec
INVARIANTS TypeOK ScanComplete RingMatchesOwed
PROPERTIES ScanEnds
