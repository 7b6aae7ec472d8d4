CONSTANTS
  k1 = k1
  k2 = k2
  c1 = c1
  c2 = c2
  NoKey = NoKey
  NoCol = NoCol
  Keys <- MCKeys
  Cols <- MCOneCol
  RowShapes <- MCOneShape
  Ops <- WritesAndReads
  MaxCalls = 3
  MaxFaults = 2
  Refusable <- DataCommands
  ScanWhenDown = FALSE
SPECIFICATION FairSpec
INVARIANTS WriteAnsweredOnce SuccessMeansApplied FullReadAccounting
PROPERTIES WritesAnswered ReadsComplete
