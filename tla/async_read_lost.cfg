CONSTANTS
  k1 = k1
  k2 = k2
  c1 = c1
  c2 = c2
  NoKey = NoKey
  NoCol = NoCol
  Keys <- MCOneKey
  Cols <- MCCols
  RowShapes <- MCShapes
  Ops <- ReadOnly
  MaxCalls = 1
  MaxFaults = 1
  Refusable <- Nothing
  ScanWhenDown = TRUE
SPECIFICATION FairSpec
PROPERTIES ReadsComplete
