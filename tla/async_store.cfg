CONSTANTS
  k1 = k1
  k2 = k2
  c1 = c1
  c2 = c2
  NoKey = NoKey
  NoCol = NoCol
  Keys <- MCKeys
  Cols <- MCCols
  RowShapes <- MCShapes
  Ops <- WholeRowOps
  MaxCalls = 3
  MaxFaults = 2
  Refusable <- NeedsMemory
  ScanWhenDown = TRUE
SPECIFICATION FairSpec
INVARIANTS TypeOK ReplyMatching TransactionsSeparate IndexedRowsExist DeleteAllEmptiesTable
PROPERTIES ImplementsStore DeleteAllEnds
