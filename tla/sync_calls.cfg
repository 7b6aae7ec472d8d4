CONSTANTS
  k1 = k1
  k2 = k2
  c1 = c1
  c2 = c2
  NoKey = NoKey
  NoCol = NoCol
  Keys <- MCKeys
  Cols <- MCCols
  RowShapes <- MCShapes
  Ops <- AllOps
  Refusable <- AnyData
  MaxCalls = 4
  MaxLosses = 2
  MaxRefusals = 1
  MaxOthers = 1
SPECIFICATION Spec
INVARIANTS TypeOK SuccessIsTransaction WholeUnlessLoose NoTransactionLeft DeleteAllDone AssertionsNeedFaults
SYMMETRY Symmetry
