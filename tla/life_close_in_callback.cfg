CONSTANTS
  h1 = h1
  h2 = h2
  Handles <- MCOne
  MaxCtx = 3
  MaxPending = 2
  MaxCalls = 3
  MaxFaults = 1
  CallIn <- CallPlaces
  CloseIn <- CloseOnError
  Careful = TRUE
SPECIFICATION Spec
INVARIANTS NoCrash
CHECK_DEADLOCK FALSE
