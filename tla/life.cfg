CONSTANTS
  h1 = h1
  h2 = h2
  Handles <- MCHandles
  MaxCtx = 3
  MaxPending = 2
  MaxCalls = 3
  MaxFaults = 1
  CallIn <- CallPlaces
  CloseIn <- ClosePlaces
  Careful = TRUE
SPECIFICATION FairSpec
INVARIANTS TypeOK HandleOwnsContext QueueMatchesWire
PROPERTIES PendingServed OldConnectionsEnd
CHECK_DEADLOCK FALSE
