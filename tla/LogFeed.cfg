CONSTANTS
  None = None
  BufferCapacity = 2
  Retained = 1
  MaxRecord = 3
  MaxTaps = 2
  Page = 2
  LogCapacity = 2
  EventRoom = 1
  InitialDelay = 1
  MaximumDelay = 2
  Lossy = TRUE
SPECIFICATION FairSpec
CHECK_DEADLOCK FALSE
INVARIANTS
  StoreHasNoHole
PROPERTIES
  PageCatchesUp
  StoreCatchesUp
