CONSTANTS
  None = None
  IngressCapacity = 1
  Opened = {"running"}
  MaxKeys = 2
  MaxOthers = 1
  MaxFaults = 2
SPECIFICATION FairSpec
INVARIANTS
  ViewIsCurrent
  PendingIsAnsweredOrUndone
  OutcomeIsTrue
PROPERTIES
  GoneWorldEndsTheTerminal
