CONSTANTS
  None = None
  p1 = p1
  p2 = p2
  p3 = p3
  Pads = {p1, p2, p3}
  Base <- Twins
  Compatible = {p1, p2}
  MaxDevices = 2
  Fitted = {p1, p2}
  PadOrder <- Order
  StopRepeatCount = 2
  EventRoom = 1
  EffectRoom = 1
  InputRoom = 1
  MaxPlugs = 1
  MaxKeys = 2
  MaxFailures = 1
SPECIFICATION FairSpec
CHECK_DEADLOCK FALSE
INVARIANTS
  AuthorityHasAPad
  MotionIsCovered
PROPERTIES
  AuthorityIsNotInherited
  RevokedRobotStops
