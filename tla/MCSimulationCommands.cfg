CONSTANTS
  None = None
  World = {w1}
  Client = {c1, c2}
  Serving = {w1}
  Retained = {}
  Retention = 0
  MaxLosses = 1
  PidsReused = TRUE
  c1 = c1
  c2 = c2
  Gives <- Both
  MaxCommands = 2
  Kills = TRUE
SPECIFICATION Spec
CHECK_DEADLOCK FALSE
INVARIANTS
  NoForeignSignal
  
  MemberEndingIsTrue
PROPERTIES
  RegistrationOutlivesHost
  OneOutcome
