CONSTANTS
  Client = {c1, c2}
  Session = {s1, s2}
  Participant = {p1, p2}
  Nothing = Nothing
  Garbled = Garbled
  Killable = {c1, c2}
  Unkillable = TRUE
SPECIFICATION Spec
SYMMETRY Symmetry
INVARIANTS
  TypeOK
  OneRelease
  StoppedSessionIsGone
  OwnerStopsSimulationSupervisorFirst
PROPERTIES
  RecordNeverOverwritten
  NeverPublishedUnderfoot
