CONSTANTS
  Client = {c1, c2}
  Session = {s1}
  Participant = {p1, p2}
  Nothing = Nothing
  Garbled = Garbled
  Killable = {}
  Unkillable = FALSE
SPECIFICATION FairSpec
PROPERTIES
  StopEndsSession
