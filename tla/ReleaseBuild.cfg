SPECIFICATION Spec
CONSTANTS
  Job = {j1, j2, j3}
  NoJob = NoJob
  None = None
  Absent = Absent
  Torn = Torn
  MaxEdits = 1
  MaxFaults = 2
SYMMETRY Commands
INVARIANTS
  PublishedIsWhole
  LeftoversNeverBlock
  AcceptedIsWhole
PROPERTIES
  FailureKeepsTheRelease
