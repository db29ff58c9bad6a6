SPECIFICATION Spec
CONSTANTS
  Op = {o1, o2}
  MaxRelease = 3
  MaxFaults = 0
  Crashes = FALSE
  None = None
INVARIANT OneReleaseRuns
