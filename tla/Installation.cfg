SPECIFICATION Spec
CONSTANTS
  Op = {o1}
  MaxRelease = 3
  MaxFaults = 1
  Crashes = TRUE
  None = None
INVARIANTS FailureRestores SuccessIsWhole ActiveExists RollbackIndexAnswered
