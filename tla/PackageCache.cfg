SPECIFICATION Spec
CONSTANTS
  Command = {c1, c2}
  Checksum = {old, new, odd}
  Misnamed = {odd}
  Binless = {old}
  MaxChanges = 2
  MaxUnpruned = 1
INVARIANTS ResolvedIsVerified OfflineAfterOnline
