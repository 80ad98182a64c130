SPECIFICATION Spec
CONSTANTS
  Existing = 1
  MaxDrafts = 2
  MaxImports = 1
  MaxTimers = 1
  MaxSends = 2
CHECK_DEADLOCK FALSE
INVARIANTS
  ContentStaysWithItsRequest
  OneRequestPerDraft
