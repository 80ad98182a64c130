SPECIFICATION Spec
CONSTANTS
  Jobs = {j1, j2}
  Workers = {w1, w2}
  MaxSwitches = 4
  None = None
INVARIANTS
  TypeOK
  OneJobAtATime
  RunsOnceOrNever
  AssignedJobsAreHeld
  StartsOnlyWanted
PROPERTIES
  EnabledRuntimeAsks
