SPECIFICATION Spec
CONSTANTS
  Scripts = {far, near}
  Remote = {far}
  Templates = {near}
  MaxRuns = 2
  MaxPlans = 2
  None = None
CHECK_DEADLOCK FALSE
INVARIANTS
  TypeOK
  UntoldRunIsShown
  RecordsAreTruthful
  TimersStopTheirRun
  AuditIsTruthful
PROPERTIES
  StoppedRunEnds
