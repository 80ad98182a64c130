SPECIFICATION Spec
CONSTANTS
  Forwards = {f1, f2}
  RemoteForwards = {f2}
  LocalPort <- SharedPort
  Attempts = {a1, a2}
  MaxConns = 1
  MaxAccounts = 1
  None = None
CHECK_DEADLOCK FALSE
SYMMETRY Symmetric
INVARIANTS
  TrackedStoppable
