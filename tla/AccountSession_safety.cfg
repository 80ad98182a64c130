SPECIFICATION Spec
CONSTANTS
  t1 = t1
  t2 = t2
  t3 = t3
  alice = alice
  bob = bob
  Tokens = {t1, t2, t3}
  Accounts = {alice, bob}
  Owner <- TwoOwners
  Sites = {site}
  MaxLaunches = 1
  None = None
INVARIANTS
  EndedStaysEnded
  CrashKeepsToken
