SPECIFICATION FairSpec
CONSTANTS
  Forwards = {f1}
  RemoteForwards = {}
  LocalPort <- SharedPort
  Attempts = {a1, a2}
  MaxConns = 1
  MaxAccounts = 0
  None = None
CHECK_DEADLOCK FALSE
PROPERTIES
  EveryStartSettles
  TimedOutStartFreesPort
  ReleasedTunnelCloses
  ImplementsLifecycle
