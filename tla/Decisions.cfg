SPECIFICATION Spec
CONSTANTS
  p1 = p1
  p2 = p2
  Handlers = {p1, p2}
  None = None
  Configs <- MCConfigs
  Cwd <- MCCwd
  MaxRequests = 3
  MaxInt = 7
INVARIANTS  DenialsReported OnceIsOnce 
PROPERTIES EveryRequestEnds
CHECK_DEADLOCK FALSE
