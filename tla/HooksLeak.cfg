SPECIFICATION Spec
CONSTANTS
  call1 = call1
  call2 = call2
  u1 = u1
  u2 = u2
  Calls = {call1, call2}
  Setters = {}
  Overrides <- MCOverrides
  Bases = {"m", "n"}
  Variants <- MCVariants
  Modes = {"build", "plan"}
  ClientServers <- MCServers
  ClientHooks = {"h1"}
  Bridged = TRUE
  Transports = {"http"}
  TuiModels <- MCTuiModels
  Versions <- MCVersions
  Minimum <- MCMinimum
INVARIANTS HooksStayLocal
CHECK_DEADLOCK FALSE
