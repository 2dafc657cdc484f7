SPECIFICATION ResilientSpec
CONSTANTS
  Modes = {"query"}
  MaxPrompts = 2
  Notifs <- MCNotifs
  Replayed <- MCReplayed
  MaxEmits = 2
  MaxReplay = 3
  UpdCap = 2
  Limit = 2
  NoId = 0
  DurMax = 31
  Default <- MCDefault
  Policies <- MCPolicies
  Errors <- MCErrors
CHECK_DEADLOCK FALSE
INVARIANT PayloadSurfaces

