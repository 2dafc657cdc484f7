SPECIFICATION ResilientSpec
CONSTANTS
  Modes = {"query", "stream", "history", "models"}
  MaxPrompts = 2
  Notifs <- MCNotifs
  Replayed <- MCReplayed
  MaxEmits = 2
  MaxReplay = 3
  UpdCap = 2
  Limit = 2
  NoId = 0
  DurMax = 31
  Default <- MCDefault
  Policies <- MCPolicies
  Errors <- MCErrors
INVARIANTS CallsCleanUp   HistoryExact 
 
CHECK_DEADLOCK FALSE
