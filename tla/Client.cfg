SPECIFICATION FairClientSpec
CONSTANTS
  h1 = h1
  i1 = i1
  i2 = i2
  k1 = k1
  k2 = k2
  None = None
  Handles <- OneHandle
  Ids <- TwoIds
  History <- OneOnFile
  Closers <- TwoClosers
  PendingCap = 1
  ChanCap = 1
  MaxUpdates <- TwoOnFile
  MaxSweeps = 2
  MaxStarts = 2
INVARIANTS IntentionalCloseNotCrash BridgeOutlivesProc EndHookSound
PROPERTIES ImplementsRouting CloseCompletes CrashIsNoticed
CHECK_DEADLOCK FALSE
