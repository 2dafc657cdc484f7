SPECIFICATION Spec
CONSTANTS
  h1 = h1
  h2 = h2
  i1 = i1
  i2 = i2
  None = None
  Handles <- TwoHandles
  Ids <- TwoIds
  History <- OneOnFile
  PendingCap = 2
  ChanCap = 1
  MaxUpdates <- Quota
  MaxSweeps = 1
INVARIANTS TypeOK NoPanic TableConsistent SoleHandleStaysRouted Conservation OnlyFlushIsOvertaken
CHECK_DEADLOCK FALSE
SYMMETRY Symmetry
