SPECIFICATION FairSpec
CONSTANTS
  p1 = p1
  p2 = p2
  c1 = c1
  NoTurn = NoTurn
  Prompts <- TwoPrompts
  Cancels <- NoCancel
  Overlap = FALSE
  MaxCaptures = 1
INVARIANTS  PayloadOnce
PROPERTIES TurnsEnd
CHECK_DEADLOCK FALSE
