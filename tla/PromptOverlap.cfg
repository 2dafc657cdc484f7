SPECIFICATION Spec
CONSTANTS
  p1 = p1
  p2 = p2
  c1 = c1
  NoTurn = NoTurn
  Prompts <- TwoPrompts
  Cancels <- OneCancel
  Overlap = TRUE
  MaxCaptures = 0
INVARIANTS CancelledHasCause
CHECK_DEADLOCK FALSE
SYMMETRY Symmetry
