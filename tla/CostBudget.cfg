SPECIFICATION Spec
CONSTANTS
  s1 = s1
  s2 = s2
  Sessions = {s1, s2}
  Savers = {k1, k2}
  Saved = {s1}
  Prompted = {s2}
  Billings <- MCBillings
  None = None
  MaxCost = 2
  MaxTokens = 3
  AutoCancel = TRUE
  MaxSpend = 1
  MaxUsage = 2
  MaxCrashes = 1
INVARIANTS  AccountingExact TornOnlyByOverlap
PROPERTIES SuccessIsOnDisk
