SPECIFICATION Spec
CONSTANTS
  Workers = {w1}
  Webs = {}
  Items = {a, b, c}
  WithSku = {c}
  NoItem = NoItem
  Attempts = 2
  MaxRetries = 3
  MaxRuns = 1
  MaxReplies = 4
  MaxTaps = 0
  MaxCopies = 0
  MaxFaults = 0
  MaxCrashes = 0
  MaxLate = 0
SYMMETRY Symmetry
CHECK_DEADLOCK FALSE
INVARIANTS TypeOK SettledMeansSynced OrderMatchesInvoice
PROPERTIES NoOrderWhileAsking ProcessedOnce
