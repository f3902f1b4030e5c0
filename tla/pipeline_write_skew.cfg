SPECIFICATION Spec
CONSTANTS
  Workers = {w1, w2}
  Webs = {}
  Items = {a, b}
  WithSku = {}
  NoItem = NoItem
  Attempts = 1
  MaxRetries = 1
  MaxRuns = 1
  MaxReplies = 2
  MaxTaps = 0
  MaxCopies = 0
  MaxFaults = 0
  MaxCrashes = 0
  MaxLate = 0
CHECK_DEADLOCK FALSE
INVARIANT SettledMeansSynced
