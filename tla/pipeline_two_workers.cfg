SPECIFICATION Spec
CONSTANTS
  Workers = {w1, w2}
  Webs = {b1}
  Items = {a}
  WithSku = {}
  NoItem = NoItem
  Attempts = 2
  MaxRetries = 1
  MaxRuns = 2
  MaxReplies = 1
  MaxTaps = 1
  MaxCopies = 1
  MaxFaults = 1
  MaxCrashes = 0
  MaxLate = 1
CHECK_DEADLOCK FALSE
INVARIANTS PendingHasQuestion
