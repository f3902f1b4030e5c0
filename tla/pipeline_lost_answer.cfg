SPECIFICATION Spec
CONSTANTS
  Workers = {w1}
  Webs = {}
  Items = {a}
  WithSku = {}
  NoItem = NoItem
  Attempts = 1
  MaxRetries = 2
  MaxRuns = 1
  MaxReplies = 0
  MaxTaps = 0
  MaxCopies = 0
  MaxFaults = 1
  MaxCrashes = 0
  MaxLate = 0
CHECK_DEADLOCK FALSE
INVARIANT AtMostOneOrder
