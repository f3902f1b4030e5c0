SPECIFICATION FairSpec
CONSTANTS
  Workers = {w1}
  Webs = {b1}
  Items = {a}
  WithSku = {}
  NoItem = NoItem
  Attempts = 1
  MaxRetries = 1
  MaxRuns = 1
  MaxReplies = 0
  MaxTaps = 1
  MaxCopies = 0
  MaxFaults = 0
  MaxCrashes = 0
  MaxLate = 0
CHECK_DEADLOCK FALSE
PROPERTY TapAnswered
