SPECIFICATION FairSpec
CONSTANTS
  Workers = {w1}
  Webs = {}
  Items = {a, b}
  WithSku = {}
  NoItem = NoItem
  Attempts = 2
  MaxRetries = 2
  MaxRuns = 2
  MaxReplies = 1
  MaxTaps = 0
  MaxCopies = 0
  MaxFaults = 1
  MaxCrashes = 1
  MaxLate = 1
CHECK_DEADLOCK FALSE
INVARIANTS DuplicatesCostFaults KeyMeansOrder
PROPERTIES OwnerTeaches SyncAnswered
