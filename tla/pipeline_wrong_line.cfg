SPECIFICATION Spec
CONSTANTS
  Workers = {w1}
  Webs = {}
  Items = {a, b}
  WithSku = {}
  NoItem = NoItem
  Attempts = 2
  MaxRetries = 1
  MaxRuns = 1
  MaxReplies = 1
  MaxTaps = 0
  MaxCopies = 0
  MaxFaults = 1
  MaxCrashes = 0
  MaxLate = 0
CHECK_DEADLOCK FALSE
INVARIANT AnswerStaysPut
