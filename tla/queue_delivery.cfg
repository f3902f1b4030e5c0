SPECIFICATION FairSpec
CONSTANTS
  Jobs = {j1, j2, j3, j4}
  Once = {j3}
  Prompt = {j4}
  Workers = {w1, w2}
  Attempts = 2
  NoCopy = NoCopy
  MaxFaults = 1
INVARIANTS TypeOK AttemptsRespected NothingLost
PROPERTIES Delivered
