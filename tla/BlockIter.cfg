SPECIFICATION FairSpec
CONSTANTS
  Requests <- MCRequests
  Count = 4
  Workers = {w1, w2}
  Ahead = 3
  IoErrors = TRUE
INVARIANTS DeliversPrefix
PROPERTIES Terminates
