CONSTANTS
  MAX_THREADS = 2
  MaxDepth = 2
  MaxHits = 1
SPECIFICATION FairSpec
PROPERTY FairShare
CHECK_DEADLOCK FALSE
