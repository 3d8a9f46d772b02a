CONSTANTS
  MAX_THREADS = 3
  Counts = {0, 1, 2, 3}
  UINT_SIZE = 16
  MaxEnters = 6
  ReuseAtOnce = FALSE
SPECIFICATION FairSpec
INVARIANTS TypeOK NoEarlyExit RoundResets BlockedIsCalling
PROPERTIES RoundEnds
CHECK_DEADLOCK FALSE
