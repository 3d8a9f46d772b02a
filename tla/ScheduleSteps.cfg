CONSTANTS
  MAX_THREADS = 3
  MaxDepth = 2
  MaxHits = 1
SPECIFICATION FairSpec
INVARIANTS TypeOK OwnStack
PROPERTIES SwitchIsAtomic ReadyRuns
CHECK_DEADLOCK FALSE
