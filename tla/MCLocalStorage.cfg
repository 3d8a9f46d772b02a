CONSTANTS
  Threads = {1, 2, 3}
  HASH = 2
  Pages = {1, 2, 3, 4}
  PAGE_SIZE = 2
  UINT_SIZE = 5
  Sizes = {0, 3}
  Ranges <- MCRanges
  NULL = NULL
  MaxCalls = 5
  MaxOverlap = 2
SPECIFICATION MCSpec
INVARIANTS TypeOK RefCounted Protected
PROPERTIES PrivateArrays MutexReleased
CHECK_DEADLOCK FALSE
