CONSTANTS
  MAX_THREADS = 3
  Counts = {3}
  UINT_SIZE = 16
  MaxEnters = 6
  ReuseAtOnce = TRUE
SPECIFICATION Spec
INVARIANT OneSerial
CHECK_DEADLOCK FALSE
