CONSTANT MAX_THREADS = 3
SPECIFICATION FairSpec
INVARIANT WokenAcquires
CHECK_DEADLOCK FALSE
