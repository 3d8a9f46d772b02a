CONSTANT MAX_THREADS = 4
SPECIFICATION FairSpec
PROPERTY ProcessExits
CHECK_DEADLOCK FALSE
