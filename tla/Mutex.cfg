CONSTANT MAX_THREADS = 3
SPECIFICATION FairSpec
INVARIANTS TypeOK WaitListBlocked LockedHasHolder MutualExclusion NoLostWakeup NoNullHead NeverAllBlocked
PROPERTIES BlockedWakes
CHECK_DEADLOCK FALSE
