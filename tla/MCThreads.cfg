CONSTANT MAX_THREADS = 4
SPECIFICATION FairSpec
INVARIANTS TypeOK UniqueIds SearchEnds RunningIsTID
PROPERTIES RoundRobin CreatedRuns LastExitEnds
CHECK_DEADLOCK FALSE
