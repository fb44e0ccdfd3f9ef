SPECIFICATION FairSpec
CONSTANTS
    QueueSize = 1
    MaxEvents = 2
    MaxBatch = 2
INVARIANTS TypeOK RunsOnItsFoundations DownIsClean
PROPERTIES ShutdownCompletes AlertsDieOut
CHECK_DEADLOCK FALSE
