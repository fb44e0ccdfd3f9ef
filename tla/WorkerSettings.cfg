SPECIFICATION FairSpec
CHECK_DEADLOCK FALSE
CONSTANTS
    Handlers = {r1, r2}
    Caps = {1}
    Levs = {1, 2}
    MaxWrites = 2
    MaxAsks = 2
    MaxFaults = 1
INVARIANTS TypeOK QuietWorkerAgrees
PROPERTIES EveryAskIsAnswered
