SPECIFICATION FairSpec
CONSTANTS
    MaxThreads = 2
    MaxConns = 3
    Programs <- TeardownPrograms
CHECK_DEADLOCK FALSE
INVARIANTS NoAssertFails
