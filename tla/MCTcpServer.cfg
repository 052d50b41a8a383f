SPECIFICATION FairSpec
CONSTANTS
    MaxThreads = 2
    MaxConns = 3
    Programs <- MCPrograms
INVARIANTS NoAssertFails LoopsAlive IdleKept
PROPERTIES ImplementsLife BacklogServed PoolReturns
CHECK_DEADLOCK FALSE
