SPECIFICATION FairSpec
CONSTANTS
    MaxThreads = 2
    MaxConns = 3
    Programs <- NoIdlePrograms
CHECK_DEADLOCK FALSE
PROPERTIES BacklogServed
