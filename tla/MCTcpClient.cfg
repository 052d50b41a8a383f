SPECIFICATION FairSpec
CONSTANTS
    Threads = {t1, t2, t3}
    MaxConnects = 3
    Programs <- MCPrograms
    None = None
INVARIANTS NoAssertFails ConnectionCurrent
PROPERTIES ImplementsLife WaiterReturns
CHECK_DEADLOCK FALSE
