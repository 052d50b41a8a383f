CONSTANTS
    Addrs = {1, 2}
    MaxTimers = 3
    MaxTime = 2
    Intervals = {0, 1}
    Programs <- MCPrograms
    None = None
SPECIFICATION FairSpec
INVARIANTS TypeOK SetsAgree OneOwner ArmedInTime CancelledStaysOut
PROPERTIES TimerFires
CHECK_DEADLOCK FALSE
