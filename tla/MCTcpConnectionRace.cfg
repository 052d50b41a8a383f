CONSTANTS
    t1 = t1
    Threads = {t1}
    Messages = {}
    MsgLen = 2
    HighWaterMark = 3
    Clients <- MCRacingClients
    None = None
SPECIFICATION Spec
INVARIANTS CallbacksPaired
CHECK_DEADLOCK FALSE
