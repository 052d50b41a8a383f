CONSTANTS
    t1 = t1
    Threads = {t1}
    Messages = {}
    MsgLen = 2
    HighWaterMark = 3
    Clients <- MCStoppingClients
    None = None
SPECIFICATION Spec
INVARIANTS NoAssertFails
CHECK_DEADLOCK FALSE
