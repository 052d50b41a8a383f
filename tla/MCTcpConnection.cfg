CONSTANTS
    t1 = t1
    t2 = t2
    m1 = m1
    m2 = m2
    Threads = {t1, t2}
    Messages = {m1, m2}
    MsgLen = 2
    HighWaterMark = 3
    Clients <- MCClients
    None = None
SPECIFICATION FairSpec
INVARIANTS TypeOK StreamIntact WriteInterest ReadInterest NoAssertFails
PROPERTIES ImplementsLife ConnectionReleased BacklogDrains
CHECK_DEADLOCK FALSE
