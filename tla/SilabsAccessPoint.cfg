SPECIFICATION FairSpec
CONSTANTS
    m1 = m1
    m2 = m2
    Macs = {m1, m2}
    NoMac = NoMac
    Threads = {t1, t2}
    Requests <- MCRequests
    Handles = {h1, h2}
    NoHandle = NoHandle
    MaxConn = 2
    Retries = 1
    Stages = 2
    Watched = {"advertisements", "connection_events"}
CHECK_DEADLOCK FALSE
INVARIANTS TypeOK NoOrphanLink
PROPERTIES DisconnectTruthful ConnectReturns
