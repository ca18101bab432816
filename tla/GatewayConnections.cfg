SPECIFICATION FairSpec
CONSTANTS
    Macs = {m1}
    Threads = {t1,t2}
    NoThread = NoThread
    Ops <- MCAllOps
    Properties = 1
    QueueSize = 1
    Retries = 1
    Faults <- MCAllFaults
    MaxFaults = 2
INVARIANTS TypeOK NoLeakedLink GrantedStays
PROPERTIES ConnectRecovers FailedConnectUndone
CONSTRAINT Uncrossed
