SPECIFICATION Spec
CONSTANTS
    Macs = {m1}
    Threads = {t1}
    NoThread = NoThread
    Ops <- MCManaged
    Properties = 2
    QueueSize = 2
    Retries = 0
    Faults = {"loss"}
    MaxFaults = 1
INVARIANT StatusFollowsLink
