SPECIFICATION FairSpec
CONSTANTS
    Macs = {m1, m2, m3}
    NoMac = NoMac
    MaxConn = 2
    MaxServices = 2
    MaxChars = 2
    PeerServices = 3
    PeerChars = 2
    SlowPeers = FALSE
    MaxProcs = 2
INVARIANTS OwnCharacteristics
PROPERTIES EveryCommandEnds TruthfulDisconnect
