SPECIFICATION Spec
CONSTANTS
    Macs = {m1, m2}
    NoMac = NoMac
    MaxConn = 2
    MaxServices = 1
    MaxChars = 1
    PeerServices = 2
    PeerChars = 2
    SlowPeers = TRUE
    MaxProcs = 1
INVARIANTS TypeOK OneSlotPerLink EventsTellLinks NoSlotLeaked
PROPERTIES TruthfulConnect
SYMMETRY Symmetry
