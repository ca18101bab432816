SPECIFICATION FairSpec
CONSTANTS
    Devices = {d1, d2}
    NoDevice = NoDevice
    BleMacs = {b1}
    MabMacs = {m1}
    NoMac = NoMac
    Events = {e1}
    Apps = {a1}
    Models = {n1}
    NoApp = NoApp
    Threads = {t1, t2}
    MaxFaults = 1
CONSTRAINT Apart
INVARIANTS TypeOK NoDanglingRow MabInIse AclMatchesApp
PROPERTIES OwnRowsOnly DeleteCompletes
