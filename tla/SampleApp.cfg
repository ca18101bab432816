SPECIFICATION SampleSpec
CONSTANTS
    Devices = {d1}
    NoDevice = NoDevice
    BleMacs = {b1}
    MabMacs = {}
    NoMac = NoMac
    Events = {e1, e2}
    Apps = {a1, a2, a3}
    NoApp = NoApp
    Threads = {t1, t2}
    NoThread = NoThread
    PageSize = 2
    Models = {n1}
    MaxFaults = 0
    Browsers = {w1, w2}
    Pages <- MCPages
    ControlApp = a1
    DataApp = a2
    MaxBreaks = 2
CONSTRAINT Apart
INVARIANTS AppTypeOK EnabledIsRegistered
PROPERTIES StartsUp
