SPECIFICATION Spec
CONSTANTS
    Rpcs = {r1, r2}
    Streams = {s1}
    Commands <- MCCommands
    Retries = 1
    MaxId = 2
    MaxParts = 2
    MaxLines = 3
    MaxEpoch = 0
SYMMETRY Symmetry
INVARIANTS TypeOK OwnAnswer DiscoverComplete NoUserStopped IdleClean UsersCounted
