SPECIFICATION Spec
CONSTANTS
    Rpcs = {r1, r2}
    Streams = {s1}
    Commands <- MCCommands
    Retries = 1
    MaxId = 2
    MaxParts = 1
    MaxLines = 3
    MaxEpoch = 0
INVARIANT RefcountIsUsers
