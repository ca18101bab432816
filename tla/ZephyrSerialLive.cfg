SPECIFICATION FairSpec
CONSTANTS
    Rpcs = {r1}
    Streams = {}
    Commands <- MCLiveCommands
    Retries = 1
    MaxId = 2
    MaxParts = 1
    MaxLines = 2
    MaxEpoch = 1
PROPERTIES EveryRpcReturns
