SPECIFICATION FairSpec
CONSTANTS
    Streams = {s1, s2, s3}
    NoStream = NoStream
    FwCap = 1
    WireCap = 1
    BatchSize = 2
    PiCap = 2
    ChunkSize = 2
    GwCap = 1
    MaxAdvs = 4
    MaxFaults = 2
INVARIANT TypeOK
PROPERTIES LogIsLossyFifo NothingStuck
