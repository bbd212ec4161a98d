\* A buffer of 16 bytes for frames of up to 4.
SPECIFICATION FairSpec
CONSTANTS
    SIZE = 16
    Free = Free
    HeaderSize = 2
    TailSize = 1
    HeaderChecked = 2
    Frames <- AllFrames
    PayloadSize <- Payloads
    MaxPayload = 1
    Registered <- Known
    Noise <- AllNoise
    StartLike <- Starts
    Chunks <- SomeChunks
    NoFrame = NoFrame
    short = short
    long = long
    unknown = unknown
    oversize = oversize
    MaxFragment = 8
INVARIANTS TypeOK AlwaysRoom
PROPERTIES ImplementsStream ParseEnds
