\* One endpoint, host and device at once: window 1, three calls, a queue of two frames.
SPECIFICATION StackSpec
CONSTANTS
    Timeout = Timeout
    NoBody = NoBody
    Timeouts = {1}
    RetryLimits = {1}
    RequestCmds = {24839, 24841}
    PacketCmds = {24839, 24840, 24577, 25345}
    ResponseCmds = {24840, 24842}
    ResponseOf <- TwoResponses
    WindowSize = 1
    DeviceCacheCapacity = 1
    SeenIdRingSize = 1
    TxModulus = 4
    TxQueueCap = 2
    Arrivals <- EndpointArrivals
    Callers = {k1, k2, k3}
    HandlerCmds = {24839, 24577}
    TelemetryCmds = {24577}
INVARIANTS CopiesWithinRetries RetryBytesValid TxQueueBounded CacheBounded
PROPERTY TelemetryYieldsFirst
