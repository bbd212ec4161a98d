\* Telemetry of both parities.
SPECIFICATION StackSpec
CONSTANTS
    Timeout = Timeout
    NoBody = NoBody
    Timeouts = {1}
    RetryLimits = {1}
    RequestCmds = {24839}
    PacketCmds = {24839, 24840, 24577, 24578}
    ResponseCmds = {24840}
    ResponseOf <- Responses
    WindowSize = 1
    DeviceCacheCapacity = 1
    SeenIdRingSize = 1
    TxModulus = 4
    TxQueueCap = 2
    Arrivals <- TelemetryArrivals
    Callers = {k1}
    HandlerCmds = {24577, 24578}
    TelemetryCmds = {24577}
INVARIANT TelemetryDispatched
