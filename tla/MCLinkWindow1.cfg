\* Window 1, telemetry, queues of two frames, restarts of both ends.
SPECIFICATION Spec
CONSTANTS
    Timeout = Timeout
    NoBody = NoBody
    Callers = {k1, k2}
    TxModulus = 8
    Timeouts = {1}
    RetryLimits = {1}
    RequestCmds = {24839}
    PacketCmds = {24839, 24840}
    ResponseCmds = {24840}
    ResponseOf <- Responses
    WindowSize = 1
    DeviceCacheCapacity = 2
    SeenIdRingSize = 1
    TxQueueCap = 2
    TelemetryCmds = {24577}
    ChannelCap = 1
    FirstTxIds <- FreshIds
    MaxDeviceRestarts = 1
    CallbacksSend = TRUE
INVARIANTS AtMostOnce AnswerMatches CacheMatchesOrder
PROPERTIES RequestAcked DuplicatesAreRepeats
SYMMETRY Symmetry
