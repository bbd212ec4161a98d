\* The host restarts and its constructor numbers calls from 1 again.
SPECIFICATION Spec
CONSTANTS
    Timeout = Timeout
    NoBody = NoBody
    Callers = {k1, k2}
    TxModulus = 8
    Timeouts = {1}
    RetryLimits = {1}
    RequestCmds = {24839}
    PacketCmds = {24839, 24840}
    ResponseCmds = {24840}
    ResponseOf <- Responses
    WindowSize = 1
    DeviceCacheCapacity = 1
    SeenIdRingSize = 1
    TxQueueCap = 2
    TelemetryCmds = {}
    ChannelCap = 1
    FirstTxIds <- SameIds
    MaxDeviceRestarts = 0
    CallbacksSend = TRUE
INVARIANT AnswerMatches
