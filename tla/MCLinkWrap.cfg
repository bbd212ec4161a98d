\* Transaction ids of one bit: the second call gets id 0.
SPECIFICATION Spec
CONSTANTS
    Timeout = Timeout
    NoBody = NoBody
    Callers = {k1, k2}
    TxModulus = 2
    Timeouts = {1}
    RetryLimits = {1}
    RequestCmds = {24839}
    PacketCmds = {24839, 24840}
    ResponseCmds = {24840}
    ResponseOf <- Responses
    WindowSize = 1
    DeviceCacheCapacity = 1
    SeenIdRingSize = 1
    TxQueueCap = 4
    TelemetryCmds = {}
    ChannelCap = 1
    FirstTxIds <- OneRun
    MaxDeviceRestarts = 0
    CallbacksSend = TRUE
PROPERTY RequestAcked
