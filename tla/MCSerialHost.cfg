\* Fairness of the host's main thread only; a timeout of two sleeps.
SPECIFICATION SerialSpec
CONSTANTS
    Timeout = Timeout
    NoBody = NoBody
    Callers = {k1, k2}
    TxModulus = 8
    Timeouts = {2}
    RetryLimits = {1}
    RequestCmds = {24839}
    PacketCmds = {24839, 24840}
    ResponseCmds = {24840}
    ResponseOf <- Responses
    WindowSize = 1
    DeviceCacheCapacity = 1
    SeenIdRingSize = 1
    TxQueueCap = 1
    TelemetryCmds = {}
    ChannelCap = 1
    FirstTxIds <- OneRun
    MaxDeviceRestarts = 0
    CallbacksSend = TRUE
    SleepTicks = 1
INVARIANT LoopOutlastsCall
PROPERTY EventuallyAnswered
