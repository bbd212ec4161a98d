\* Window 2, queues of one frame; the dedup ring holds every id of the run.
SPECIFICATION Spec
CONSTANTS
    Timeout = Timeout
    NoBody = NoBody
    Callers = {k1, k2, k3}
    TxModulus = 8
    Timeouts = {1}
    RetryLimits = {1}
    RequestCmds = {24839}
    PacketCmds = {24839, 24840}
    ResponseCmds = {24840}
    ResponseOf <- Responses
    WindowSize = 2
    DeviceCacheCapacity = 1
    SeenIdRingSize = 4
    TxQueueCap = 1
    TelemetryCmds = {}
    ChannelCap = 1
    FirstTxIds <- OneRun
    MaxDeviceRestarts = 0
    CallbacksSend = FALSE
INVARIANT NoSilentLoss
PROPERTY ImplementsCall
SYMMETRY Symmetry
