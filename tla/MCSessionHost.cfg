\* Window 2, three calls, ids 0..2 (they wrap), one retry, a response ring of two ids.
SPECIFICATION HostSpec
CONSTANTS
    Callers = {k1, k2, k3}
    Timeout = Timeout
    TxModulus = 3
    Timeouts = {1}
    RetryLimits = {1}
    RequestCmds = {1}
    ResponseCmds = {2, 4}
    ResponseOf <- ResponseIds
    WindowSize = 2
    DeviceCacheCapacity = 1
    SeenIdRingSize = 2
SYMMETRY Symmetry
INVARIANTS TypeOK InflightExact WindowBound QueueExact OneCallback RetriesWithinLimit
PROPERTIES NoEarlyTimeout ImplementsWindow
