CONSTANTS
    Callers = {c1, c2}
    Poller = c1
    NoOne = NoOne
    Streams = {s1}
    NumTransfers = 1
    stream_id <- PairStream
    is_reading <- OnlyReading
    read_start_enabled <- AllStartEnabled
    read_fd <- OneReadFd
    write_fd <- OneWriteFd
    CancelLoops = 3
    timeout = 0
    Requests = {"enable", "disable"}
    CallbackCalls = FALSE
    FaultKinds = {}
    MaxFaults = 0
    MaxStarts = 1
    MaxQueue = 0
    MaxClock = 0
    ErrorCapacity = 1
SPECIFICATION Spec
INVARIANT NoSilentEnd
