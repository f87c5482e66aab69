CONSTANTS
    Callers = {c1, c2}
    Poller = c1
    NoOne = NoOne
    Streams = {s1}
    NumTransfers = 1
    stream_id <- PairStream
    is_reading <- OnlyReading
    read_start_enabled <- AllStartEnabled
    read_fd <- OneReadFd
    write_fd <- OneWriteFd
    CancelLoops = 1
    timeout = 1
    Requests = {"enable", "reset"}
    CallbackCalls = TRUE
    FaultKinds = {"read", "epoll_wait"}
    MaxFaults = 1
    MaxStarts = 1
    MaxQueue = 0
    MaxClock = 3
    ErrorCapacity = 1
SPECIFICATION Spec
INVARIANTS TypeOK Watchdog NoLostRequest
