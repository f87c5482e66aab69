CONSTANTS
    Callers = {c1, c2}
    Poller = c1
    NoOne = NoOne
    Streams = {s1}
    NumTransfers = 2
    stream_id <- PairStream
    is_reading <- PairReading
    read_start_enabled <- NoneStartEnabled
    read_fd <- OneReadFd
    write_fd <- OneWriteFd
    CancelLoops = 1
    timeout = 0
    Requests = {"enable", "reset"}
    CallbackCalls = FALSE
    FaultKinds = {"init", "epoll_add", "read", "submit", "device", "usb", "reset"}
    MaxFaults = 1
    MaxStarts = 1
    MaxQueue = 2
    MaxClock = 0
    ErrorCapacity = 1
SPECIFICATION Spec
INVARIANTS InFlightIsEnabled EnabledIsInFlight NoSilentEnd SentOnce
