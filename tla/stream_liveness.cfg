CONSTANTS
    Callers = {c1, c2}
    Poller = c1
    NoOne = NoOne
    Streams = {s1}
    NumTransfers = 2
    stream_id <- PairStream
    is_reading <- PairReading
    read_start_enabled <- AllStartEnabled
    read_fd <- OneReadFd
    write_fd <- OneWriteFd
    CancelLoops = 2
    timeout = 0
    Requests = {"enable"}
    CallbackCalls = FALSE
    FaultKinds = {}
    MaxFaults = 0
    MaxStarts = 1
    MaxQueue = 1
    MaxClock = 0
    ErrorCapacity = 1
SPECIFICATION FairSpec
PROPERTIES RequestServed StopReturns WriteNotForgotten
