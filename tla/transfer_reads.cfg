CONSTANTS
    max_packet_size = 4
    ReadChunks = {4, 12}
    writebuffer_chunksize = 2
    ReadSizes = {1, 4}
    WriteSizes = {}
    MaxBytes = 5
    FaultKinds = {"bulk", "submit", "alloc", "events", "timeout", "device", "control"}
    MaxFaults = 2
SPECIFICATION Spec
INVARIANTS TypeOK CompletedIsBack
PROPERTIES ReadsAreAStream DoneIsWhole
CHECK_DEADLOCK FALSE
