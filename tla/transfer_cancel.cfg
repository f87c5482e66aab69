CONSTANTS
    max_packet_size = 4
    ReadChunks = {4}
    writebuffer_chunksize = 2
    ReadSizes = {3}
    WriteSizes = {3}
    MaxBytes = 3
    FaultKinds = {"bulk", "submit", "alloc", "device"}
    MaxFaults = 1
SPECIFICATION FairSpec
INVARIANTS WriteCounted NothingFreedInFlight
PROPERTIES CancelEnds
