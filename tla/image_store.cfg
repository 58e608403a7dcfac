SPECIFICATION ImageSpec
CONSTANTS
    ContentLength = 6
    BufSizes = {1, 3}
    MaxWaits = {0, 3}
    HeaderSize = 1
    DeviceSize = 6
    SectorSize = 2
    MinChunk = 2
    DeviceFaults = {"open", "read", "write", "sync", "close"}
INVARIANTS
    ReceivedIsPrefix
    EofIsComplete
    RetriesAsScheduled
    StoredIsImage
    NothingBehindImage
PROPERTY StoreEnds
CHECK_DEADLOCK FALSE
