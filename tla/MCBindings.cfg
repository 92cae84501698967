\* bindings: the bindings that hold on to a resource of their own, one at a time
SPECIFICATION Spec
CONSTANTS
    MaxCalls = 3
    MaxSends = 3
    RingSize = 4
    MaxBytes = 8
    RecLen = 2
    MaxPeer = 10
    MaxChunk = 5
    MaxWrites = 2
    HeaderMax = 3
    MaxHeaders = 3
    MaxMessages = 2
    MaxCuts = 1
    MaxOutgoing = 4
    MaxClientCalls = 3
    MaxRequests = 2
    MaxServerCalls = 4
    MaxSockets = 2
    MaxPublished = 2
    MaxScript = 2
    MaxPings = 1
    ChunkSize = 4
    LongFrom = 2
    MaxTraffic = 3
    MaxFds = 2
    MaxJobs = 2
    MaxBuffer = 1
    MaxOutput = 2
    MaxIpc = 3
    MaxChildCalls = 2
    BufferBytes = {0, 200}
    MaxLength = 4
INVARIANTS
    DevicesSafe
    DgramSettles
    TlsWhole
    HttpWhole
    HttpSettles
    DisconnectIsFinal
    MessagesInOrder
    ZlibWhole
    MessagesWhole
    FilesWhole
    
    BuffersExact
CHECK_DEADLOCK FALSE
