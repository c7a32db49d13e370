CONSTANTS
    MaxWindow = 15
    InflowMinRefresh = 2
    NoErr = NoErr
    Requests = {r1, r2}
    NoReq = NoReq
    Shapes <- MCShapes
    Chrome = TRUE
    InitialWindow = 1
    ChromeWindow = 2
    StreamFlow = 2
    ConnFlow = 2
    DefaultMaxStreams = 2
    MaxFrameSize = 2
    LastStreamID = 99
    SingleUse = FALSE
    ReadSize = 2
    Responses <- MCResponses
    AdvMaxStreams = 1
    RecvWindow = 2
    ConnWindow = 2
    ChunkSize = 2
    HandlerReadSize = 2
    MaxQueuedControlFrames = 4
    NoWrite = NoWrite
    FaultCost <- MCFaultCost
    RequestCost = 3
    MaxFaults = 1
    MaxLoad = 8
SPECIFICATION Spec
SYMMETRY Perms
INVARIANTS NoConnError BodyIntact WindowsAgree NeverRunTwice
