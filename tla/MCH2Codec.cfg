SPECIFICATION Spec
CONSTANTS
    StaticTable <- MCStaticTable
    Octets <- MCOctets
    Coded <- MCCoded
    Overhead = 1
    InitialTableSize = 9
    Uint32Max = 1000
    Octet = 4
    MaxReadSize = 12
    MaxHeaderListSize = 33
    WireNames <- MCWireNames
    FieldValues <- MCFieldValues
    OtherPseudos = {":bogus"}
    Lower <- MCLower
    Tokens <- MCTokens
    ToASCII <- MCToASCII
    ValidHosts <- MCValidHosts
    ChromeHeaderOrder <- MCChromeHeaderOrder
    ChromeFingerprint = TRUE
    SortedNames <- MCSortedNames
    Joined <- MCJoined
    DefaultUserAgent = "go"
    MaxContentLength = 3
    StatusCodes <- MCStatusCodes
    TrailerPrefixed <- MCTrailerPrefixed
    Sniffed = "text"
    Now = "now"
    Urgencies = {0, 1}
    Kinds <- MCKinds
    Requests <- MCRequests
    Calls <- MCCalls
    Responses <- MCResponses
    Streams = {1, 3}
    Priorities <- MCPriorities
    Window <- MCWindow
    DecoderTableSize = 9
    TableSizes = {0, 6, 9}
    MaxFrameSize = 5
    MaxInFlight = 0
    MaxCalls = 1
    MaxAsked <- MCMaxAsked
    MaxEvents <- MCMaxEvents
INVARIANTS
    ReadsWhatWasWritten
    TablesAgree
    MessageArrives
    ServedInOrder
    ServedInTurn
