SPECIFICATION FormatsSpec
CONSTANTS
    MaxMessageSize = 200
    Streams <- MCStreams
    ReadSizes = {1, 3, 300}
    MaxHeaderSize = 200
    MaxBodySize = 3
    IstreamBuffer = 8
    MaxText = 4
    MaxIter = 3
    SymSize = 90
    Callsigns <- MCCallsigns
    Damages <- MCDamages
    Fields <- MCFields
    MaxLines = 2
    MaxOpens = 3
    Nsec = 8
    PerMs = 2
    SecMax = 15
    ArgBufLen = 18
    StrMax = 3
    RenderLen = 12
    PrefixMax = 4
INVARIANTS
    FramesAreRead HttpIsRead HandshakeAgrees  ReportsReadBack TimesAreNumbers
    RendersAsPrintf
CHECK_DEADLOCK FALSE
