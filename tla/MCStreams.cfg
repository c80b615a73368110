SPECIFICATION StreamSpec
CONSTANTS
    H3Stream = {s1}
    H3Writer = {s1}
    HeadLen = 2
    BodySize = 2
    ReadMax = 2
    Responses <- MCResponses
    DcByte <- DcBytes
    DcText = {0, 1, 2, 3, 4, 5}
    DcLength = 2
    DcHeader = 2
    DcU32 <- MCU32
    DcMaxIn = 6
    DcRequest = 3
    DcStreams <- MCDcStreams
    SpSource = {a, b}
    SpPeer = {p, q, r}
    SpRefused = {r}
    SpDns = {p}
    SpQuarters = 1
    SpMaxSent = 3
    SpMaxReplies = 1
    ScLen4 = 1
    ScLen6 = 3
    ScMaxName = 1
    AdClients <- MCClients
    AdHosts <- MCHosts
    AdRules <- MCRules
    AdMasks <- MCMasks
    AdPrebuffer = 4
    AdReadLen = 3
    AdMaxReloads = 1
    AdNone = AdNone
    AdBad = AdBad
    IcClient = {c1, c2}
    IcData = {"", "x", "y"}
    IcTimeout = 1
    IcQueueCap = 1
    IcMaxTime = 2
    IcMaxRequests = 2
    ImBase = 65536
    ImRequest <- MCRequest
    ImPackets <- MCPackets
    ImMessages <- MCWords
    HmName <- MCName
    HmHeader <- MCHeader
    HmExchanges <- MCExchanges
INVARIANTS
    TypeOK
    H3WaiterIsKnown
    H3StreamIsFreed
    
    DcCuttingIsHarmless
    ScHandshakeIsExact
    AdHelloIsWhole
    AdGeneratedClientIsAllowed
    AdServedAsChosen
    
    
PROPERTIES
    SpAssociationsInStep
    IcWaitersAreServed
CHECK_DEADLOCK FALSE
