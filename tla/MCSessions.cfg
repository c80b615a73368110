SPECIFICATION SessionSpec
CONSTANTS
    Task = {t1, t2, t3}
    Workers = 4
    Applications = {"endpoint", "usage"}
    HeadParts = 3
    HeadCap = 2
    BodyParts = 2
    ReplyParts = 2
    H2Stream = {s1, s2}
    H2Chunk = 2
    H2Window = 2
    H2Upload = 1
    H2Datagram = {s2}
    H2Uploading = {s1}
    QConn = {c1, c2}
    QActive = {c1}
    QueueCap = 1
    MaxTime = 2
    MaxEvents = 1
    RqConfigs <- MCConfigs
    RqResolved <- MCResolved
    RqServer <- MCServer
    SsRequest = {r1, r2}
    SsPlans <- MCPlans
    SsChunk = 2
    SsKinds = {"ping", "speedtest", "subscription", "proxy"}
    RpExchanges <- MCExchanges
    RpReadMax = 5
    RpLimit = 2
INVARIANTS
    TypeOK
    H1EofFlushesResponse
    H1UploadIsIntact
    H2FlowControl
    QDeadlinesAreKept
    QNoLostWakeup
    
    RqOnlyWhatIsAllowed
    SsDownloadIsExact
    RpBodyIsExact
PROPERTIES
    CompletionMeansQuiet
    ShutdownEnds
    SsTimeoutMeansIdle
    
CHECK_DEADLOCK FALSE
