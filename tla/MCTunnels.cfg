CONSTANTS
    alice = alice
    bob = bob
    stranger = stranger
    NoCreds = NoCreds
    Malformed = Malformed
    Conn = {t1, t2}
    Client <- MCClient
    Creds <- MCCreds
    User <- MCUser
    UserOf <- MCUserOf
    DecodeUsername <- MCDecodeUsername
    MaxConns <- MCMaxConns
    DefaultMax <- MCDefaultMax
    PerClient = TRUE
    HasAuthenticator = TRUE
    HasLimiter = TRUE
    MaxRequests = 1
SYMMETRY MCSymmetry
SPECIFICATION Spec
INVARIANTS
    SlotsBalanced
    LimitRespected
    GaugesBalanced
    EntriesMatchConnections
CHECK_DEADLOCK FALSE
