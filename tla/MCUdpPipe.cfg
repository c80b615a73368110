CONSTANTS
    client = client
    resolver = resolver
    server = server
    Flow <- MCFlow
    Refusable <- MCRefusable
    PlainDns <- MCPlainDns
    MaxDatagrams = 3
    MaxReplies = 1
    MaxUnsolicited = 1
    Quarters = 1
SPECIFICATION FairSpec
INVARIANTS
    NoLeakedSocket
    ListenedOrWoken
PROPERTIES
    EarlyCloseLosesNothing
    Progress
